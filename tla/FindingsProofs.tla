--------------------------- MODULE FindingsProofs ---------------------------
(***************************************************************************)
(* Proofs about Findings, for any project, advisories and versions, and    *)
(* about the parts it is made of: Graph, for lockfiles of any size and     *)
(* shape, and Ranges, whatever the length and the order of the timelines.  *)
(* A scan runs them as its parts, so what is proved of them holds of it;   *)
(* and the upgrade it offers is what fix_for() says.                       *)
(***************************************************************************)
EXTENDS Findings, WellFoundedInduction, FiniteSetTheorems, TLAPS

-----------------------------------------------------------------------------
(* Induction                                                                *)

\* A set of numbers has a least one.
LEMMA LeastNat ==
    ASSUME NEW T \in SUBSET Nat, T # {}
    PROVE  \E x \in T : \A y \in T : x <= y
<1> DEFINE R == {s \in Nat \X Nat : s[1] < s[2]}
<1>1. IsWellFoundedOn(R, Nat)
    BY NatLessThanWellFounded DEF OpToRel
<1>2. PICK x \in T : \A y \in T : ~(<<y, x>> \in R)
  <2> HIDE DEF R
  <2> QED BY <1>1, WFMin
<1>3. ASSUME NEW y \in T PROVE x <= y
  <2>1. ~(<<y, x>> \in R)
      BY <1>2
  <2>2. <<y, x>> \in Nat \X Nat
      OBVIOUS
  <2>3. <<y, x>>[1] = y /\ <<y, x>>[2] = x
      OBVIOUS
  <2>4. ~(y < x)
      BY <2>1, <2>2, <2>3
  <2> QED BY <2>4
<1> QED BY <1>3

\* Induction: a set with 0, and with n + 1 whenever with n, has every number.
LEMMA Counting ==
    ASSUME NEW S, 0 \in S, \A n \in Nat : n \in S => n + 1 \in S
    PROVE  Nat \subseteq S
<1> SUFFICES ASSUME Nat \ S # {} PROVE FALSE
    OBVIOUS
<1>1. PICK x \in Nat \ S : \A y \in Nat \ S : x <= y
  <2> DEFINE T == Nat \ S
  <2>1. T \in SUBSET Nat /\ T # {}
      OBVIOUS
  <2> HIDE DEF T
  <2>2. \E x \in T : \A y \in T : x <= y
      BY <2>1, LeastNat
  <2> QED BY <2>2 DEF T
<1>2. x # 0 /\ x - 1 \in Nat
    BY <1>1
<1>3. x - 1 \in S
    BY <1>1, <1>2
<1> QED BY <1>1, <1>2, <1>3

\* Where a function applied again and again leads.
LEMMA Iterates ==
    ASSUME NEW X, NEW x0 \in X, NEW F \in [X -> X]
    PROVE  \E f \in [Nat -> X] : f[0] = x0 /\ \A n \in Nat : f[n + 1] = F[f[n]]
<1> DEFINE Ok(k, g) == g[0] = x0 /\ \A i \in 0..k - 1 : g[i + 1] = F[g[i]]
<1>1. \A k \in Nat : \E g \in [0..k -> X] : Ok(k, g)
  <2> DEFINE S == {k \in Nat : \E g \in [0..k -> X] : Ok(k, g)}
  <2>1. 0 \in S
    <3>1. [i \in 0..0 |-> x0] \in [0..0 -> X] /\ Ok(0, [i \in 0..0 |-> x0])
        OBVIOUS
    <3> QED BY <3>1
  <2>2. ASSUME NEW k \in Nat, k \in S PROVE k + 1 \in S
    <3>1. PICK g \in [0..k -> X] : Ok(k, g)
        BY <2>2
    <3> DEFINE h == [i \in 0..k + 1 |-> IF i = k + 1 THEN F[g[k]] ELSE g[i]]
    <3>2. h \in [0..k + 1 -> X]
        OBVIOUS
    <3>3. h[0] = x0
        BY <3>1
    <3>4. ASSUME NEW i \in 0..k + 1 - 1 PROVE h[i + 1] = F[h[i]]
      <4>1. CASE i = k
          BY <4>1
      <4>2. CASE i # k
        <5>1. i \in 0..k - 1 /\ i + 1 # k + 1 /\ i # k + 1
            BY <4>2
        <5> QED BY <5>1, <3>1
      <4> QED BY <4>1, <4>2
    <3> HIDE DEF h
    <3>5. Ok(k + 1, h)
        BY <3>3, <3>4
    <3> QED BY <3>2, <3>5
  <2> HIDE DEF S
  <2>3. Nat \subseteq S
      BY <2>1, <2>2, Counting
  <2> QED BY <2>3 DEF S
<1>2. ASSUME NEW k \in Nat, NEW l \in Nat, k <= l, NEW g, NEW h, Ok(k, g), Ok(l, h)
      PROVE  g[k] = h[k]
  <2> DEFINE S == {i \in Nat : i <= k => g[i] = h[i]}
  <2>1. 0 \in S
      BY <1>2
  <2>2. ASSUME NEW i \in Nat, i \in S PROVE i + 1 \in S
    <3>1. SUFFICES ASSUME i + 1 <= k PROVE g[i + 1] = h[i + 1]
        OBVIOUS
    <3>2. i \in 0..k - 1 /\ i \in 0..l - 1 /\ g[i] = h[i]
        BY <3>1, <1>2, <2>2
    <3> QED BY <1>2, <3>2
  <2> HIDE DEF S
  <2>3. Nat \subseteq S
      BY <2>1, <2>2, Counting
  <2> QED BY <2>3 DEF S
<1> DEFINE G(k) == CHOOSE g \in [0..k -> X] : Ok(k, g)
<1>3. ASSUME NEW k \in Nat PROVE G(k) \in [0..k -> X] /\ Ok(k, G(k))
    BY <1>1
<1> DEFINE f == [k \in Nat |-> G(k)[k]]
<1>4. f \in [Nat -> X]
  <2> SUFFICES ASSUME NEW k \in Nat PROVE G(k)[k] \in X
      OBVIOUS
  <2> HIDE DEF G
  <2> QED BY <1>3
<1>5. f[0] = x0
  <2>1. G(0)[0] = x0
      BY <1>3
  <2> QED BY <2>1
<1>6. ASSUME NEW n \in Nat PROVE f[n + 1] = F[f[n]]
  <2>1. n + 1 \in Nat /\ n \in 0..(n + 1) - 1
      OBVIOUS
  <2>2. G(n + 1)[n + 1] = F[G(n + 1)[n]]
    <3> HIDE DEF G
    <3> QED BY <2>1, <1>3
  <2>3. G(n)[n] = G(n + 1)[n]
    <3> HIDE DEF G, Ok
    <3>1. Ok(n, G(n)) /\ Ok(n + 1, G(n + 1))
        BY <1>3
    <3> QED BY <1>2, <3>1
  <2> HIDE DEF G
  <2> QED BY <2>2, <2>3
<1> HIDE DEF f
<1> QED BY <1>4, <1>5, <1>6

-----------------------------------------------------------------------------
(* Graph: the walk of the lockfile                                          *)

USE GraphAssumption

\* What a lockfile and the walk's tables are.
LEMMA LockFacts ==
    ASSUME GraphTypeOK
    PROVE  /\ lock.deps \in [Nodes -> Seq(Edge)] /\ lock.declares \in Seq(Nodes)
           /\ Len(lock.declares) \in Nat /\ seeded \in Nat /\ NoNode \notin Nodes
           /\ depth \in [Nodes -> Nat] /\ queue \in Seq(Nodes)
           /\ Edges \in Seq(Edge)
           /\ \A e \in Edge : e.to \in Nodes
<1>1. /\ lock.deps \in [Nodes -> Seq(Edge)] /\ lock.declares \in Seq(Nodes)
      /\ depth \in [Nodes -> Nat] /\ queue \in Seq(Nodes)
      /\ at \in Nodes \cup {NoNode} /\ seeded \in 0..Len(lock.declares)
    BY DEF GraphTypeOK, Lock
<1>2. Len(lock.declares) \in Nat /\ seeded \in Nat
    BY <1>1
<1>3. NoNode \notin Nodes
    BY DEF NoNode, Nodes
<1>4. Edges \in Seq(Edge)
    BY <1>1, <1>3 DEF Edges
<1>5. \A e \in Edge : e.to \in Nodes
    BY DEF Edge
<1> QED BY <1>1, <1>2, <1>3, <1>4, <1>5

\* One more entry in the queue.
LEMMA QueuedIs ==
    ASSUME NEW S, NEW q \in Seq(S), NEW x \in S, NEW q2, q2 = Append(q, x)
    PROVE  /\ q2 \in Seq(S) /\ Len(q) \in Nat /\ Len(q2) = Len(q) + 1
           /\ Len(q) + 1 \in DOMAIN q2 /\ q2[Len(q) + 1] = x
           /\ \A i \in DOMAIN q : /\ i \in Nat /\ i < Len(q) + 1 /\ q[i] \in S
                                  /\ i \in DOMAIN q2 /\ q2[i] = q[i]
           /\ \A i \in DOMAIN q2 : i \in DOMAIN q \/ i = Len(q) + 1
<1>1. q2 \in Seq(S) /\ Len(q) \in Nat /\ Len(q2) = Len(q) + 1
    OBVIOUS
<1>2. DOMAIN q = 1..Len(q) /\ DOMAIN q2 = 1..Len(q) + 1
    BY <1>1
<1>3. q2[Len(q) + 1] = x /\ \A i \in 1..Len(q) : q2[i] = q[i] /\ q[i] \in S
    BY <1>1
<1> QED BY <1>1, <1>2, <1>3

\* Entering an entry keeps the tables typed.
LEMMA EntersTyped ==
    ASSUME GraphTypeOK, NEW n \in Nodes, NEW from \in Nodes \cup {NoNode},
           NEW which \in 0..Len(lock.declares), NEW d \in Nat, Enters(n, from, which, d)
    PROVE  /\ predecessor' \in [Nodes -> Nodes \cup {NoNode}]
           /\ origin' \in [Nodes -> 0..Len(lock.declares)]
           /\ depth' \in [Nodes -> Nat]
           /\ queue' \in Seq(Nodes)
    BY DEF GraphTypeOK, Enters

LEMMA GraphTypesInit == GraphInit => GraphTypeOK
<1> SUFFICES ASSUME GraphInit PROVE GraphTypeOK
    OBVIOUS
<1>1. lock \in Lock /\ Len(lock.declares) \in Nat
    BY DEF GraphInit, Lock
<1>2. peers \in BOOLEAN /\ walked \in BOOLEAN
    BY DEF GraphInit, Unwalked
<1>3. /\ seeded \in 0..Len(lock.declares) /\ at \in Nodes \cup {NoNode} /\ pos \in Nat \ {0}
      /\ queue \in Seq(Nodes)
    BY <1>1 DEF GraphInit, Unwalked
<1>4. /\ predecessor \in [Nodes -> Nodes \cup {NoNode}]
      /\ origin \in [Nodes -> 0..Len(lock.declares)]
      /\ depth \in [Nodes -> Nat] /\ alternates \in [Nodes -> Seq(Nodes)]
    BY <1>1 DEF GraphInit, Unwalked
<1> QED BY <1>1, <1>2, <1>3, <1>4 DEF GraphTypeOK

\* Type correctness: no edge, declaration or table leads outside the lockfile.
THEOREM GraphTypes == GraphSpec => []GraphTypeOK
<1>2. ASSUME GraphTypeOK, [Walks]_graphVars
      PROVE  GraphTypeOK'
  <2>1. CASE Seeds
    <3> DEFINE n == lock.declares[seeded + 1]
    <3>1. seeded + 1 \in 1..Len(lock.declares) /\ n \in Nodes /\ seeded' = seeded + 1
        BY <2>1, <1>2, LockFacts DEF Seeds
    <3>2. /\ predecessor' \in [Nodes -> Nodes \cup {NoNode}]
          /\ origin' \in [Nodes -> 0..Len(lock.declares)]
          /\ depth' \in [Nodes -> Nat] /\ queue' \in Seq(Nodes)
      <4>1. CASE Enters(n, NoNode, seeded + 1, 1)
        <5>1. seeded + 1 \in 0..Len(lock.declares) /\ NoNode \in Nodes \cup {NoNode} /\ 1 \in Nat
            BY <3>1, <1>2, LockFacts
        <5> QED BY <4>1, <5>1, <3>1, <1>2, EntersTyped
      <4>2. CASE UNCHANGED <<predecessor, origin, depth, queue>>
          BY <4>2, <1>2 DEF GraphTypeOK
      <4> QED BY <2>1, <4>1, <4>2 DEF Seeds
    <3>3. UNCHANGED <<lock, peers, at, pos, alternates, walked>>
        BY <2>1 DEF Seeds
    <3>4. seeded' \in 0..Len(lock.declares)
        BY <3>1, <1>2, LockFacts
    <3> QED BY <1>2, <3>2, <3>3, <3>4 DEF GraphTypeOK
  <2>2. CASE Visits
    <3>1. at' \in Nodes /\ queue' \in Seq(Nodes) /\ pos' = 1
        BY <2>2, <1>2, LockFacts DEF Visits
    <3> QED BY <2>2, <3>1, <1>2 DEF Visits, GraphTypeOK
  <2>3. CASE Follows
    <3>1. pos \in DOMAIN Edges /\ Edges[pos] \in Edge /\ at \in Nodes /\ pos' = pos + 1
      <4>1. pos \in Nat \ {0} /\ pos <= Len(Edges) /\ pos' = pos + 1
          BY <2>3, <1>2 DEF Follows, GraphTypeOK
      <4>2. at # NoNode
        <5>1. SUFFICES ASSUME at = NoNode PROVE Len(Edges) = 0
            BY <4>1
        <5> QED BY <5>1 DEF Edges
      <4>3. at \in Nodes /\ Edges \in Seq(Edge)
          BY <4>2, <1>2, LockFacts DEF GraphTypeOK
      <4>4. pos \in DOMAIN Edges /\ Edges[pos] \in Edge
          BY <4>1, <4>3
      <4> QED BY <4>1, <4>3, <4>4
    <3> DEFINE n == Edges[pos].to
    <3>2. n \in Nodes /\ origin[at] \in 0..Len(lock.declares) /\ depth[at] + 1 \in Nat
      <4>1. n \in Nodes
          BY <3>1, <1>2, LockFacts
      <4>2. origin[at] \in 0..Len(lock.declares)
          BY <3>1, <1>2 DEF GraphTypeOK
      <4>3. depth[at] \in Nat
          BY <3>1, <1>2 DEF GraphTypeOK
      <4> QED BY <4>1, <4>2, <4>3
    <3>3. /\ predecessor' \in [Nodes -> Nodes \cup {NoNode}]
          /\ origin' \in [Nodes -> 0..Len(lock.declares)]
          /\ depth' \in [Nodes -> Nat] /\ queue' \in Seq(Nodes)
      <4>1. CASE Enters(n, at, origin[at], depth[at] + 1)
          BY <4>1, <3>1, <3>2, <1>2, EntersTyped
      <4>2. CASE UNCHANGED <<predecessor, origin, depth, queue>>
          BY <4>2, <1>2 DEF GraphTypeOK
      <4> QED BY <2>3, <4>1, <4>2 DEF Follows
    <3>4. alternates' \in [Nodes -> Seq(Nodes)]
      <4>1. CASE UNCHANGED alternates
          BY <4>1, <1>2 DEF GraphTypeOK
      <4>2. CASE alternates' = [alternates EXCEPT ![n] = Append(@, at)]
          BY <4>2, <3>1, <3>2, <1>2 DEF GraphTypeOK
      <4> QED BY <2>3, <4>1, <4>2 DEF Follows
    <3>5. UNCHANGED <<lock, peers, seeded, at, walked>>
        BY <2>3 DEF Follows
    <3>6. pos' \in Nat \ {0}
        BY <3>1, <1>2 DEF GraphTypeOK
    <3> QED BY <1>2, <3>3, <3>4, <3>5, <3>6 DEF GraphTypeOK
  <2>4. CASE EndsPass
    <3>1. CASE peers
      <4>1. UNCHANGED walkVars /\ walked' = TRUE /\ lock' = lock
          BY <2>4, <3>1, <1>2 DEF EndsPass, GraphTypeOK
      <4> QED BY <1>2, <4>1 DEF GraphTypeOK, walkVars
    <3>2. CASE ~peers
      <4>1. lock' = lock /\ peers' = TRUE /\ walked' = FALSE
          BY <2>4, <3>2, <1>2 DEF EndsPass, GraphTypeOK
      <4>2. /\ seeded' \in 0..Len(lock.declares) /\ at' \in Nodes \cup {NoNode}
            /\ pos' \in Nat \ {0} /\ queue' \in Seq(Nodes)
          BY <2>4, <3>2, <1>2, LockFacts DEF EndsPass
      <4>3. /\ predecessor' \in [Nodes -> Nodes \cup {NoNode}]
            /\ origin' \in [Nodes -> 0..Len(lock.declares)]
            /\ depth' \in [Nodes -> Nat] /\ alternates' \in [Nodes -> Seq(Nodes)]
        <5>1. /\ predecessor' = [n \in Nodes |-> NoNode] /\ origin' = [n \in Nodes |-> 0]
              /\ depth' = [n \in Nodes |-> 0] /\ alternates' = [n \in Nodes |-> <<>>]
            BY <2>4, <3>2 DEF EndsPass
        <5>2. 0 \in 0..Len(lock.declares)
            BY <1>2, LockFacts
        <5> QED BY <5>1, <5>2
      <4> QED BY <1>2, <4>1, <4>2, <4>3 DEF GraphTypeOK
    <3> QED BY <3>1, <3>2
  <2>5. CASE UNCHANGED graphVars
      BY <2>5, <1>2 DEF graphVars, walkVars, GraphTypeOK
  <2> QED BY <1>2, <2>1, <2>2, <2>3, <2>4, <2>5 DEF Walks
<1> QED BY GraphTypesInit, <1>2, PTL DEF GraphSpec

-----------------------------------------------------------------------------
(* The walk is breadth-first: the queue is in order of depth, nothing met is *)
(* more than one step further than the entry being visited, and everything   *)
(* visited has had its edges followed.                                       *)

Seeded == {lock.declares[i] : i \in 1..seeded}

\* The i-th edge of n leads at most one step further.
Relaxed(n, i) ==
    Allows(lock.deps[n][i].kind) => depth[lock.deps[n][i].to] \in 1..depth[n] + 1

\* What led to n is one step nearer, by an edge the pass may follow.
Led(n) ==
    /\ predecessor[n] \in Nodes
    /\ depth[n] = depth[predecessor[n]] + 1
    /\ \E i \in DOMAIN lock.deps[predecessor[n]] :
          /\ lock.deps[predecessor[n]][i].to = n
          /\ Allows(lock.deps[predecessor[n]][i].kind)

Done(n) == ~Fresh(n) /\ n # at /\ \A i \in DOMAIN queue : queue[i] # n

\* The declarations are entered first.
SeedInv ==
    /\ seeded < Len(lock.declares) => at = NoNode
    /\ at = NoNode => pos = 1 /\ \A n \in Nodes : depth[n] \in {0, 1}
    /\ \A n \in Nodes : depth[n] = 1 <=> n \in Seeded

\* The frontier is at most one step deep.
FrontierInv ==
    /\ at # NoNode =>
          /\ depth[at] >= 1
          /\ \A n \in Nodes : depth[n] <= depth[at] + 1
          /\ \A i \in DOMAIN queue : depth[at] <= depth[queue[i]]
    /\ \A i \in DOMAIN queue : depth[queue[i]] >= 1
    /\ \A i, j \in DOMAIN queue : i <= j => depth[queue[i]] <= depth[queue[j]]

EdgeInv ==
    /\ at # NoNode => \A i \in DOMAIN lock.deps[at] : i < pos => Relaxed(at, i)
    /\ \A n \in Nodes : depth[n] > 1 => Led(n)
    /\ \A n \in Nodes : Done(n) => \A i \in DOMAIN lock.deps[n] : Relaxed(n, i)

BfsInv == GraphTypeOK /\ SeedInv /\ FrontierInv /\ EdgeInv

\* Entering an entry that was not met only gives it a depth.
LEMMA EntersChanges ==
    ASSUME GraphTypeOK, NEW n \in Nodes, NEW from, NEW which, NEW d, Enters(n, from, which, d)
    PROVE  /\ depth'[n] = d /\ predecessor'[n] = from
           /\ \A m \in Nodes \ {n} : /\ depth'[m] = depth[m]
                                      /\ predecessor'[m] = predecessor[m]
           /\ queue' = Append(queue, n)
    BY DEF Enters, GraphTypeOK

\* ... so what was relaxed or led to stays so, and what is done was.
LEMMA EntersKeeps ==
    ASSUME BfsInv, NEW n \in Nodes, Fresh(n), NEW from, NEW which, NEW d \in Nat \ {0},
           Enters(n, from, which, d), UNCHANGED <<lock, peers, at>>
    PROVE  /\ \A m \in Nodes, i \in Nat :
                 i \in DOMAIN lock.deps[m] /\ ~Fresh(m) /\ Relaxed(m, i) => Relaxed(m, i)'
           /\ \A m \in Nodes \ {n} : Led(m) => depth[m] <= 1 \/ Led(m)'
           /\ \A m \in Nodes : Done(m)' => Done(m)
  <1>0. /\ lock.deps \in [Nodes -> Seq(Edge)] /\ depth \in [Nodes -> Nat]
        /\ queue \in Seq(Nodes) /\ depth[n] = 0 /\ \A e \in Edge : e.to \in Nodes
      BY LockFacts DEF BfsInv, Fresh
  <1>1. /\ depth'[n] = d /\ queue' = Append(queue, n)
        /\ \A m \in Nodes \ {n} : depth'[m] = depth[m] /\ predecessor'[m] = predecessor[m]
      BY EntersChanges DEF BfsInv
  <1>2. ASSUME NEW m \in Nodes, NEW i \in Nat, i \in DOMAIN lock.deps[m], ~Fresh(m), Relaxed(m, i)
        PROVE  Relaxed(m, i)'
    <2>1. lock.deps[m][i] \in Edge /\ lock.deps[m][i].to \in Nodes /\ m # n
        BY <1>0, <1>2 DEF Fresh
    <2>2. depth'[m] = depth[m] /\ (lock.deps[m][i].to # n =>
              depth'[lock.deps[m][i].to] = depth[lock.deps[m][i].to])
        BY <1>1, <2>1
    <2>3. Allows(lock.deps[m][i].kind)' <=> Allows(lock.deps[m][i].kind)
        BY DEF Allows
    <2>4. lock.deps[m][i].to = n => ~Allows(lock.deps[m][i].kind)
        BY <1>0, <1>2, <2>1 DEF Relaxed
    <2> QED BY <1>2, <2>2, <2>3, <2>4 DEF Relaxed
  <1>3. ASSUME NEW m \in Nodes \ {n}, Led(m), depth[m] > 1 PROVE Led(m)'
    <2>1. predecessor[m] \in Nodes /\ depth[predecessor[m]] >= 1
        BY <1>0, <1>3 DEF Led
    <2>2. predecessor[m] # n /\ predecessor'[m] = predecessor[m] /\ depth'[m] = depth[m]
        BY <1>0, <1>1, <2>1, <1>3
    <2>3. depth'[predecessor'[m]] = depth[predecessor[m]]
        BY <1>1, <2>1, <2>2
    <2> QED BY <1>3, <2>2, <2>3 DEF Led, Allows
  <1>4. ASSUME NEW m \in Nodes, Done(m)' PROVE Done(m)
    <2>1. m # n /\ \A i \in DOMAIN queue : queue'[i] = queue[i] /\ i \in DOMAIN queue'
      <3>1. /\ Len(queue) + 1 \in DOMAIN queue' /\ queue'[Len(queue) + 1] = n
            /\ \A i \in DOMAIN queue : queue'[i] = queue[i] /\ i \in DOMAIN queue'
          BY <1>0, <1>1
      <3> QED BY <3>1, <1>4 DEF Done
    <2> QED BY <1>1, <1>4, <2>1 DEF Done, Fresh
  <1>5. \A m \in Nodes \ {n} : Led(m) => depth[m] <= 1 \/ Led(m)'
      BY <1>0, <1>3
  <1> QED BY <1>2, <1>4, <1>5

\* The next declaration.
LEMMA SeedsKeeps == ASSUME BfsInv, GraphTypeOK', Seeds PROVE BfsInv'
  <1> DEFINE n == lock.declares[seeded + 1]
  <1>0. /\ seeded + 1 \in 1..Len(lock.declares) /\ n \in Nodes /\ seeded' = seeded + 1
        /\ at = NoNode /\ UNCHANGED <<lock, peers, at, pos>>
        /\ depth \in [Nodes -> Nat] /\ queue \in Seq(Nodes) /\ seeded \in Nat
        /\ pos = 1 /\ \A m \in Nodes : depth[m] \in {0, 1}
      BY LockFacts DEF BfsInv, SeedInv, Seeds
  <1>1. Seeded' = Seeded \cup {n}
    <2>1. 1..seeded + 1 = 1..seeded \cup {seeded + 1}
        BY <1>0
    <2> QED BY <1>0, <2>1 DEF Seeded
  <1>2. CASE Fresh(n)
    <2>1. Enters(n, NoNode, seeded + 1, 1)
        BY <1>2 DEF Seeds
    <2>2. /\ depth'[n] = 1 /\ queue' = Append(queue, n)
          /\ \A m \in Nodes \ {n} : depth'[m] = depth[m]
        BY <2>1, <1>0, EntersChanges DEF BfsInv
    <2>3. SeedInv'
        BY <1>0, <1>1, <2>2 DEF BfsInv, SeedInv
    <2>4. FrontierInv'
      <3>1. \A i \in DOMAIN queue' : queue'[i] \in Nodes /\ depth'[queue'[i]] = 1
        <4> SUFFICES ASSUME NEW i \in DOMAIN queue'
                     PROVE  queue'[i] \in Nodes /\ depth'[queue'[i]] = 1
            OBVIOUS
        <4>1. CASE i \in DOMAIN queue
          <5>1. queue'[i] = queue[i] /\ queue[i] \in Nodes
              BY <1>0, <2>2, <4>1, QueuedIs
          <5>2. depth[queue[i]] >= 1
              BY <4>1 DEF BfsInv, FrontierInv
          <5>3. queue[i] # n => depth'[queue[i]] = depth[queue[i]] /\ depth[queue[i]] \in {0, 1}
              BY <1>0, <2>2, <5>1
          <5> QED BY <2>2, <5>1, <5>2, <5>3
        <4>2. CASE i \notin DOMAIN queue
          <5>1. queue'[i] = n
              BY <1>0, <2>2, <4>2, QueuedIs
          <5> QED BY <1>0, <2>2, <5>1
        <4> QED BY <4>1, <4>2
      <3> QED BY <1>0, <3>1 DEF FrontierInv
    <2>5. EdgeInv'
      <3>1. ASSUME NEW m \in Nodes PROVE ~(depth'[m] > 1)
        <4>1. m # n => depth'[m] = depth[m]
            BY <2>2
        <4>2. depth[m] \in {0, 1} /\ depth'[n] = 1
            BY <1>0, <2>2
        <4> QED BY <4>1, <4>2
      <3>2. ASSUME NEW m \in Nodes, Done(m)', NEW i \in DOMAIN lock.deps[m] PROVE Relaxed(m, i)'
        <4>1. i \in Nat /\ Done(m)
          <5>1. lock.deps[m] \in Seq(Edge)
              BY LockFacts DEF BfsInv
          <5>2. i \in Nat
              BY <3>2, <5>1
          <5>3. 1 \in Nat \ {0} /\ UNCHANGED <<lock, peers, at>>
              BY <1>0
          <5> HIDE DEF n
          <5>4. Done(m)
              BY <1>0, <1>2, <2>1, <3>2, <5>3, EntersKeeps
          <5> QED BY <5>2, <5>4
        <4>2. Relaxed(m, i) /\ ~Fresh(m)
            BY <4>1, <3>2 DEF BfsInv, EdgeInv, Done
        <4> QED BY <1>0, <1>2, <2>1, <3>2, <4>1, <4>2, EntersKeeps
      <3> QED BY <1>0, <3>1, <3>2 DEF EdgeInv
    <2> QED BY <2>3, <2>4, <2>5 DEF BfsInv
  <1>3. CASE ~Fresh(n)
    <2>1. UNCHANGED <<predecessor, depth, queue>>
        BY <1>3 DEF Seeds
    <2>2. n \in Seeded
        BY <1>0, <1>3 DEF BfsInv, SeedInv, Fresh
    <2>3. Seeded' = Seeded
        BY <1>1, <2>2
    <2>4. SeedInv'
        BY <1>0, <2>1, <2>3 DEF BfsInv, SeedInv
    <2>5. FrontierInv' /\ EdgeInv'
        BY <1>0, <2>1 DEF BfsInv, FrontierInv, EdgeInv, Done, Fresh, Led, Relaxed, Allows
    <2> QED BY <2>4, <2>5 DEF BfsInv
  <1> QED BY <1>2, <1>3

\* The next entry in the queue; the edges of the last were all followed.
LEMMA VisitsKeeps == ASSUME BfsInv, GraphTypeOK', Visits PROVE BfsInv'
  <1>0. /\ queue # <<>> /\ queue \in Seq(Nodes) /\ depth \in [Nodes -> Nat]
        /\ at' = queue[1] /\ queue[1] \in Nodes /\ pos' = 1
        /\ 1 \in DOMAIN queue /\ Len(queue') = Len(queue) - 1
        /\ queue' \in Seq(Nodes) /\ Len(queue) \in Nat
        /\ \A i \in DOMAIN queue' : i + 1 \in DOMAIN queue /\ queue'[i] = queue[i + 1]
        /\ UNCHANGED <<lock, peers, seeded, predecessor, depth>>
        /\ seeded = Len(lock.declares) /\ pos > Len(Edges) /\ at' # NoNode
      BY LockFacts DEF BfsInv, Visits, Idling
  <1>1. SeedInv'
    <2>1. Seeded' = Seeded /\ seeded' = Len(lock.declares) /\ lock' = lock
        BY <1>0 DEF Seeded
    <2>2. ~(seeded' < Len(lock'.declares))
        BY <2>1, LockFacts DEF BfsInv
    <2>3. \A n \in Nodes : depth'[n] = 1 <=> n \in Seeded'
        BY <1>0, <2>1 DEF BfsInv, SeedInv
    <2> QED BY <1>0, <2>2, <2>3 DEF SeedInv
  <1>2. FrontierInv'
    <2>1. depth'[at'] >= 1 /\ \A n \in Nodes : depth'[n] <= depth'[at'] + 1
      <3>1. depth[queue[1]] >= 1
          BY <1>0 DEF BfsInv, FrontierInv
      <3>2. CASE at = NoNode
          BY <1>0, <3>1, <3>2 DEF BfsInv, SeedInv
      <3>3. CASE at # NoNode
        <4>1. at \in Nodes /\ depth[at] <= depth[queue[1]]
            BY <1>0, <3>3 DEF BfsInv, GraphTypeOK, FrontierInv
        <4> QED BY <1>0, <3>1, <3>3, <4>1 DEF BfsInv, FrontierInv
      <3> QED BY <3>2, <3>3
    <2>2. \A i \in DOMAIN queue' : depth'[at'] <= depth'[queue'[i]] /\ depth'[queue'[i]] >= 1
      <3> SUFFICES ASSUME NEW i \in DOMAIN queue'
                   PROVE  depth'[at'] <= depth'[queue'[i]] /\ depth'[queue'[i]] >= 1
          OBVIOUS
      <3>1. i + 1 \in DOMAIN queue /\ queue'[i] = queue[i + 1] /\ 1 <= i + 1
          BY <1>0
      <3> QED BY <1>0, <3>1 DEF BfsInv, FrontierInv
    <2>3. ASSUME NEW i \in DOMAIN queue', NEW j \in DOMAIN queue', i <= j
          PROVE  depth'[queue'[i]] <= depth'[queue'[j]]
      <3>1. i + 1 \in DOMAIN queue /\ j + 1 \in DOMAIN queue /\ i + 1 <= j + 1
          BY <1>0, <2>3
      <3> QED BY <1>0, <3>1 DEF BfsInv, FrontierInv
    <2> QED BY <2>1, <2>2, <2>3 DEF FrontierInv
  <1>3. EdgeInv'
    <2>1. \A i \in DOMAIN lock'.deps[at'] : ~(i < pos')
        BY <1>0, LockFacts DEF BfsInv
    <2>2. \A n \in Nodes : depth'[n] > 1 => Led(n)'
        BY <1>0 DEF BfsInv, EdgeInv, Led, Allows
    <2>3. ASSUME NEW n \in Nodes, Done(n)', NEW i \in DOMAIN lock.deps[n] PROVE Relaxed(n, i)'
      <3>1. CASE n = at
        <4>1. i < pos
          <5>1. n # NoNode /\ lock.deps[n] \in Seq(Edge)
              BY LockFacts DEF BfsInv
          <5>2. Edges = lock.deps[n] /\ pos \in Nat
              BY <3>1, <5>1 DEF Edges, BfsInv, GraphTypeOK
          <5>3. i \in Nat /\ i <= Len(lock.deps[n])
              BY <2>3, <5>1
          <5> QED BY <1>0, <5>1, <5>2, <5>3
        <4> QED BY <1>0, <2>3, <3>1, <4>1, LockFacts DEF BfsInv, EdgeInv, Relaxed, Allows
      <3>2. CASE n # at
        <4>1. \A k \in DOMAIN queue : queue[k] # n
          <5> SUFFICES ASSUME NEW k \in DOMAIN queue, queue[k] = n PROVE FALSE
              OBVIOUS
          <5>1. k # 1
              BY <1>0, <2>3 DEF Done
          <5>2. k \in 1..Len(queue)
              BY <1>0
          <5>3. k - 1 \in DOMAIN queue' /\ (k - 1) + 1 = k
              BY <1>0, <5>1, <5>2
          <5>4. queue'[k - 1] = n
              BY <1>0, <5>3
          <5> QED BY <2>3, <5>3, <5>4 DEF Done
        <4>2. Done(n)
            BY <1>0, <2>3, <3>2, <4>1 DEF Done, Fresh
        <4> QED BY <1>0, <2>3, <4>2 DEF BfsInv, EdgeInv, Relaxed, Allows
      <3> QED BY <3>1, <3>2
    <2> QED BY <1>0, <2>1, <2>2, <2>3 DEF EdgeInv
  <1> QED BY <1>1, <1>2, <1>3 DEF BfsInv

\* One edge: what it leads to is one step further, or no further than that.
LEMMA FollowsKeeps == ASSUME BfsInv, GraphTypeOK', Follows PROVE BfsInv'
  <1> DEFINE e == Edges[pos]
             n == e.to
  <1>0. /\ lock.deps \in [Nodes -> Seq(Edge)] /\ depth \in [Nodes -> Nat] /\ queue \in Seq(Nodes)
        /\ pos \in Nat \ {0} /\ NoNode \notin Nodes /\ \A d \in Edge : d.to \in Nodes
        /\ at \in Nodes \cup {NoNode} /\ Edges \in Seq(Edge)
      BY LockFacts DEF BfsInv, GraphTypeOK
  <1>1. /\ pos <= Len(Edges) /\ pos' = pos + 1 /\ seeded = Len(lock.declares)
        /\ UNCHANGED <<lock, peers, seeded, at>>
      BY DEF Follows
  <1>2. at \in Nodes /\ at # NoNode
    <2>1. SUFFICES ASSUME at = NoNode PROVE Len(Edges) = 0
        BY <1>0, <1>1
    <2> QED BY <2>1 DEF Edges
  <1>3. Edges = lock.deps[at] /\ pos \in DOMAIN lock.deps[at] /\ e \in Edge /\ n \in Nodes
    <2>1. Edges = lock.deps[at]
        BY <1>2 DEF Edges
    <2>2. pos \in DOMAIN Edges /\ e \in Edge
        BY <1>0, <1>1
    <2> QED BY <1>0, <2>1, <2>2
  <1>4. depth[at] >= 1 /\ ~Fresh(at)
      BY <1>0, <1>2 DEF BfsInv, FrontierInv, Fresh
  <1>5. Seeded' = Seeded
      BY <1>1 DEF Seeded
  <1>6. CASE Allows(e.kind) /\ Fresh(n)
    <2>1. Enters(n, at, origin[at], depth[at] + 1)
        BY <1>6 DEF Follows
    <2>2. /\ depth'[n] = depth[at] + 1 /\ predecessor'[n] = at /\ queue' = Append(queue, n)
          /\ \A m \in Nodes \ {n} : depth'[m] = depth[m]
          /\ n # at /\ depth'[at] = depth[at] /\ depth[n] = 0
        BY <1>2, <1>3, <1>4, <1>6, <2>1, EntersChanges DEF BfsInv, Fresh
    <2>3. depth[at] + 1 \in Nat \ {0}
        BY <1>0, <1>2
    <2>4. SeedInv'
      <3>1. ASSUME NEW m \in Nodes PROVE depth'[m] = 1 <=> m \in Seeded
        <4>1. CASE m = n
            BY <1>0, <1>2, <1>4, <2>2, <4>1 DEF BfsInv, SeedInv
        <4>2. CASE m # n
            BY <2>2, <4>2 DEF BfsInv, SeedInv
        <4> QED BY <4>1, <4>2
      <3> QED BY <1>1, <1>2, <1>5, <3>1, LockFacts DEF SeedInv, BfsInv
    <2>5. FrontierInv'
      <3>1. ASSUME NEW m \in Nodes PROVE depth'[m] <= depth'[at'] + 1
        <4>1. depth'[at'] = depth[at] /\ depth[at] \in Nat
            BY <1>0, <1>1, <1>2, <2>2
        <4>2. CASE m = n
            BY <2>2, <4>1, <4>2
        <4>3. CASE m # n
            BY <1>2, <2>2, <4>1, <4>3 DEF BfsInv, FrontierInv
        <4> QED BY <4>2, <4>3
      <3>2. \A i \in DOMAIN queue :
               /\ i \in DOMAIN queue' /\ queue'[i] = queue[i] /\ queue[i] \in Nodes
               /\ depth[queue[i]] >= 1 /\ depth'[queue[i]] = depth[queue[i]]
               /\ i < Len(queue) + 1 /\ i \in Nat
        <4> SUFFICES ASSUME NEW i \in DOMAIN queue
                     PROVE /\ i \in DOMAIN queue' /\ queue'[i] = queue[i] /\ queue[i] \in Nodes
                           /\ depth[queue[i]] >= 1 /\ depth'[queue[i]] = depth[queue[i]]
                           /\ i < Len(queue) + 1 /\ i \in Nat
            OBVIOUS
        <4>1. /\ i \in DOMAIN queue' /\ queue'[i] = queue[i] /\ queue[i] \in Nodes
              /\ i < Len(queue) + 1 /\ i \in Nat
          <5>1. queue \in Seq(Nodes) /\ n \in Nodes /\ queue' = Append(queue, n)
              BY <1>0, <1>3, <2>2
          <5> HIDE DEF n
          <5> QED BY <5>1, QueuedIs
        <4>2. depth[queue[i]] >= 1
            BY DEF BfsInv, FrontierInv
        <4>3. queue[i] # n
            BY <2>2, <4>2
        <4> QED BY <2>2, <4>1, <4>2, <4>3
      <3>3. /\ Len(queue) + 1 \in DOMAIN queue' /\ queue'[Len(queue) + 1] = n
            /\ \A i \in DOMAIN queue' : i \in DOMAIN queue \/ i = Len(queue) + 1
          BY <1>0, <2>2
      <3>4. \A i \in DOMAIN queue' : depth'[at'] <= depth'[queue'[i]] /\ depth'[queue'[i]] >= 1
        <4> SUFFICES ASSUME NEW i \in DOMAIN queue'
                     PROVE  depth'[at'] <= depth'[queue'[i]] /\ depth'[queue'[i]] >= 1
            OBVIOUS
        <4>1. CASE i \in DOMAIN queue
            BY <1>1, <1>2, <2>2, <3>2, <4>1 DEF BfsInv, FrontierInv
        <4>2. CASE i = Len(queue) + 1
            BY <1>0, <1>1, <1>2, <1>4, <2>2, <2>3, <3>3, <4>2
        <4> QED BY <3>3, <4>1, <4>2
      <3>5. ASSUME NEW i \in DOMAIN queue', NEW j \in DOMAIN queue', i <= j
            PROVE  depth'[queue'[i]] <= depth'[queue'[j]]
        <4>1. CASE i \in DOMAIN queue /\ j \in DOMAIN queue
            BY <3>2, <3>5, <4>1 DEF BfsInv, FrontierInv
        <4>2. CASE i \in DOMAIN queue /\ j = Len(queue) + 1
            BY <1>1, <2>2, <3>1, <3>2, <3>3, <4>2
        <4>3. CASE i = Len(queue) + 1 /\ j = Len(queue) + 1
            BY <1>0, <2>2, <2>3, <3>3, <4>3
        <4>4. ~(i = Len(queue) + 1 /\ j \in DOMAIN queue)
            BY <1>0, <3>2, <3>5
        <4> QED BY <3>3, <4>1, <4>2, <4>3, <4>4
      <3>6. depth'[at'] >= 1
          BY <1>1, <1>4, <2>2
      <3> QED BY <3>1, <3>4, <3>5, <3>6 DEF FrontierInv
    <2>6. EdgeInv'
      <3>1. ASSUME NEW i \in DOMAIN lock.deps[at], i < pos' PROVE Relaxed(at, i)'
        <4>1. i \in Nat /\ (i < pos \/ i = pos)
            BY <1>0, <1>1, <1>2, <3>1
        <4>2. CASE i < pos
          <5>1. Relaxed(at, i)
              BY <1>2, <3>1, <4>2 DEF BfsInv, EdgeInv
          <5> QED BY <1>1, <1>2, <1>3, <1>4, <1>6, <2>1, <2>3, <3>1, <4>1, <5>1, EntersKeeps
        <4>3. CASE i = pos
          <5>1. lock.deps[at][i].to = n
              BY <1>3, <4>3
          <5>2. depth'[n] \in 1..depth'[at] + 1
              BY <1>0, <1>2, <2>2
          <5> QED BY <1>1, <5>1, <5>2 DEF Relaxed
        <4> QED BY <4>1, <4>2, <4>3
      <3>2. ASSUME NEW m \in Nodes, depth'[m] > 1 PROVE Led(m)'
        <4>1. CASE m = n
          <5>1. predecessor'[n] \in Nodes /\ depth'[n] = depth'[predecessor'[n]] + 1
              BY <1>2, <2>2
          <5>2. /\ pos \in DOMAIN lock'.deps[at] /\ lock'.deps[at][pos] = e
                /\ e.kind = "runtime" \/ (e.kind = "peer" /\ peers')
              BY <1>1, <1>3, <1>6 DEF Allows
          <5>3. \E i \in DOMAIN lock'.deps[predecessor'[n]] :
                   /\ lock'.deps[predecessor'[n]][i].to = n
                   /\ \/ lock'.deps[predecessor'[n]][i].kind = "runtime"
                      \/ lock'.deps[predecessor'[n]][i].kind = "peer" /\ peers'
              BY <2>2, <5>2
          <5> QED BY <4>1, <5>1, <5>3 DEF Led, Allows
        <4>2. CASE m # n
          <5>1. depth[m] > 1 /\ Led(m)
              BY <2>2, <3>2, <4>2 DEF BfsInv, EdgeInv
          <5>2. ~(depth[m] <= 1)
              BY <1>0, <5>1
          <5> QED BY <1>1, <1>3, <1>6, <2>1, <2>3, <4>2, <5>1, <5>2, EntersKeeps
        <4> QED BY <4>1, <4>2
      <3>3. ASSUME NEW m \in Nodes, Done(m)', NEW i \in DOMAIN lock.deps[m] PROVE Relaxed(m, i)'
        <4>1. Done(m)
            BY <1>1, <1>3, <1>6, <2>1, <2>3, <3>3, EntersKeeps
        <4>2. i \in Nat
            BY <1>0, <3>3
        <4>3. Relaxed(m, i) /\ ~Fresh(m)
            BY <3>3, <4>1 DEF BfsInv, EdgeInv, Done
        <4> QED BY <1>1, <1>3, <1>6, <2>1, <2>3, <3>3, <4>2, <4>3, EntersKeeps
      <3> QED BY <1>1, <3>1, <3>2, <3>3 DEF EdgeInv
    <2> QED BY <2>4, <2>5, <2>6 DEF BfsInv
  <1>7. CASE ~(Allows(e.kind) /\ Fresh(n))
    <2>1. UNCHANGED <<predecessor, depth, queue>>
        BY <1>7 DEF Follows
    <2>2. SeedInv'
        BY <1>1, <1>2, <1>5, <2>1, LockFacts DEF BfsInv, SeedInv
    <2>3. FrontierInv'
        BY <1>1, <2>1 DEF BfsInv, FrontierInv
    <2>4. ASSUME NEW i \in DOMAIN lock.deps[at], i < pos' PROVE Relaxed(at, i)'
      <3>1. i \in Nat /\ (i < pos \/ i = pos)
          BY <1>0, <1>1, <1>2, <2>4
      <3>2. CASE i < pos
          BY <1>1, <1>2, <2>1, <2>4, <3>2 DEF BfsInv, EdgeInv, Relaxed, Allows
      <3>3. CASE i = pos
        <4>1. lock.deps[at][i] = e
            BY <1>3, <3>3
        <4>2. Allows(e.kind) => depth[n] \in 1..depth[at] + 1
            BY <1>0, <1>2, <1>3, <1>7 DEF BfsInv, FrontierInv, Fresh
        <4> QED BY <1>1, <2>1, <4>1, <4>2 DEF Relaxed, Allows
      <3> QED BY <3>1, <3>2, <3>3
    <2>5. \A m \in Nodes : depth'[m] > 1 => Led(m)'
        BY <1>1, <2>1 DEF BfsInv, EdgeInv, Led, Allows
    <2>6. \A m \in Nodes : Done(m)' => \A i \in DOMAIN lock.deps[m] : Relaxed(m, i)'
        BY <1>1, <2>1 DEF BfsInv, EdgeInv, Done, Fresh, Relaxed, Allows
    <2>7. EdgeInv'
        BY <1>1, <2>4, <2>5, <2>6 DEF EdgeInv
    <2> QED BY <2>2, <2>3, <2>7 DEF BfsInv
  <1> QED BY <1>6, <1>7

\* A pass that starts has met nothing, so nothing is to be shown of it.
Starts ==
    /\ GraphTypeOK
    /\ seeded = 0 /\ at = NoNode /\ pos = 1 /\ queue = <<>>
    /\ \A n \in Nodes : depth[n] = 0

LEMMA NothingMetYet == Starts => BfsInv
  <1> SUFFICES ASSUME Starts PROVE BfsInv
      OBVIOUS
  <1> USE DEF Starts
  <1>1. Seeded = {}
      BY DEF Seeded
  <1>2. SeedInv
      BY <1>1 DEF SeedInv
  <1>3. FrontierInv
      BY DEF FrontierInv
  <1>4. EdgeInv
      BY DEF EdgeInv, Done, Fresh
  <1> QED BY <1>2, <1>3, <1>4 DEF BfsInv

LEMMA BfsInvHolds == GraphSpec => []BfsInv
<1>1. GraphInit /\ GraphTypeOK => BfsInv
    BY NothingMetYet DEF GraphInit, Unwalked, Starts
<1>2. ASSUME BfsInv, GraphTypeOK', [Walks]_graphVars PROVE BfsInv'
  <2>1. CASE Seeds
      BY <1>2, <2>1, SeedsKeeps
  <2>2. CASE Visits
      BY <1>2, <2>2, VisitsKeeps
  <2>3. CASE Follows
      BY <1>2, <2>3, FollowsKeeps
  <2>4. CASE EndsPass /\ ~peers
    <3>1. Starts'
        BY <1>2, <2>4 DEF EndsPass, Starts
    <3> QED BY <3>1, NothingMetYet, PTL
  <2>5. CASE (EndsPass /\ peers) \/ UNCHANGED graphVars
    <3>1. UNCHANGED walkVars /\ lock' = lock
        BY <2>5 DEF EndsPass, graphVars
    <3>2. SeedInv' /\ FrontierInv'
        BY <1>2, <3>1 DEF walkVars, BfsInv, SeedInv, Seeded, FrontierInv
    <3>3. EdgeInv'
        BY <1>2, <3>1 DEF walkVars, BfsInv, EdgeInv, Done, Fresh, Led, Relaxed, Allows
    <3> QED BY <1>2, <3>2, <3>3 DEF BfsInv
  <2> QED BY <1>2, <2>1, <2>2, <2>3, <2>4, <2>5 DEF Walks
<1> QED BY <1>1, <1>2, GraphTypes, PTL DEF GraphSpec

\* When a pass is over its depths are tight.
LEMMA BfsTight == BfsInv => DepthsAreTight
  <2> SUFFICES ASSUME BfsInv, Idling, queue = <<>>, NEW n \in Nodes, ~Fresh(n)
               PROVE  /\ depth[n] = 1 <=> n \in Declared
                      /\ \A i \in DOMAIN lock.deps[n] :
                            Allows(lock.deps[n][i].kind) =>
                                depth[lock.deps[n][i].to] \in 1..depth[n] + 1
                      /\ n \notin Declared =>
                           /\ predecessor[n] \in Nodes
                           /\ depth[n] = depth[predecessor[n]] + 1
                           /\ \E i \in DOMAIN lock.deps[predecessor[n]] :
                                 /\ lock.deps[predecessor[n]][i].to = n
                                 /\ Allows(lock.deps[predecessor[n]][i].kind)
      BY DEF DepthsAreTight
  <2>1. Declared = Seeded
    <3>1. DOMAIN lock.declares = 1..seeded
        BY LockFacts DEF BfsInv, Idling
    <3> QED BY <3>1 DEF Declared, Seeded
  <2>2. ASSUME NEW i \in DOMAIN lock.deps[n] PROVE Relaxed(n, i)
    <3>1. CASE n = at
      <4>1. n # NoNode /\ lock.deps[n] \in Seq(Edge)
          BY LockFacts DEF BfsInv
      <4>2. Edges = lock.deps[n] /\ pos \in Nat /\ pos > Len(Edges)
          BY <3>1, <4>1 DEF Edges, BfsInv, GraphTypeOK, Idling
      <4>3. i < pos
          BY <2>2, <4>1, <4>2
      <4> QED BY <2>2, <3>1, <4>1, <4>3 DEF BfsInv, EdgeInv
    <3>2. CASE n # at
        BY <2>2, <3>2 DEF BfsInv, EdgeInv, Done
    <3> QED BY <3>1, <3>2
  <2>3. depth[n] \in Nat \ {0}
      BY LockFacts DEF BfsInv, Fresh
  <2>4. n \notin Declared => Led(n)
      BY <2>1, <2>3 DEF BfsInv, SeedInv, EdgeInv
  <2>5. depth[n] = 1 <=> n \in Declared
      BY <2>1 DEF BfsInv, SeedInv
  <2> QED BY <2>2, <2>4, <2>5 DEF Relaxed, Led

\* DepthsAreTight, for lockfiles of any size and shape: why a chain that goes
\* back from predecessor to predecessor is a shortest one.
THEOREM Tight == GraphSpec => []DepthsAreTight
  BY BfsTight, BfsInvHolds, PTL

-----------------------------------------------------------------------------
(* The ways in.                                                              *)
\* m leads to n, one step further.
Via(m, n) ==
    /\ m \in Nodes /\ depth[m] >= 1
    /\ depth[n] = depth[m] + 1
    /\ \E i \in DOMAIN lock.deps[m] : /\ lock.deps[m][i].to = n
                                      /\ Allows(lock.deps[m][i].kind)

\* A declared entry is where a chain begins, and every other way in that was
\* kept is exactly as short.
WaysInv ==
    /\ \A n \in Nodes : depth[n] = 1 => predecessor[n] = NoNode
    /\ \A n \in Nodes : \A i \in DOMAIN alternates[n] : Via(alternates[n][i], n)

\* Entering an entry disturbs no way to another.
LEMMA WaysStay ==
    ASSUME BfsInv, WaysInv, NEW k \in Nodes, Fresh(k), NEW from, NEW which, NEW d \in Nat \ {0},
           d = 1 => from = NoNode,
           Enters(k, from, which, d), UNCHANGED <<lock, peers, alternates>>
    PROVE  WaysInv'
<1>1. /\ depth'[k] = d /\ predecessor'[k] = from /\ depth[k] = 0
      /\ \A m \in Nodes \ {k} : depth'[m] = depth[m] /\ predecessor'[m] = predecessor[m]
    BY EntersChanges DEF BfsInv, Fresh
<1>2. ASSUME NEW n \in Nodes PROVE depth'[n] = 1 => predecessor'[n] = NoNode
    BY <1>1 DEF WaysInv
<1>3. ASSUME NEW n \in Nodes, NEW i \in DOMAIN alternates[n] PROVE Via(alternates[n][i], n)'
  <2> DEFINE m == alternates[n][i]
  <2>1. Via(m, n)
      BY DEF WaysInv
  <2>2. m \in Nodes /\ depth[m] \in Nat /\ depth[m] >= 1 /\ depth[n] = depth[m] + 1
      BY <2>1, LockFacts DEF Via, BfsInv
  <2>3. m # k /\ n # k
      BY <1>1, <2>2
  <2>4. depth'[m] = depth[m] /\ depth'[n] = depth[n] /\ alternates'[n][i] = m
      BY <1>1, <2>2, <2>3
  <2> HIDE DEF m
  <2> QED BY <2>1, <2>4 DEF Via, Allows
<1> QED BY <1>2, <1>3 DEF WaysInv

\* One more way in, as short.
LEMMA WayAdded ==
    ASSUME BfsInv, WaysInv, GraphTypeOK, NEW n \in Nodes, Via(at, n),
           alternates' = [alternates EXCEPT ![n] = Append(@, at)],
           UNCHANGED <<lock, peers, predecessor, depth>>
    PROVE  WaysInv'
<1>1. alternates \in [Nodes -> Seq(Nodes)] /\ at \in Nodes
    BY DEF GraphTypeOK, Via
<1>2. ASSUME NEW m \in Nodes, NEW i \in DOMAIN alternates'[m] PROVE Via(alternates[m][i], m)'
  <2>1. \/ i \in DOMAIN alternates[m] /\ alternates'[m][i] = alternates[m][i]
        \/ m = n /\ alternates'[m][i] = at
    <3>1. CASE m = n
      <4>1. alternates[n] \in Seq(Nodes) /\ alternates'[n] = Append(alternates[n], at)
          BY <1>1
      <4> QED BY <1>1, <1>2, <3>1, <4>1, QueuedIs
    <3>2. CASE m # n
      <4>1. alternates'[m] = alternates[m]
          BY <1>1, <3>2
      <4> QED BY <1>2, <4>1
    <3> QED BY <3>1, <3>2
  <2>2. \E x : x = alternates'[m][i] /\ Via(x, m)
      BY <2>1 DEF WaysInv
  <2>3. PICK x : x = alternates'[m][i] /\ Via(x, m)
      BY <2>2
  <2> QED BY <2>3 DEF Via, Allows
<1>3. ASSUME NEW m \in Nodes PROVE depth'[m] = 1 => predecessor'[m] = NoNode
    BY DEF WaysInv
<1> QED BY <1>2, <1>3 DEF WaysInv

LEMMA WaysHold == GraphSpec => []WaysInv
<1>1. GraphInit => WaysInv
    BY DEF GraphInit, Unwalked, WaysInv
<1>2. ASSUME BfsInv, WaysInv, [Walks]_graphVars PROVE WaysInv'
  <2>1. CASE Seeds
    <3> DEFINE n == lock.declares[seeded + 1]
    <3>1. n \in Nodes
      <4>1. seeded + 1 \in 1..Len(lock.declares)
          BY <1>2, <2>1, LockFacts DEF BfsInv, Seeds
      <4> QED BY <1>2, <4>1, LockFacts DEF BfsInv
    <3>2. UNCHANGED <<lock, peers, alternates>>
        BY <2>1 DEF Seeds
    <3>3. CASE Fresh(n)
      <4>1. Enters(n, NoNode, seeded + 1, 1) /\ 1 \in Nat \ {0}
          BY <2>1, <3>3 DEF Seeds
      <4> HIDE DEF n
      <4> QED BY <1>2, <3>1, <3>2, <3>3, <4>1, WaysStay
    <3>4. CASE ~Fresh(n)
      <4>1. UNCHANGED <<predecessor, depth>>
          BY <2>1, <3>4 DEF Seeds
      <4> QED BY <1>2, <3>2, <4>1 DEF WaysInv, Via, Allows
    <3> QED BY <3>3, <3>4
  <2>2. CASE Follows
    <3> DEFINE e == Edges[pos]
               n == e.to
    <3>1. at \in Nodes /\ Edges = lock.deps[at] /\ pos \in DOMAIN lock.deps[at] /\ n \in Nodes
      <4>1. pos \in Nat \ {0} /\ pos <= Len(Edges) /\ Edges \in Seq(Edge)
          BY <1>2, <2>2, LockFacts DEF BfsInv, GraphTypeOK, Follows
      <4>2. at # NoNode
        <5>1. SUFFICES ASSUME at = NoNode PROVE Len(Edges) = 0
            BY <4>1
        <5> QED BY <5>1 DEF Edges
      <4>3. pos \in DOMAIN Edges /\ e \in Edge
          BY <4>1
      <4>4. n \in Nodes
          BY <1>2, <4>3, LockFacts DEF BfsInv
      <4> QED BY <1>2, <4>2, <4>3, <4>4 DEF Edges, BfsInv, GraphTypeOK
    <3>2. UNCHANGED <<lock, peers>> /\ depth[at] \in Nat /\ depth[at] >= 1
        BY <1>2, <2>2, <3>1, LockFacts DEF Follows, BfsInv, FrontierInv
    <3>3. CASE Allows(e.kind) /\ Fresh(n)
      <4>1. Enters(n, at, origin[at], depth[at] + 1) /\ UNCHANGED alternates
          BY <2>2, <3>3 DEF Follows
      <4>2. depth[at] + 1 \in Nat \ {0} /\ depth[at] + 1 # 1
          BY <3>2
      <4> HIDE DEF n
      <4> QED BY <1>2, <3>1, <3>2, <3>3, <4>1, <4>2, WaysStay
    <3>4. CASE Allows(e.kind) /\ ~Fresh(n) /\ Alternate(n)
      <4>1. /\ alternates' = [alternates EXCEPT ![n] = Append(@, at)]
            /\ UNCHANGED <<lock, peers, predecessor, depth>>
          BY <2>2, <3>4 DEF Follows
      <4>2. Via(at, n)
          BY <3>1, <3>2, <3>4 DEF Via, Alternate
      <4>3. GraphTypeOK
          BY <1>2 DEF BfsInv
      <4> HIDE DEF n
      <4> QED BY <1>2, <3>1, <4>1, <4>2, <4>3, WayAdded
    <3>5. CASE ~Allows(e.kind) \/ (~Fresh(n) /\ ~Alternate(n))
      <4>1. UNCHANGED <<predecessor, depth, alternates>>
          BY <2>2, <3>5 DEF Follows
      <4> QED BY <1>2, <3>2, <4>1 DEF WaysInv, Via, Allows
    <3> QED BY <3>3, <3>4, <3>5
  <2>3. CASE EndsPass /\ ~peers
      BY <2>3 DEF EndsPass, WaysInv
  <2>4. CASE Visits \/ (EndsPass /\ peers) \/ UNCHANGED graphVars
    <3>1. UNCHANGED <<lock, peers, predecessor, depth, alternates>>
        BY <2>4 DEF Visits, EndsPass, graphVars, walkVars
    <3> QED BY <1>2, <3>1 DEF WaysInv, Via, Allows
  <2> QED BY <1>2, <2>1, <2>2, <2>3, <2>4 DEF Walks
<1> QED BY <1>1, <1>2, BfsInvHolds, PTL DEF GraphSpec

-----------------------------------------------------------------------------
(* A chain: from a declaration, one step at a time, to the entry.            *)

Back(path, n) ==
    /\ path[depth[n]] = n
    /\ \A i \in 2..depth[n] : predecessor[path[i]] = path[i - 1]

\* A way from a declaration to n by edges of this pass, as short as n is deep.
Direct(path, n) ==
    /\ path \in [1..depth[n] -> Nodes]
    /\ path[depth[n]] = n
    /\ \A i \in 1..depth[n] : depth[path[i]] = i
    /\ \A i \in 2..depth[n] :
          \E e \in DOMAIN lock.deps[path[i - 1]] :
             /\ lock.deps[path[i - 1]][e].to = path[i]
             /\ Allows(lock.deps[path[i - 1]][e].kind)

\* chain() comes back to a declaration from whatever was met.
LEMMA ChainIs ==
    ASSUME BfsInv, NEW n \in Nodes, ~Fresh(n)
    PROVE  Chain(n) \in [1..depth[n] -> Nodes] /\ Back(Chain(n), n)
<1> DEFINE Has(k, m) == \E path \in [1..k -> Nodes] :
                           /\ path[k] = m
                           /\ \A i \in 2..k : predecessor[path[i]] = path[i - 1]
           S == {k \in Nat : \A m \in Nodes : depth[m] = k + 1 => Has(k + 1, m)}
<1>1. 0 \in S
  <2>1. ASSUME NEW m \in Nodes PROVE Has(0 + 1, m)
    <3> DEFINE path == [i \in 1..1 |-> m]
    <3>1. path \in [1..1 -> Nodes] /\ path[1] = m /\ \A i \in 2..1 : FALSE
        OBVIOUS
    <3> HIDE DEF path
    <3> QED BY <3>1
  <2> HIDE DEF Has
  <2> QED BY <2>1
<1>2. ASSUME NEW k \in Nat, k \in S PROVE k + 1 \in S
  <2>1. ASSUME NEW m \in Nodes, depth[m] = k + 2 PROVE Has(k + 2, m)
    <3>1. predecessor[m] \in Nodes /\ depth[m] = depth[predecessor[m]] + 1
      <4>1. depth[m] > 1
          BY <2>1
      <4>2. Led(m)
          BY <4>1 DEF BfsInv, EdgeInv
      <4> QED BY <4>2 DEF Led
    <3>2. depth[predecessor[m]] = k + 1
      <4> HIDE DEF S
      <4>1. depth[predecessor[m]] \in Nat
          BY <3>1, LockFacts DEF BfsInv
      <4> QED BY <2>1, <3>1, <4>1
    <3>3. Has(k + 1, predecessor[m])
      <4> HIDE DEF Has
      <4> QED BY <1>2, <3>1, <3>2
    <3>4. PICK q \in [1..k + 1 -> Nodes] :
              /\ q[k + 1] = predecessor[m]
              /\ \A i \in 2..k + 1 : predecessor[q[i]] = q[i - 1]
        BY <3>3
    <3> DEFINE path == [i \in 1..k + 2 |-> IF i = k + 2 THEN m ELSE q[i]]
    <3>5. path \in [1..k + 2 -> Nodes] /\ path[k + 2] = m
      <4>1. \A i \in 1..k + 2 : i # k + 2 => i \in 1..k + 1
          OBVIOUS
      <4> QED BY <4>1
    <3>6. ASSUME NEW i \in 2..k + 2 PROVE predecessor[path[i]] = path[i - 1]
      <4>1. i - 1 \in 1..k + 1 /\ i - 1 # k + 2 /\ i - 1 \in 1..k + 2 /\ i \in 1..k + 2
          OBVIOUS
      <4>2. path[i - 1] = q[i - 1]
          BY <4>1
      <4>3. CASE i = k + 2
          BY <3>4, <4>2, <4>3
      <4>4. CASE i # k + 2
        <5>1. i \in 2..k + 1 /\ path[i] = q[i]
            BY <4>1, <4>4
        <5> QED BY <3>4, <4>2, <5>1
      <4> QED BY <4>3, <4>4
    <3> HIDE DEF path
    <3> QED BY <3>5, <3>6
  <2>2. k + 1 + 1 = k + 2
      OBVIOUS
  <2> HIDE DEF Has
  <2> QED BY <2>1, <2>2
<1>3. Has(depth[n], n)
  <2> HIDE DEF S
  <2>1. Nat \subseteq S
      BY <1>1, <1>2, Counting
  <2>2. depth[n] - 1 \in Nat /\ depth[n] = (depth[n] - 1) + 1
      BY LockFacts DEF BfsInv, Fresh
  <2>3. depth[n] - 1 \in S
      BY <2>1, <2>2
  <2> HIDE DEF Has
  <2> QED BY <2>2, <2>3 DEF S
<1>4. \E path \in [1..depth[n] -> Nodes] : Back(path, n)
    BY <1>3 DEF Back
<1> QED BY <1>4 DEF Chain, Back

\* Going back, every step is one nearer.
LEMMA BackDescends ==
    ASSUME BfsInv, NEW n \in Nodes, ~Fresh(n), NEW path \in [1..depth[n] -> Nodes],
           Back(path, n)
    PROVE  \A i \in 1..depth[n] : depth[path[i]] = i
<1>0. depth \in [Nodes -> Nat] /\ depth[n] \in Nat
    BY LockFacts DEF BfsInv
<1> DEFINE S == {j \in Nat : j < depth[n] => depth[path[depth[n] - j]] = depth[n] - j}
<1>1. 0 \in S
    BY <1>0 DEF Back
<1>2. ASSUME NEW j \in Nat, j \in S PROVE j + 1 \in S
  <2> SUFFICES ASSUME j + 1 < depth[n]
               PROVE  depth[path[depth[n] - (j + 1)]] = depth[n] - (j + 1)
      OBVIOUS
  <2> DEFINE i == depth[n] - j
  <2>1. i \in 2..depth[n] /\ i - 1 \in 1..depth[n] /\ depth[n] - (j + 1) = i - 1 /\ i > 1
      BY <1>0
  <2>2. depth[path[i]] = i
    <3>1. j < depth[n]
        BY <1>0
    <3> QED BY <1>2, <3>1
  <2> HIDE DEF i
  <2>3. path[i] \in Nodes /\ path[i - 1] \in Nodes
      BY <2>1
  <2>4. depth[path[i]] = depth[predecessor[path[i]]] + 1
      BY <2>1, <2>2, <2>3 DEF BfsInv, EdgeInv, Led
  <2>5. predecessor[path[i]] = path[i - 1]
      BY <2>1 DEF Back
  <2>6. depth[path[i - 1]] \in Nat
      BY <1>0, <2>3
  <2> QED BY <2>1, <2>2, <2>4, <2>5, <2>6
<1> HIDE DEF S
<1>3. Nat \subseteq S
    BY <1>1, <1>2, Counting
<1>4. ASSUME NEW i \in 1..depth[n] PROVE depth[path[i]] = i
  <2>1. depth[n] - i \in Nat /\ depth[n] - i < depth[n] /\ depth[n] - (depth[n] - i) = i
      BY <1>0
  <2>2. depth[n] - i \in S
      BY <1>3, <2>1
  <2> QED BY <2>1, <2>2 DEF S
<1> QED BY <1>4

\* What the walk attributes an entry to is as short as the entry is deep.
LEMMA ChainIsDirect ==
    ASSUME BfsInv, NEW n \in Nodes, ~Fresh(n)
    PROVE  Direct(Chain(n), n)
<1> DEFINE path == Chain(n)
<1>0. /\ path \in [1..depth[n] -> Nodes] /\ Back(path, n)
      /\ depth \in [Nodes -> Nat] /\ depth[n] \in Nat
    BY ChainIs, LockFacts DEF BfsInv
<1> HIDE DEF path
<1>1. \A i \in 1..depth[n] : depth[path[i]] = i
    BY <1>0, BackDescends
<1>2. ASSUME NEW i \in 2..depth[n]
      PROVE  \E e \in DOMAIN lock.deps[path[i - 1]] :
                /\ lock.deps[path[i - 1]][e].to = path[i]
                /\ Allows(lock.deps[path[i - 1]][e].kind)
  <2>1. i \in 1..depth[n] /\ depth[path[i]] = i /\ path[i] \in Nodes /\ i > 1
      BY <1>0, <1>1
  <2>2. predecessor[path[i]] = path[i - 1]
      BY <1>0 DEF Back
  <2> QED BY <2>1, <2>2 DEF BfsInv, EdgeInv, Led
<1>3. Direct(path, n)
    BY <1>0, <1>1, <1>2 DEF Direct, Back
<1> QED BY <1>3 DEF path

\* ... and so is every alternative that was kept.
LEMMA AlternateIsDirect ==
    ASSUME BfsInv, NEW n \in Nodes, NEW m, Via(m, n)
    PROVE  Direct(Append(Chain(m), n), n)
<1> DEFINE short == Chain(m)
           path == Append(short, n)
<1>0. /\ m \in Nodes /\ ~Fresh(m) /\ depth[m] \in Nat \ {0} /\ depth[n] = depth[m] + 1
      /\ depth[n] \in Nat
    BY LockFacts DEF BfsInv, Via, Fresh
<1>1. Direct(short, m)
    BY <1>0, ChainIsDirect
<1> HIDE DEF short
<1>2. short \in Seq(Nodes) /\ Len(short) = depth[m]
    BY <1>0, <1>1 DEF Direct
<1>3. /\ path \in [1..depth[n] -> Nodes] /\ path[depth[n]] = n
      /\ \A i \in 1..depth[m] : path[i] = short[i]
  <2>1. /\ path \in Seq(Nodes) /\ Len(path) = Len(short) + 1 /\ path[Len(short) + 1] = n
        /\ \A i \in DOMAIN short : path[i] = short[i]
    <3>1. path = Append(short, n)
        OBVIOUS
    <3> HIDE DEF path
    <3> QED BY <1>2, <3>1, QueuedIs
  <2> HIDE DEF path
  <2>2. Len(path) = depth[n] /\ DOMAIN short = 1..depth[m]
      BY <1>0, <1>2, <2>1
  <2> QED BY <1>0, <1>2, <2>1, <2>2
<1> HIDE DEF path
<1>4. ASSUME NEW i \in 1..depth[n] PROVE depth[path[i]] = i
  <2>1. CASE i = depth[n]
      BY <1>3, <2>1
  <2>2. CASE i # depth[n]
    <3>1. i \in 1..depth[m]
        BY <1>0, <2>2
    <3> QED BY <1>1, <1>3, <3>1 DEF Direct
  <2> QED BY <2>1, <2>2
<1>5. ASSUME NEW i \in 2..depth[n]
      PROVE  \E e \in DOMAIN lock.deps[path[i - 1]] :
                /\ lock.deps[path[i - 1]][e].to = path[i]
                /\ Allows(lock.deps[path[i - 1]][e].kind)
  <2>1. i - 1 \in 1..depth[m] /\ path[i - 1] = short[i - 1]
      BY <1>0, <1>3
  <2>2. CASE i = depth[n]
    <3>1. i - 1 = depth[m] /\ short[depth[m]] = m /\ path[i] = n
        BY <1>0, <1>1, <1>3, <2>2 DEF Direct
    <3> QED BY <2>1, <3>1 DEF Via
  <2>3. CASE i # depth[n]
    <3>1. i \in 2..depth[m] /\ i \in 1..depth[m]
        BY <1>0, <2>3
    <3>2. path[i] = short[i]
        BY <1>3, <3>1
    <3> QED BY <1>1, <2>1, <3>1, <3>2 DEF Direct
  <2> QED BY <2>2, <2>3
<1>6. Direct(path, n)
    BY <1>3, <1>4, <1>5 DEF Direct
<1> QED BY <1>6 DEF path, short

\* A chain meets an entry once, so no entry is deeper than there are entries.
LEMMA DepthBounded ==
    ASSUME BfsInv, NEW n \in Nodes
    PROVE  depth[n] <= N
<1>0. depth[n] \in Nat /\ N \in Nat
    BY LockFacts DEF BfsInv
<1>1. CASE Fresh(n)
    BY <1>0, <1>1 DEF Fresh
<1>2. CASE ~Fresh(n)
  <2> DEFINE path == Chain(n)
  <2>1. Direct(path, n)
      BY <1>2, ChainIsDirect
  <2> HIDE DEF path
  <2>2. \A i, j \in 1..depth[n] : path[i] = path[j] => i = j
      BY <2>1 DEF Direct
  <2>3. path \in [1..depth[n] -> Nodes]
      BY <2>1 DEF Direct
  <2>4. path \in Injection(1..depth[n], Nodes)
    <3>1. DOMAIN path = 1..depth[n]
        BY <2>3
    <3>2. IsInjective(path)
        BY <2>2, <3>1 DEF IsInjective
    <3> QED BY <2>3, <3>2 DEF Injection
  <2>5. /\ IsFiniteSet(1..N) /\ Cardinality(1..N) = N
        /\ IsFiniteSet(1..depth[n]) /\ Cardinality(1..depth[n]) = depth[n]
    <3>1. 1 \in Int /\ N \in Int /\ depth[n] \in Int /\ depth[n] >= 0 /\ N >= 0
        BY <1>0
    <3>2. /\ IsFiniteSet(1..N) /\ Cardinality(1..N) = IF 1 > N THEN 0 ELSE N - 1 + 1
        BY <3>1, FS_Interval
    <3>3. /\ IsFiniteSet(1..depth[n])
          /\ Cardinality(1..depth[n]) = IF 1 > depth[n] THEN 0 ELSE depth[n] - 1 + 1
        BY <3>1, FS_Interval
    <3> QED BY <1>0, <3>2, <3>3
  <2>6. path \in Injection(1..depth[n], 1..N)
      BY <2>4 DEF Nodes
  <2>7. Cardinality(1..depth[n]) <= Cardinality(1..N)
      BY <2>5, <2>6, FS_Injection
  <2> QED BY <2>5, <2>7
<1> QED BY <1>1, <1>2

-----------------------------------------------------------------------------
(* What can be reached, by how many edges.                                   *)

\* One edge further than a set of entries.
Wider(kinds, S) == S \cup {m \in Nodes : \E n \in S : Step(kinds, n, m)}

\* Within, radius by radius.
LEMMA WithinIs ==
    ASSUME GraphTypeOK, NEW kinds
    PROVE  /\ Within(kinds, 0) = Declared
           /\ \A d \in 1..N : Within(kinds, d) = Wider(kinds, Within(kinds, d - 1))
           /\ \A d \in 0..N : Within(kinds, d) \subseteq Nodes
<1> DEFINE X == SUBSET Nodes
           F == [S \in X |-> Wider(kinds, S)]
           Is(w) == w = [d \in 0..N |-> IF d = 0 THEN Declared ELSE Wider(kinds, w[d - 1])]
<1>0. Declared \in X /\ F \in [X -> X]
  <2>1. Declared \subseteq Nodes
      BY LockFacts DEF Declared
  <2> QED BY <2>1 DEF Wider
<1>1. PICK f \in [Nat -> X] : f[0] = Declared /\ \A n \in Nat : f[n + 1] = F[f[n]]
  <2>1. \E f \in [Nat -> X] : f[0] = Declared /\ \A n \in Nat : f[n + 1] = F[f[n]]
    <3> HIDE DEF F, X
    <3> QED BY <1>0, Iterates
  <2> QED BY <2>1
<1>2. \E w : Is(w)
  <2> HIDE DEF F
  <2> DEFINE w == [d \in 0..N |-> f[d]]
  <2>1. ASSUME NEW d \in 0..N
        PROVE  f[d] = IF d = 0 THEN Declared ELSE Wider(kinds, w[d - 1])
    <3>1. CASE d = 0
        BY <3>1, <1>1
    <3>2. CASE d # 0
      <4>1. d - 1 \in Nat /\ d - 1 \in 0..N /\ (d - 1) + 1 = d
          BY <3>2
      <4>2. f[d] = F[f[d - 1]]
          BY <4>1, <1>1
      <4>3. w[d - 1] = f[d - 1] /\ f[d - 1] \in X
          BY <4>1, <1>1
      <4> QED BY <3>2, <4>2, <4>3 DEF F
    <3> QED BY <3>1, <3>2
  <2>2. [d \in 0..N |-> f[d]]
            = [d \in 0..N |-> IF d = 0 THEN Declared ELSE Wider(kinds, w[d - 1])]
      BY <2>1
  <2>3. Is(w)
      BY <2>2
  <2> HIDE DEF w, Is
  <2> QED BY <2>3
<1> DEFINE W == CHOOSE w : Is(w)
<1>3. W = [d \in 0..N |-> IF d = 0 THEN Declared ELSE Wider(kinds, W[d - 1])]
  <2>1. Is(W)
    <3> HIDE DEF Is
    <3> QED BY <1>2
  <2> QED BY <2>1
<1>4. \A d : Within(kinds, d) = W[d]
    BY DEF Within, Wider
<1> HIDE DEF W
<1>5. W[0] = Declared
    BY <1>3
<1>6. ASSUME NEW d \in 1..N PROVE W[d] = Wider(kinds, W[d - 1])
  <2>1. d \in 0..N /\ d # 0
      OBVIOUS
  <2> QED BY <1>3, <2>1
<1>7. \A d \in 0..N : W[d] \subseteq Nodes
  <2> DEFINE S == {d \in Nat : d <= N => W[d] \subseteq Nodes}
  <2>1. 0 \in S
      BY <1>0, <1>5
  <2>2. ASSUME NEW d \in Nat, d \in S PROVE d + 1 \in S
    <3>1. SUFFICES ASSUME d + 1 <= N PROVE W[d + 1] \subseteq Nodes
        OBVIOUS
    <3>2. d + 1 \in 1..N /\ (d + 1) - 1 = d /\ W[d] \subseteq Nodes
        BY <2>2, <3>1
    <3> QED BY <1>6, <3>2 DEF Wider
  <2> HIDE DEF S
  <2>3. Nat \subseteq S
      BY <2>1, <2>2, Counting
  <2> QED BY <2>3 DEF S
<1> QED BY <1>4, <1>5, <1>6, <1>7

\* More kinds of edge reach at least as much.
LEMMA WithinGrows ==
    ASSUME GraphTypeOK, NEW less, NEW more, less \subseteq more
    PROVE  \A d \in 0..N : Within(less, d) \subseteq Within(more, d)
<1> DEFINE S == {d \in Nat : d <= N => Within(less, d) \subseteq Within(more, d)}
<1>1. 0 \in S
    BY WithinIs
<1>2. ASSUME NEW d \in Nat, d \in S PROVE d + 1 \in S
  <2>1. SUFFICES ASSUME d + 1 <= N PROVE Within(less, d + 1) \subseteq Within(more, d + 1)
      OBVIOUS
  <2>2. d + 1 \in 1..N /\ (d + 1) - 1 = d /\ Within(less, d) \subseteq Within(more, d)
      BY <1>2, <2>1
  <2>3. /\ Within(less, d + 1) = Wider(less, Within(less, d))
        /\ Within(more, d + 1) = Wider(more, Within(more, d))
      BY <2>2, WithinIs
  <2>4. \A n, m : Step(less, n, m) => Step(more, n, m)
      BY DEF Step
  <2> HIDE DEF S
  <2> QED BY <2>2, <2>3, <2>4 DEF Wider
<1> HIDE DEF S
<1>3. Nat \subseteq S
    BY <1>1, <1>2, Counting
<1>4. ASSUME NEW d \in 0..N PROVE Within(less, d) \subseteq Within(more, d)
    BY <1>3 DEF S
<1> QED BY <1>4

\* The edges this pass follows.
Followed == IF peers THEN WithPeer ELSE Honest

PassOver == Idling /\ queue = <<>>

LEMMA FollowedIs == ASSUME GraphTypeOK, NEW kind PROVE Allows(kind) <=> kind \in Followed
    BY DEF GraphTypeOK, Allows, Followed, WithPeer, Honest

\* What is declared is one deep, and nothing else is.
LEMMA DeclaredIs ==
    ASSUME BfsInv, PassOver, NEW n \in Nodes
    PROVE  depth[n] = 1 <=> n \in Declared
<1>1. Declared = Seeded
  <2>1. DOMAIN lock.declares = 1..seeded
      BY LockFacts DEF BfsInv, Idling, PassOver
  <2> QED BY <2>1 DEF Declared, Seeded
<1> QED BY <1>1 DEF BfsInv, SeedInv

\* The breadth-first walk is right: when a pass is over, an entry is within d
\* edges of the manifest exactly if it was met at depth d + 1 or less.
LEMMA WithinDepth ==
    ASSUME BfsInv, PassOver
    PROVE  \A d \in 0..N, n \in Nodes : n \in Within(Followed, d) <=> depth[n] \in 1..d + 1
<1>0. GraphTypeOK /\ depth \in [Nodes -> Nat] /\ lock.deps \in [Nodes -> Seq(Edge)]
    BY LockFacts DEF BfsInv
<1> DEFINE S == {d \in Nat : d <= N => \A n \in Nodes :
                                 n \in Within(Followed, d) <=> depth[n] \in 1..d + 1}
<1>1. 0 \in S
  <2>1. Within(Followed, 0) = Declared
      BY <1>0, WithinIs
  <2>2. ASSUME NEW n \in Nodes PROVE n \in Declared <=> depth[n] \in 1..0 + 1
    <3>1. depth[n] \in Nat /\ (depth[n] = 1 <=> n \in Declared)
        BY <1>0, DeclaredIs
    <3> QED BY <3>1
  <2> QED BY <2>1, <2>2
<1>2. ASSUME NEW d \in Nat, d \in S PROVE d + 1 \in S
  <2>1. SUFFICES ASSUME d + 1 <= N, NEW n \in Nodes
                 PROVE  n \in Within(Followed, d + 1) <=> depth[n] \in 1..d + 2
    <3>1. (d + 1) + 1 = d + 2
        OBVIOUS
    <3> QED BY <3>1
  <2>2. /\ d + 1 \in 1..N /\ (d + 1) - 1 = d /\ d \in 0..N
        /\ \A m \in Nodes : m \in Within(Followed, d) <=> depth[m] \in 1..d + 1
      BY <1>2, <2>1
  <2> HIDE DEF S
  <2>3. Within(Followed, d + 1) = Wider(Followed, Within(Followed, d))
      BY <1>0, <2>2, WithinIs
  <2>4. Within(Followed, d) \subseteq Nodes
      BY <1>0, <2>2, WithinIs
  <2>5. ASSUME n \in Within(Followed, d + 1) PROVE depth[n] \in 1..d + 2
    <3>1. CASE n \in Within(Followed, d)
      <4>1. depth[n] \in 1..d + 1
          BY <2>2, <3>1
      <4> QED BY <4>1
    <3>2. CASE n \notin Within(Followed, d)
      <4>1. PICK m \in Within(Followed, d) : Step(Followed, m, n)
          BY <2>3, <2>5, <3>2 DEF Wider
      <4>2. m \in Nodes /\ depth[m] \in 1..d + 1 /\ ~Fresh(m)
        <5>1. m \in Nodes /\ depth[m] \in 1..d + 1
            BY <2>2, <2>4, <4>1
        <5> QED BY <5>1 DEF Fresh
      <4>3. PICK i \in DOMAIN lock.deps[m] : /\ lock.deps[m][i].to = n
                                             /\ Allows(lock.deps[m][i].kind)
          BY <1>0, <4>1, FollowedIs DEF Step
      <4>4. depth[n] \in 1..depth[m] + 1
          BY <4>2, <4>3, BfsTight DEF DepthsAreTight, PassOver
      <4> QED BY <1>0, <4>2, <4>4
    <3> QED BY <3>1, <3>2
  <2>6. ASSUME depth[n] \in 1..d + 2 PROVE n \in Within(Followed, d + 1)
    <3>1. CASE depth[n] <= d + 1
      <4>1. n \in Within(Followed, d)
          BY <2>2, <2>6, <3>1
      <4> QED BY <2>3, <4>1 DEF Wider
    <3>2. CASE depth[n] > d + 1
      <4>1. depth[n] = d + 2 /\ depth[n] > 1
          BY <2>6, <3>2
      <4>2. Led(n)
          BY <4>1 DEF BfsInv, EdgeInv
      <4> DEFINE m == predecessor[n]
      <4>3. m \in Nodes /\ depth[n] = depth[m] + 1 /\ Step(Followed, m, n)
          BY <1>0, <4>2, FollowedIs DEF Led, Step
      <4> HIDE DEF m
      <4>4. depth[m] \in 1..d + 1
        <5>1. depth[m] \in Nat
            BY <1>0, <4>3
        <5> QED BY <4>1, <4>3, <5>1
      <4>5. m \in Within(Followed, d)
          BY <2>2, <4>3, <4>4
      <4> QED BY <2>3, <4>3, <4>5 DEF Wider
    <3>3. depth[n] \in Nat
        BY <1>0
    <3> QED BY <3>1, <3>2, <3>3
  <2> QED BY <2>5, <2>6
<1> HIDE DEF S
<1>3. Nat \subseteq S
    BY <1>1, <1>2, Counting
<1>4. ASSUME NEW d \in 0..N, NEW n \in Nodes
      PROVE  n \in Within(Followed, d) <=> depth[n] \in 1..d + 1
    BY <1>3 DEF S
<1> QED BY <1>4

\* So a pass meets what can be reached, at its distance.
LEMMA DepthIsDistance ==
    ASSUME BfsInv, PassOver, NEW n \in Nodes
    PROVE  /\ Reaches(Followed, n) <=> ~Fresh(n)
           /\ ~Fresh(n) => depth[n] = Distance(Followed, n) + 1
<1>0. /\ depth[n] \in Nat /\ N \in Nat /\ depth[n] <= N
      /\ \A d \in 0..N : n \in Within(Followed, d) <=> depth[n] \in 1..d + 1
    BY LockFacts, DepthBounded, WithinDepth DEF BfsInv
<1>1. Reaches(Followed, n) <=> ~Fresh(n)
  <2>1. N \in 0..N
      BY <1>0
  <2>2. depth[n] \in 1..N + 1 <=> depth[n] # 0
      BY <1>0
  <2> QED BY <1>0, <2>1, <2>2 DEF Reaches, Fresh
<1>2. ASSUME ~Fresh(n) PROVE depth[n] = Distance(Followed, n) + 1
  <2>1. depth[n] >= 1
      BY <1>0, <1>2 DEF Fresh
  <2>2. {d \in 0..N : n \notin Within(Followed, d)} = 0..depth[n] - 2
    <3>1. ASSUME NEW d \in 0..N PROVE n \notin Within(Followed, d) <=> d \in 0..depth[n] - 2
        BY <1>0, <2>1
    <3>2. 0..depth[n] - 2 \subseteq 0..N
        BY <1>0
    <3> QED BY <3>1, <3>2
  <2>3. Cardinality(0..depth[n] - 2) = depth[n] - 1
    <3>1. 0 \in Int /\ depth[n] - 2 \in Int
        BY <1>0
    <3>2. Cardinality(0..depth[n] - 2)
              = IF 0 > depth[n] - 2 THEN 0 ELSE (depth[n] - 2) - 0 + 1
        BY <3>1, FS_Interval
    <3> QED BY <1>0, <2>1, <3>2
  <2>4. Distance(Followed, n) = depth[n] - 1
      BY <2>2, <2>3 DEF Distance
  <2> QED BY <1>0, <2>4
<1> QED BY <1>1, <1>2

-----------------------------------------------------------------------------
(* What is attributed.                                                       *)

\* A chain of n, as short as any by these kinds of edge.
Shortest(kinds, n, path) ==
    /\ path \in Seq(Nodes) /\ Len(path) >= 1
    /\ Len(path) = Distance(kinds, n) + 1
    /\ path[1] \in Declared /\ path[Len(path)] = n
    /\ \A j \in 2..Len(path) : Step(kinds, path[j - 1], path[j])

\* An answer names an entry's shortest chains.
Explained(kinds, n, answer) ==
    /\ answer.paths \in Seq(Seq(Nodes))
    /\ \A i \in DOMAIN answer.paths : Shortest(kinds, n, answer.paths[i])

\* An answer there is: it has a chain.
Found(answer) == answer # NotFound /\ answer.paths # <<>>

\* At the end of a pass a direct way is a shortest chain.
LEMMA DirectIsShortest ==
    ASSUME BfsInv, PassOver, NEW n \in Nodes, ~Fresh(n), NEW path, Direct(path, n)
    PROVE  Shortest(Followed, n, path)
<1>0. /\ depth[n] \in Nat /\ depth[n] >= 1 /\ GraphTypeOK
      /\ depth[n] = Distance(Followed, n) + 1
    BY LockFacts, DepthIsDistance DEF BfsInv, Fresh
<1>1. path \in Seq(Nodes) /\ Len(path) = depth[n]
    BY <1>0 DEF Direct
<1>2. path[1] \in Declared
  <2>1. 1 \in 1..depth[n] /\ path[1] \in Nodes /\ depth[path[1]] = 1
      BY <1>0 DEF Direct
  <2> QED BY <2>1, DeclaredIs
<1>3. \A j \in 2..depth[n] : Step(Followed, path[j - 1], path[j])
    BY <1>0, FollowedIs DEF Direct, Step
<1> QED BY <1>0, <1>1, <1>2, <1>3 DEF Shortest, Direct

\* What a pass attributes: what it met and the manifest does not declare, to
\* shortest chains.
LEMMA Attributed ==
    ASSUME BfsInv, WaysInv, PassOver, NEW n \in Nodes
    PROVE  /\ Attribution(n) # NotFound <=> n \notin Declared /\ Reaches(Followed, n)
           /\ Attribution(n) # NotFound => Attribution(n).paths # <<>>
           /\ Explained(Followed, n, Attribution(n))
<1>0. /\ depth[n] \in Nat /\ GraphTypeOK /\ alternates[n] \in Seq(Nodes)
      /\ depth[n] = 1 <=> n \in Declared
      /\ Reaches(Followed, n) <=> ~Fresh(n)
    BY LockFacts, DepthIsDistance, DeclaredIs DEF BfsInv, GraphTypeOK
<1>1. CASE Fresh(n) \/ predecessor[n] = NoNode
  <2>1. Attribution(n) = NotFound /\ NotFound.paths = <<>>
      BY <1>1 DEF Attribution, NotFound
  <2>2. ~Fresh(n) => n \in Declared
    <3>1. SUFFICES ASSUME ~Fresh(n), depth[n] # 1 PROVE FALSE
        BY <1>0
    <3>2. depth[n] > 1
        BY <1>0, <3>1 DEF Fresh
    <3>3. predecessor[n] \in Nodes /\ NoNode \notin Nodes
        BY <3>2, LockFacts DEF BfsInv, EdgeInv, Led
    <3> QED BY <1>1, <3>1, <3>3
  <2>3. Explained(Followed, n, NotFound)
      BY <2>1 DEF Explained
  <2> QED BY <1>0, <2>1, <2>2, <2>3
<1>2. CASE ~Fresh(n) /\ predecessor[n] # NoNode
  <2> DEFINE alts == [i \in DOMAIN alternates[n] |-> Append(Chain(alternates[n][i]), n)]
             paths == <<Chain(n)>> \o alts
  <2>1. Attribution(n) = [line |-> origin[n], paths |-> paths]
      BY <1>2 DEF Attribution
  <2>2. Shortest(Followed, n, Chain(n))
      BY <1>2, ChainIsDirect, DirectIsShortest
  <2>3. ASSUME NEW i \in DOMAIN alternates[n] PROVE Shortest(Followed, n, alts[i])
    <3> DEFINE m == alternates[n][i]
    <3>1. Via(m, n) /\ alts[i] = Append(Chain(m), n)
        BY DEF WaysInv
    <3> HIDE DEF m, alts
    <3>2. Direct(alts[i], n)
        BY <3>1, AlternateIsDirect
    <3> QED BY <1>2, <3>2, DirectIsShortest
  <2> DEFINE first == Chain(n)
  <2>4. first \in Seq(Nodes) /\ alts \in Seq(Seq(Nodes)) /\ Len(alts) = Len(alternates[n])
    <3>1. first \in Seq(Nodes)
        BY <2>2 DEF Shortest
    <3>2. \A i \in DOMAIN alternates[n] : alts[i] \in Seq(Nodes)
        BY <2>3 DEF Shortest
    <3>3. DOMAIN alternates[n] = 1..Len(alternates[n]) /\ Len(alternates[n]) \in Nat
        BY <1>0
    <3>4. alts = [i \in 1..Len(alternates[n]) |-> alts[i]]
        BY <3>3
    <3> DEFINE k == Len(alternates[n])
    <3> HIDE DEF first, alts, k
    <3>5. \A i \in 1..k : alts[i] \in Seq(Nodes)
        BY <3>2, <3>3 DEF k
    <3>6. k \in Nat /\ alts = [i \in 1..k |-> alts[i]]
        BY <3>3, <3>4 DEF k
    <3>7. alts \in Seq(Seq(Nodes)) /\ Len(alts) = k
        BY <3>5, <3>6
    <3> QED BY <3>1, <3>7 DEF k
  <2> HIDE DEF first, alts
  <2>5. /\ paths \in Seq(Seq(Nodes)) /\ Len(paths) = 1 + Len(alts) /\ paths[1] = first
        /\ \A i \in 2..Len(paths) : paths[i] = alts[i - 1] /\ i - 1 \in 1..Len(alts)
    <3>1. <<first>> \in Seq(Seq(Nodes)) /\ Len(<<first>>) = 1 /\ <<first>>[1] = first
        BY <2>4
    <3>2. paths = <<first>> \o alts
        BY DEF first
    <3> HIDE DEF paths
    <3>3. paths \in Seq(Seq(Nodes)) /\ Len(paths) = 1 + Len(alts)
        BY <2>4, <3>1, <3>2
    <3>4. paths[1] = first
        BY <2>4, <3>1, <3>2
    <3>5. \A i \in 2..Len(paths) : paths[i] = alts[i - 1] /\ i - 1 \in 1..Len(alts)
        BY <2>4, <3>1, <3>2, <3>3
    <3> QED BY <3>3, <3>4, <3>5
  <2> HIDE DEF paths
  <2>6. ASSUME NEW i \in DOMAIN paths PROVE Shortest(Followed, n, paths[i])
    <3>1. CASE i = 1
        BY <2>2, <2>5, <3>1 DEF first
    <3>2. CASE i # 1
      <4>1. i \in 2..Len(paths)
          BY <2>5, <3>2
      <4>2. paths[i] = alts[i - 1] /\ i - 1 \in 1..Len(alts)
          BY <2>5, <4>1
      <4>3. i - 1 \in DOMAIN alternates[n]
          BY <1>0, <2>4, <4>2
      <4> QED BY <2>3, <4>2, <4>3
    <3> QED BY <3>1, <3>2
  <2>7. paths # <<>>
    <3>1. Len(paths) >= 1 /\ Len(<<>>) = 0
        BY <2>4, <2>5
    <3> QED BY <3>1
  <2>8. Attribution(n) # NotFound /\ Attribution(n).paths = paths
      BY <2>1, <2>7 DEF NotFound
  <2>9. n \notin Declared
    <3>1. depth[n] = 1 => predecessor[n] = NoNode
        BY DEF WaysInv
    <3> QED BY <1>0, <1>2, <3>1
  <2>10. Explained(Followed, n, Attribution(n))
      BY <2>5, <2>6, <2>8 DEF Explained
  <2> QED BY <1>0, <1>2, <2>7, <2>8, <2>9, <2>10
<1> QED BY <1>1, <1>2

\* What found says: nothing before the first pass ends, the honest chains after
\* it, and after the second those by peer edges where there was none.
Honestly(n) ==
    /\ found[n] # NotFound <=> n \notin Declared /\ Reaches(Honest, n)
    /\ Explained(Honest, n, found[n])

Finally(n) ==
    /\ found[n] # NotFound <=> n \notin Declared /\ Reaches(WithPeer, n)
    /\ Explained(Explains(n), n, found[n])

FoundInv ==
    /\ walked => peers
    /\ ~peers => \A n \in Nodes : found[n] = NotFound
    /\ peers /\ ~walked => \A n \in Nodes : Honestly(n)
    /\ walked => \A n \in Nodes : Finally(n)
    /\ \A n \in Nodes : found[n] # NotFound => found[n].paths # <<>>
    /\ \A n \in Nodes : found[n].line \in 0..Len(lock.declares)

LEMMA FoundHolds == GraphSpec => []FoundInv
<1>1. GraphInit => FoundInv
  <2>1. GraphInit => /\ 0 \in 0..Len(lock.declares)
                     /\ \A n \in Nodes : found[n] = NotFound
    <3>1. GraphInit => lock.declares \in Seq(Nodes)
        BY DEF GraphInit, Lock
    <3>2. ASSUME NEW q \in Seq(Nodes) PROVE 0 \in 0..Len(q)
        OBVIOUS
    <3> QED BY <3>1, <3>2 DEF GraphInit, Unwalked
  <2>2. NotFound.line = 0
      BY DEF NotFound
  <2> QED BY <2>1, <2>2 DEF GraphInit, Unwalked, FoundInv
<1>2. ASSUME BfsInv, WaysInv, FoundInv, [Walks]_graphVars PROVE FoundInv'
  <2>1. CASE EndsPass
    <3>1. /\ PassOver /\ ~walked /\ lock' = lock /\ peers' = TRUE /\ walked' = peers
          /\ \A n \in Nodes : found'[n] = FirstPass(n)
      <4>1. peers' = TRUE
        <5>1. peers \in BOOLEAN
            BY <1>2 DEF BfsInv, GraphTypeOK
        <5> QED BY <2>1, <5>1 DEF EndsPass, walkVars
      <4> QED BY <2>1, <4>1 DEF EndsPass, PassOver
    <3>2. ASSUME NEW n \in Nodes PROVE found'[n] # NotFound => found'[n].paths # <<>>
        BY <1>2, <3>1, Attributed DEF FoundInv, FirstPass
    <3>6. ASSUME NEW n \in Nodes PROVE found'[n].line \in 0..Len(lock.declares)
      <4>1. origin[n] \in 0..Len(lock.declares) /\ 0 \in 0..Len(lock.declares)
          BY <1>2, LockFacts DEF BfsInv, GraphTypeOK
      <4>2. Attribution(n).line \in 0..Len(lock.declares)
          BY <4>1 DEF Attribution, NotFound
      <4> QED BY <1>2, <3>1, <4>2 DEF FoundInv, FirstPass
    <3>3. /\ Declared' = Declared
          /\ \A n : Reaches(Honest, n)' <=> Reaches(Honest, n)
          /\ \A n : Reaches(WithPeer, n)' <=> Reaches(WithPeer, n)
          /\ \A n, x : Explained(Honest, n, x)' <=> Explained(Honest, n, x)
          /\ \A n, x : Explained(WithPeer, n, x)' <=> Explained(WithPeer, n, x)
        BY <3>1 DEF Declared, Reaches, Within, Step, Distance, Explained, Shortest
    <3>4. CASE peers
      <4>1. Followed = WithPeer /\ \A n \in Nodes : Honestly(n)
          BY <1>2, <3>1, <3>4 DEF Followed, FoundInv
      <4>2. ASSUME NEW n \in Nodes
            PROVE  /\ found'[n] # NotFound <=> n \notin Declared /\ Reaches(WithPeer, n)
                   /\ Explained(Explains(n), n, found'[n])
        <5>1. Reaches(Honest, n) => Reaches(WithPeer, n)
          <6>1. Honest \subseteq WithPeer /\ N \in 0..N /\ GraphTypeOK
              BY <1>2 DEF Honest, WithPeer, BfsInv
          <6> QED BY <6>1, WithinGrows DEF Reaches
        <5>2. CASE found[n] # NotFound
          <6>1. found'[n] = found[n]
              BY <3>1, <5>2 DEF FirstPass
          <6>2. Reaches(Honest, n) /\ n \notin Declared /\ Explained(Honest, n, found[n])
              BY <4>1, <5>2 DEF Honestly
          <6> QED BY <5>1, <5>2, <6>1, <6>2 DEF Explains
        <5>3. CASE found[n] = NotFound
          <6>1. found'[n] = Attribution(n)
              BY <3>1, <5>3 DEF FirstPass
          <6>2. /\ found'[n] # NotFound <=> n \notin Declared /\ Reaches(WithPeer, n)
                /\ Explained(WithPeer, n, found'[n])
              BY <1>2, <3>1, <4>1, <6>1, Attributed
          <6>3. n \in Declared \/ ~Reaches(Honest, n)
              BY <4>1, <5>3 DEF Honestly
          <6>4. CASE Reaches(Honest, n)
            <7>1. found'[n] = NotFound
                BY <6>2, <6>3, <6>4
            <7>2. Explained(Explains(n), n, NotFound)
                BY DEF Explained, NotFound
            <7> QED BY <6>2, <7>1, <7>2
          <6>5. CASE ~Reaches(Honest, n)
              BY <6>2, <6>5 DEF Explains
          <6> QED BY <6>4, <6>5
        <5> QED BY <5>2, <5>3
      <4>3. ASSUME NEW n \in Nodes PROVE Finally(n)'
        <5>1. CASE Reaches(Honest, n)
            BY <3>3, <4>2, <5>1 DEF Finally, Explains
        <5>2. CASE ~Reaches(Honest, n)
            BY <3>3, <4>2, <5>2 DEF Finally, Explains
        <5> QED BY <5>1, <5>2
      <4> QED BY <3>1, <3>2, <3>4, <3>6, <4>3 DEF FoundInv
    <3>5. CASE ~peers
      <4>1. Followed = Honest /\ \A n \in Nodes : found'[n] = Attribution(n)
          BY <1>2, <3>1, <3>5 DEF Followed, FoundInv, FirstPass
      <4>2. ASSUME NEW n \in Nodes PROVE Honestly(n)'
        <5>1. /\ found'[n] # NotFound <=> n \notin Declared /\ Reaches(Honest, n)
              /\ Explained(Honest, n, found'[n])
            BY <1>2, <3>1, <4>1, Attributed
        <5> QED BY <3>3, <5>1 DEF Honestly
      <4> QED BY <3>1, <3>2, <3>5, <3>6, <4>2 DEF FoundInv
    <3> QED BY <3>4, <3>5
  <2>2. CASE Seeds \/ Visits \/ Follows \/ UNCHANGED graphVars
    <3>1. UNCHANGED <<lock, peers, found, walked>>
        BY <2>2 DEF Seeds, Visits, Follows, graphVars, walkVars
    <3>2. \A n : (Honestly(n)' <=> Honestly(n)) /\ (Finally(n)' <=> Finally(n))
        BY <3>1 DEF Honestly, Finally, Declared, Reaches, Within, Step, Distance, Explained,
                    Shortest, Explains
    <3> QED BY <1>2, <3>1, <3>2 DEF FoundInv
  <2> QED BY <1>2, <2>1, <2>2 DEF Walks
<1> QED BY <1>1, <1>2, BfsInvHolds, WaysHold, PTL DEF GraphSpec

\* ChainsAreShortest, for lockfiles of any size and shape: exactly what the
\* manifest reaches and does not declare is attributed, along shortest chains.
THEOREM ShortestChains == GraphSpec => []ChainsAreShortest
<1>1. FoundInv => ChainsAreShortest
  <2> SUFFICES ASSUME FoundInv, walked, NEW n \in Nodes
               PROVE  /\ found[n] # NotFound <=> n \notin Declared /\ Reaches(WithPeer, n)
                      /\ \A i \in DOMAIN found[n].paths :
                             Shortest(Explains(n), n, found[n].paths[i])
      BY DEF ChainsAreShortest, Shortest
  <2>1. Finally(n)
      BY DEF FoundInv
  <2> QED BY <2>1 DEF Finally, Explained
<1> QED BY <1>1, FoundHolds, PTL

HIDE GraphAssumption

-----------------------------------------------------------------------------
(* Ranges: what the timelines say of versions                               *)

USE RangesAssumption

\* What the events of a timeline can be.
LEMMA EventKinds ==
    ASSUME NEW e \in Event
    PROVE  /\ e.kind \in {"introduced", "fixed", "last_affected", "other"}
           /\ e.kind = "introduced" => e.rank \in Ranks
           /\ e.kind \in {"fixed", "last_affected"} => e.at \in Releases
    BY DEF Event

LEMMA RanksAreNat == Ranks \subseteq Nat
    BY DEF Ranks, Beginning

\* A window that nothing bounds is a range.
LEMMA UnboundedIsARange == Unbounded \in AffectedRange
    BY DEF Unbounded, AffectedRange, Ranks

\* Flattening one more range for the record being decoded.
LEMMA PushedTyped ==
    ASSUME RangesTypeOK, reading \in Advisories, NEW range \in AffectedRange, Pushes(range)
    PROVE  ranges' \in [Advisories -> SUBSET AffectedRange]
    BY DEF Pushes, RangesTypeOK

\* What an action sees of the record being decoded.
LEMMA AtEventFacts ==
    ASSUME RangesTypeOK, NEW kinds, AtEvent(kinds)
    PROVE  /\ reading \in Advisories /\ reading' = reading
           /\ event \in DOMAIN Events /\ Events[event] \in Event
           /\ Events[event].kind \in kinds
           /\ event' = event + 1 /\ event' \in Nat \ {0}
           /\ UNCHANGED <<timeline, listed>>
    BY DEF AtEvent, RangesTypeOK, Events

\* The window an event closes is a range, and still has its introduction.
LEMMA ClosedIsARange ==
    ASSUME NEW range \in AffectedRange, NEW e \in Event, e.kind \in {"fixed", "last_affected"}
    PROVE  /\ Closed(range, e) \in AffectedRange
           /\ Closed(range, e).introduced = range.introduced
    BY EventKinds DEF Closed, AffectedRange

\* The initial states are typed.
LEMMA RangesTypesInit == RangesInit => RangesTypeOK
<1> SUFFICES ASSUME RangesInit PROVE RangesTypeOK
    OBVIOUS
<1>1. /\ timeline \in [Advisories -> Seq(Event)]
      /\ listed \in [Advisories -> SUBSET Releases]
    BY DEF RangesInit
<1>2. reading \in Nat \ {0} /\ event \in Nat \ {0}
    BY DEF RangesInit, Undecoded
<1>5. open \in BOOLEAN
    BY DEF RangesInit, Undecoded
<1>3. current \in AffectedRange
    BY UnboundedIsARange DEF RangesInit, Undecoded
<1>4. ranges \in [Advisories -> SUBSET AffectedRange]
    BY DEF RangesInit, Undecoded
<1> QED BY <1>1, <1>2, <1>3, <1>4, <1>5 DEF RangesTypeOK

\* Type correctness: every window flattened is a pair of versions that exist.
THEOREM RangesTypes == RangesSpec => []RangesTypeOK
<1>2. ASSUME RangesTypeOK, [Flattens]_rangeVars
      PROVE  RangesTypeOK'
  <2>0. current \in AffectedRange /\ ranges \in [Advisories -> SUBSET AffectedRange]
      BY <1>2 DEF RangesTypeOK
  <2>1. CASE Introduced
    <3>1. Events[event].rank \in Ranks
        BY <2>1, <1>2, AtEventFacts, EventKinds DEF Introduced
    <3>2. current' \in AffectedRange
        BY <2>1, <3>1 DEF Introduced, Unbounded, AffectedRange
    <3>3. reading \in Advisories /\ (Pushes(current) \/ UNCHANGED ranges)
        BY <2>1, <1>2, AtEventFacts DEF Introduced
    <3>4. ranges' \in [Advisories -> SUBSET AffectedRange]
        BY <3>3, <2>0, <1>2, PushedTyped
    <3> QED BY <2>1, <3>2, <3>4, <1>2, AtEventFacts DEF Introduced, RangesTypeOK
  <2>2. CASE Closes
    <3>1. Closed(current, Events[event]) \in AffectedRange
        BY <2>2, <1>2, AtEventFacts, ClosedIsARange DEF Closes, RangesTypeOK
    <3>2. ranges' \in [Advisories -> SUBSET AffectedRange]
        BY <2>2, <3>1, <1>2, AtEventFacts, PushedTyped DEF Closes
    <3> QED BY <2>2, <3>2, UnboundedIsARange, <1>2, AtEventFacts DEF Closes, RangesTypeOK
  <2>3. CASE Ignores
      BY <2>3, <1>2, AtEventFacts DEF Ignores, RangesTypeOK
  <2>4. CASE Ends
    <3>1. reading \in Advisories /\ (Pushes(current) \/ UNCHANGED ranges)
        BY <2>4 DEF Ends
    <3>2. ranges' \in [Advisories -> SUBSET AffectedRange]
        BY <3>1, <2>0, <1>2, PushedTyped
    <3>3. reading' \in Nat \ {0} /\ event' \in Nat \ {0}
        BY <2>4, <1>2 DEF Ends, RangesTypeOK
    <3>4. open' \in BOOLEAN
        BY <2>4 DEF Ends
    <3> QED BY <2>4, <3>2, <3>3, <3>4, UnboundedIsARange, <1>2 DEF Ends, RangesTypeOK
  <2>5. CASE UNCHANGED rangeVars
      BY <2>5, <1>2 DEF rangeVars, decoding, RangesTypeOK
  <2> QED BY <1>2, <2>1, <2>2, <2>3, <2>4, <2>5 DEF Flattens
<1> QED BY RangesTypesInit, <1>2, PTL DEF RangesSpec

-----------------------------------------------------------------------------
(* Nothing is lost: every introduction that was read opened a window that   *)
(* is still open, or one that ends where a later event ends it.              *)

\* A window that begins with the i-th event of a, and that only a later one ends.
Window(range, a, i) ==
    /\ range.introduced = timeline[a][i].rank
    /\ range.fixed # None =>
          \E j \in i + 1..Len(timeline[a]) :
              timeline[a][j].kind = "fixed" /\ timeline[a][j].at = range.fixed
    /\ range.fixed = None /\ range.last_affected # None =>
          \E j \in i + 1..Len(timeline[a]) :
              /\ timeline[a][j].kind = "last_affected"
              /\ timeline[a][j].at = range.last_affected

Read(a, i) == a < reading \/ (a = reading /\ i < event)

Pending(a, i) == a = reading /\ open /\ current.introduced = timeline[a][i].rank

LossInv ==
    /\ RangesTypeOK
    /\ current.fixed = None /\ current.last_affected = None
    /\ \A a \in Advisories : \A i \in DOMAIN timeline[a] :
          IsIntroduced(timeline[a][i]) /\ Read(a, i) =>
              Pending(a, i) \/ \E range \in ranges[a] : Window(range, a, i)

\* The window being built belongs to any introduction it may be pending for.
LEMMA CurrentIsAWindow ==
    ASSUME LossInv, NEW a \in Advisories, NEW i \in DOMAIN timeline[a], Pending(a, i)
    PROVE  Window(current, a, i)
    BY DEF LossInv, Pending, Window

\* What was flattened stays, and the timelines do not change.
LEMMA WindowsStay ==
    ASSUME RangesTypeOK, [Flattens]_rangeVars
    PROVE  /\ timeline' = timeline
           /\ \A a \in Advisories : ranges[a] \subseteq ranges'[a]
  <1>0. ranges \in [Advisories -> SUBSET AffectedRange]
      BY DEF RangesTypeOK
  <1>1. CASE Introduced
      BY <1>0, <1>1, AtEventFacts DEF Introduced, Pushes
  <1>2. CASE Closes
      BY <1>0, <1>2, AtEventFacts DEF Closes, Pushes
  <1>3. CASE Ignores
      BY <1>3, AtEventFacts DEF Ignores
  <1>4. CASE Ends
      BY <1>0, <1>4 DEF Ends, Pushes
  <1>5. CASE UNCHANGED rangeVars
      BY <1>5 DEF rangeVars, decoding
  <1> QED BY <1>1, <1>2, <1>3, <1>4, <1>5 DEF Flattens

\* An introduction that was pending still is, or its window was flattened.
LEMMA PendingIsKept ==
    ASSUME LossInv, Flattens, NEW a \in Advisories, NEW i \in DOMAIN timeline[a],
           Read(a, i), Pending(a, i)
    PROVE  Pending(a, i)' \/ \E range \in ranges'[a] : Window(range, a, i)'
  <1>0. /\ Window(current, a, i) /\ a = reading /\ open
        /\ current.introduced = timeline[a][i].rank
        /\ RangesTypeOK /\ timeline' = timeline
        /\ ranges \in [Advisories -> SUBSET AffectedRange]
      BY CurrentIsAWindow, WindowsStay DEF LossInv, Pending, RangesTypeOK
  <1>1. CASE Introduced
    <2>1. ranges'[a] = ranges[a] \cup {current}
        BY <1>0, <1>1 DEF Introduced, Pushes
    <2> QED BY <1>0, <2>1 DEF Window
  <1>2. CASE Closes
    <2> DEFINE e == Events[event]
               closed == Closed(current, e)
    <2>1. ranges'[a] = ranges[a] \cup {closed}
        BY <1>0, <1>2 DEF Closes, Pushes
    <2>2. /\ event \in i + 1..Len(timeline[a])
          /\ e = timeline[a][event] /\ e.kind \in {"fixed", "last_affected"} /\ e \in Event
        BY <1>0, <1>2, AtEventFacts DEF Closes, Read, Events, Advisories, RangesTypeOK
    <2>3. /\ closed.introduced = current.introduced
          /\ e.kind = "fixed" => closed.fixed = e.at
          /\ e.kind = "last_affected" => /\ closed.fixed = None
                                         /\ closed.last_affected = e.at
        BY <1>0, <2>2 DEF Closed, AffectedRange, LossInv, RangesTypeOK
    <2>4. e.at \in Releases /\ e.at # None
        BY <2>2, EventKinds
    <2>5. Window(closed, a, i)
        BY <1>0, <2>2, <2>3, <2>4 DEF Window
    <2> QED BY <1>0, <2>1, <2>5 DEF Window
  <1>3. CASE Ignores
      BY <1>0, <1>3, AtEventFacts DEF Ignores, Pending
  <1>4. CASE Ends
    <2>1. ranges'[a] = ranges[a] \cup {current}
        BY <1>0, <1>4 DEF Ends, Pushes
    <2> QED BY <1>0, <2>1 DEF Window
  <1> QED BY <1>1, <1>2, <1>3, <1>4 DEF Flattens

\* What is read by a step: the event at hand, which opens a window if it is an
\* introduction, and nothing at the end of a timeline.
LEMMA NewlyRead ==
    ASSUME LossInv, Flattens, NEW a \in Advisories, NEW i \in DOMAIN timeline[a],
           IsIntroduced(timeline[a][i]), ~Read(a, i), Read(a, i)'
    PROVE  Pending(a, i)'
  <1>0. RangesTypeOK /\ timeline' = timeline /\ i \in Nat /\ a \in Nat
      BY WindowsStay DEF LossInv, RangesTypeOK, Advisories
  <1>1. CASE Introduced
    <2>1. a = reading /\ i = event
        BY <1>0, <1>1, AtEventFacts DEF Introduced, Read, RangesTypeOK
    <2> QED BY <1>0, <1>1, <2>1, AtEventFacts DEF Introduced, Pending, Events
  <1>2. CASE Closes
    <2>1. a = reading /\ i = event
        BY <1>0, <1>2, AtEventFacts DEF Closes, Read, RangesTypeOK
    <2> QED BY <1>0, <1>2, <2>1, AtEventFacts DEF Closes, IsIntroduced, Events
  <1>3. CASE Ignores
    <2>1. a = reading /\ i = event
        BY <1>0, <1>3, AtEventFacts DEF Ignores, Read, RangesTypeOK
    <2> QED BY <1>0, <1>3, <2>1, AtEventFacts DEF Ignores, IsIntroduced, Events
  <1>4. CASE Ends
    <2>1. i <= Len(timeline[a]) /\ Len(timeline[a]) \in Nat
        BY <1>0 DEF RangesTypeOK
    <2> QED BY <1>0, <1>4, <2>1 DEF Ends, Read, Events, RangesTypeOK
  <1> QED BY <1>1, <1>2, <1>3, <1>4 DEF Flattens

LEMMA LossInvHolds == RangesSpec => []LossInv
<1>1. RangesInit => LossInv
  <2> SUFFICES ASSUME RangesInit, RangesTypeOK PROVE LossInv
      BY RangesTypesInit
  <2>1. \A a \in Advisories : \A i \in DOMAIN timeline[a] : ~Read(a, i)
      BY DEF RangesInit, Undecoded, Read, RangesTypeOK, Advisories
  <2> QED BY <2>1 DEF RangesInit, Undecoded, LossInv, Unbounded
<1>2. ASSUME LossInv, RangesTypeOK', [Flattens]_rangeVars PROVE LossInv'
  <2>0. RangesTypeOK /\ timeline' = timeline
      BY <1>2, WindowsStay DEF LossInv
  <2>1. current.fixed' = None /\ current.last_affected' = None
      BY <1>2 DEF LossInv, Flattens, Introduced, Closes, Ignores, Ends, Unbounded,
                  rangeVars, decoding
  <2>2. ASSUME NEW a \in Advisories, NEW i \in DOMAIN timeline[a],
               IsIntroduced(timeline[a][i]), Read(a, i)'
        PROVE  Pending(a, i)' \/ \E range \in ranges'[a] : Window(range, a, i)'
    <3>1. CASE UNCHANGED rangeVars
        BY <1>2, <2>2, <3>1 DEF LossInv, rangeVars, decoding, Read, Pending, Window
    <3>2. CASE Flattens /\ ~Read(a, i)
        BY <1>2, <2>2, <3>2, NewlyRead
    <3>3. CASE Flattens /\ Read(a, i) /\ Pending(a, i)
        BY <1>2, <3>3, PendingIsKept
    <3>4. CASE \E range \in ranges[a] : Window(range, a, i)
        BY <1>2, <2>0, <3>4, WindowsStay DEF Window
    <3> QED BY <1>2, <2>2, <3>1, <3>2, <3>3, <3>4 DEF LossInv
  <2> QED BY <1>2, <2>0, <2>1, <2>2 DEF LossInv
<1> QED BY <1>1, <1>2, RangesTypes, PTL DEF RangesSpec

\* NothingLost, for timelines of any length and order.
THEOREM Lossless == RangesSpec => []NothingLost
<1>1. LossInv => NothingLost
  <2> SUFFICES ASSUME LossInv, NEW a \in Advisories, Decoded(a), NEW v \in Releases,
                      Exposed(timeline[a], v)
               PROVE  Matched(a, v)
      BY DEF NothingLost
  <2>1. PICK i \in DOMAIN timeline[a] :
          /\ Begins(timeline[a][i], v)
          /\ \A j \in i + 1..Len(timeline[a]) : ~EndsBefore(timeline[a][j], v)
      BY DEF Exposed
  <2>2. PICK range \in ranges[a] : Window(range, a, i)
      BY <2>1 DEF LossInv, Begins, Read, Decoded, Pending, RangesTypeOK, Advisories
  <2>3. /\ range.fixed # None => range.fixed.rank \in Nat
        /\ range.last_affected # None => range.last_affected.rank \in Nat
        /\ v.rank \in Nat
    <3>1. range \in AffectedRange
        BY <2>2 DEF LossInv, RangesTypeOK
    <3> QED BY <3>1 DEF AffectedRange
  <2>4. range.introduced <= v.rank
      BY <2>1, <2>2 DEF Window, Begins
  <2>5. range.fixed # None => v.rank < range.fixed.rank
      BY <2>1, <2>2, <2>3 DEF Window, EndsBefore
  <2>6. range.fixed = None /\ range.last_affected # None =>
            v.rank <= range.last_affected.rank
    <3>1. SUFFICES ASSUME range.fixed = None, range.last_affected # None
                   PROVE  v.rank <= range.last_affected.rank
        OBVIOUS
    <3>2. PICK j \in i + 1..Len(timeline[a]) : /\ timeline[a][j].kind = "last_affected"
                                              /\ timeline[a][j].at = range.last_affected
        BY <2>2, <3>1 DEF Window
    <3>3. ~(range.last_affected.rank < v.rank)
        BY <2>1, <3>2 DEF EndsBefore
    <3> QED BY <3>1, <3>3, <2>3
  <2>7. InRange(range, v)
      BY <2>4, <2>5, <2>6 DEF InRange
  <2> QED BY <2>2, <2>7 DEF Matched
<1> QED BY <1>1, LossInvHolds, PTL

-----------------------------------------------------------------------------
(* Nothing is added: of a timeline in order, every window runs from an       *)
(* introduction to the very next event.                                      *)

Pairs(range, events, i) ==
    /\ IsIntroduced(events[i]) /\ range.introduced = events[i].rank
    /\ i = Len(events) => range.fixed = None /\ range.last_affected = None
    /\ i < Len(events) =>
          \/ events[i + 1].kind = "fixed" /\ range.fixed = events[i + 1].at
          \/ /\ events[i + 1].kind = "last_affected" /\ range.fixed = None
             /\ range.last_affected = events[i + 1].at

\* A window is open after an introduction and at no other time.
Alternates ==
    /\ event <= Len(Events) + 1
    /\ Regular(Events) => /\ open <=> event % 2 = 0
                          /\ open => current.introduced = Events[event - 1].rank

AddInv ==
    /\ LossInv
    /\ reading \in Advisories => Alternates
    /\ \A a \in Advisories : Regular(timeline[a]) =>
          \A range \in ranges[a] : \E i \in DOMAIN timeline[a] : Pairs(range, timeline[a], i)

\* One event keeps the alternation.
LEMMA AlternatesKept ==
    ASSUME AddInv, RangesTypeOK', Introduced \/ Closes \/ Ignores
    PROVE  Alternates'
  <1>0. /\ RangesTypeOK /\ Alternates /\ reading \in Advisories /\ timeline[reading] \in Seq(Event)
        /\ event \in DOMAIN Events /\ event' = event + 1 /\ event \in Nat
        /\ Events' = Events /\ Events[event] \in Event
      BY AtEventFacts DEF AddInv, LossInv, RangesTypeOK, Introduced, Closes, Ignores, Events
  <1>1. event' <= Len(Events') + 1
      BY <1>0 DEF Events
  <1>2. SUFFICES ASSUME Regular(Events)
                 PROVE  /\ open' <=> event' % 2 = 0
                        /\ open' => current'.introduced = Events'[event' - 1].rank
      BY <1>0, <1>1 DEF Alternates
  <1>3. IsIntroduced(Events[event]) <=> event % 2 = 1
      BY <1>0, <1>2 DEF Regular
  <1>4. CASE Introduced
    <2>1. IsIntroduced(Events[event]) /\ open' = TRUE
          /\ current'.introduced = Events[event].rank
        BY <1>4, AtEventFacts, <1>0 DEF Introduced, IsIntroduced, Unbounded
    <2>2. event' % 2 = 0
        BY <2>1, <1>3, <1>0
    <2> QED BY <2>1, <2>2, <1>0
  <1>5. CASE Closes
    <2>1. ~IsIntroduced(Events[event]) /\ open' = FALSE
        BY <1>5, AtEventFacts, <1>0 DEF Closes, IsIntroduced
    <2>2. event' % 2 # 0
        BY <2>1, <1>3, <1>0
    <2> QED BY <2>1, <2>2
  <1>6. CASE Ignores
      BY <1>6, <1>0, <1>2, AtEventFacts DEF Ignores, Regular
  <1> QED BY <1>4, <1>5, <1>6

\* What an event flattens, in a timeline in order.
LEMMA PairsPushed ==
    ASSUME AddInv, Flattens, reading \in Advisories, Regular(Events),
           NEW range \in ranges'[reading], range \notin ranges[reading]
    PROVE  \E i \in DOMAIN Events : Pairs(range, Events, i)
  <1>0. /\ RangesTypeOK /\ Alternates /\ Events \in Seq(Event)
        /\ event \in Nat \ {0} /\ ranges \in [Advisories -> SUBSET AffectedRange]
        /\ current \in AffectedRange /\ current.fixed = None /\ current.last_affected = None
      BY DEF AddInv, LossInv, RangesTypeOK, Events
  <1>1. CASE Introduced
    <2>1. IsIntroduced(Events[event]) /\ event \in DOMAIN Events
        BY <1>1, <1>0, AtEventFacts DEF Introduced, IsIntroduced
    <2>2. event % 2 # 0
        BY <2>1, <1>0 DEF Regular
    <2>3. ~open
        BY <2>2, <1>0 DEF Alternates
    <2> QED BY <1>1, <2>3 DEF Introduced
  <1>2. CASE Closes
    <2>1. /\ event \in DOMAIN Events /\ Events[event] \in Event
          /\ Events[event].kind \in {"fixed", "last_affected"}
        BY <1>2, <1>0, AtEventFacts DEF Closes
    <2>2. event % 2 = 0
        BY <2>1, <1>0 DEF Regular, IsIntroduced
    <2>3. open /\ current.introduced = Events[event - 1].rank
        BY <2>2, <1>0 DEF Alternates
    <2>4. /\ event - 1 \in DOMAIN Events /\ event - 1 < Len(Events)
          /\ (event - 1) % 2 = 1 /\ (event - 1) + 1 = event
        BY <2>1, <2>2, <1>0
    <2>5. IsIntroduced(Events[event - 1])
        BY <2>4, <1>0 DEF Regular
    <2>6. range = Closed(current, Events[event])
        BY <1>2, <1>0 DEF Closes, Pushes
    <2>7. /\ range.introduced = current.introduced
          /\ Events[event].kind = "fixed" => range.fixed = Events[event].at
          /\ Events[event].kind = "last_affected" =>
                range.fixed = None /\ range.last_affected = Events[event].at
        BY <2>1, <2>6, <1>0 DEF Closed, AffectedRange
    <2>8. Pairs(range, Events, event - 1)
      <3> DEFINE i == event - 1
      <3>1. /\ i + 1 = event /\ i < Len(Events) /\ i # Len(Events)
            /\ IsIntroduced(Events[i]) /\ range.introduced = Events[i].rank
          BY <2>3, <2>4, <2>5, <2>7, <1>0
      <3>2. \/ Events[i + 1].kind = "fixed" /\ range.fixed = Events[i + 1].at
            \/ /\ Events[i + 1].kind = "last_affected" /\ range.fixed = None
               /\ range.last_affected = Events[i + 1].at
          BY <3>1, <2>1, <2>7
      <3> HIDE DEF i
      <3>3. Pairs(range, Events, i)
          BY <3>1, <3>2 DEF Pairs
      <3> QED BY <3>3 DEF i
    <2> QED BY <2>4, <2>8
  <1>3. CASE Ignores
      BY <1>3 DEF Ignores
  <1>4. CASE Ends
    <2>1. open /\ range = current
        BY <1>4, <1>0 DEF Ends, Pushes
    <2>2. /\ event % 2 = 0 /\ current.introduced = Events[event - 1].rank
          /\ event = Len(Events) + 1
        BY <1>4, <1>0, <2>1 DEF Ends, Alternates
    <2>3. event - 1 \in DOMAIN Events /\ event - 1 = Len(Events) /\ (event - 1) % 2 = 1
        BY <2>2, <1>0
    <2>4. IsIntroduced(Events[event - 1])
        BY <2>3, <1>0 DEF Regular
    <2>5. Pairs(range, Events, event - 1)
        BY <2>1, <2>2, <2>3, <2>4, <1>0 DEF Pairs
    <2> QED BY <2>3, <2>5
  <1> QED BY <1>1, <1>2, <1>3, <1>4 DEF Flattens

\* Only the record being decoded is flattened into.
LEMMA OthersStay ==
    ASSUME RangesTypeOK, Flattens, NEW a \in Advisories, a # reading
    PROVE  ranges'[a] = ranges[a]
  <1>0. ranges \in [Advisories -> SUBSET AffectedRange]
      BY DEF RangesTypeOK
  <1> QED BY <1>0, AtEventFacts DEF Flattens, Introduced, Closes, Ignores, Ends, Pushes

LEMMA AddInvHolds == RangesSpec => []AddInv
<1>1. RangesInit /\ LossInv => AddInv
  <2> SUFFICES ASSUME RangesInit, LossInv PROVE AddInv
      OBVIOUS
  <2>1. reading \in Advisories => Alternates
      BY DEF RangesInit, Undecoded, Alternates, Events
  <2>2. \A a \in Advisories : ranges[a] = {}
      BY DEF RangesInit, Undecoded
  <2> QED BY <2>1, <2>2 DEF AddInv
<1>2. ASSUME AddInv, LossInv', [Flattens]_rangeVars PROVE AddInv'
  <2>0. RangesTypeOK /\ RangesTypeOK' /\ timeline' = timeline
      BY <1>2, WindowsStay DEF LossInv, AddInv
  <2>1. ASSUME reading' \in Advisories PROVE Alternates'
    <3>1. CASE Introduced \/ Closes \/ Ignores
        BY <1>2, <2>0, <3>1, AlternatesKept
    <3>2. CASE Ends
      <4>1. event' = 1 /\ open' = FALSE /\ timeline'[reading'] \in Seq(Event)
          BY <3>2, <2>0, <2>1 DEF Ends, RangesTypeOK
      <4> QED BY <4>1 DEF Alternates, Events
    <3>3. CASE UNCHANGED rangeVars
        BY <1>2, <2>1, <3>3 DEF AddInv, Alternates, Events, rangeVars, decoding
    <3> QED BY <1>2, <3>1, <3>2, <3>3 DEF Flattens
  <2>2. ASSUME NEW a \in Advisories, Regular(timeline[a]), NEW range \in ranges'[a]
        PROVE  \E i \in DOMAIN timeline[a] : Pairs(range, timeline[a], i)
    <3>1. CASE range \in ranges[a]
        BY <1>2, <2>2, <3>1 DEF AddInv
    <3>2. CASE a = reading /\ Flattens /\ range \notin ranges[a]
        BY <1>2, <2>2, <3>2, PairsPushed DEF Events
    <3>3. CASE a # reading /\ Flattens
        BY <2>0, <2>2, <3>1, <3>3, OthersStay
    <3>4. CASE UNCHANGED rangeVars
        BY <2>2, <3>1, <3>4 DEF rangeVars, decoding
    <3> QED BY <1>2, <3>1, <3>2, <3>3, <3>4
  <2> QED BY <1>2, <2>0, <2>1, <2>2 DEF AddInv
<1> QED BY <1>1, <1>2, LossInvHolds, PTL DEF RangesSpec

\* After the event that closes a window, a timeline in order goes only up.
LEMMA LaterIsHigher ==
    ASSUME NEW events \in Seq(Event), Regular(events), NEW i \in DOMAIN events,
           IsIntroduced(events[i]), NEW j \in i + 2..Len(events), ~IsIntroduced(events[j])
    PROVE  RankOf(events[i + 1]) < RankOf(events[j])
  <1>1. i + 2 \in DOMAIN events /\ j \in DOMAIN events /\ i + 1 \in DOMAIN events
      OBVIOUS
  <1>2. i % 2 = 1 /\ j % 2 # 1 /\ (i + 2) % 2 = 1
    <2>1. i % 2 = 1 /\ j % 2 # 1
        BY <1>1 DEF Regular
    <2> QED BY <2>1, <1>1
  <1>3. IsIntroduced(events[i + 2])
      BY <1>1, <1>2 DEF Regular
  <1>4. RankOf(events[i + 1]) < RankOf(events[i + 2])
    <2>1. i + 1 \in 1..(i + 2) - 1
        BY <1>1
    <2> QED BY <1>1, <1>3, <2>1 DEF Regular
  <1>5. RankOf(events[i + 2]) <= RankOf(events[j])
    <2>1. i + 2 \in 1..j - 1
        BY <1>1, <1>2
    <2> QED BY <1>1, <2>1 DEF Regular
  <1>6. \A k \in {i + 1, i + 2, j} : RankOf(events[k]) \in Nat
    <2> SUFFICES ASSUME NEW k \in {i + 1, i + 2, j} PROVE RankOf(events[k]) \in Nat
        OBVIOUS
    <2>1. events[k] \in Event /\ events[k].kind # "other"
        BY <1>1 DEF Regular
    <2> QED BY <2>1, EventKinds, RanksAreNat DEF RankOf, IsIntroduced
  <1> QED BY <1>4, <1>5, <1>6

\* NothingAdded, for timelines of any length.
THEOREM Precise == RangesSpec => []NothingAdded
<1>1. AddInv => NothingAdded
  <2> SUFFICES ASSUME AddInv, NEW a \in Advisories, Decoded(a), Regular(timeline[a]),
                      NEW v \in Releases, Matched(a, v)
               PROVE  Exposed(timeline[a], v)
      BY DEF NothingAdded
  <2> DEFINE events == timeline[a]
  <2>1. PICK range \in ranges[a] : InRange(range, v)
      BY DEF Matched
  <2>2. PICK i \in DOMAIN events : Pairs(range, events, i)
      BY <2>1 DEF AddInv
  <2>3. events \in Seq(Event) /\ range \in AffectedRange
      BY <2>1 DEF AddInv, LossInv, RangesTypeOK
  <2>4. Begins(events[i], v)
      BY <2>1, <2>2 DEF Pairs, Begins, InRange
  <2>5. ASSUME NEW j \in i + 1..Len(events) PROVE ~EndsBefore(events[j], v)
    <3>0. /\ i \in Nat /\ i < Len(events) /\ i + 1 \in DOMAIN events /\ j \in DOMAIN events
          /\ events[i + 1] \in Event /\ events[j] \in Event
        BY <2>3, <2>5
    <3>1. /\ events[i + 1].kind \in {"fixed", "last_affected"}
          /\ events[i + 1].at \in Releases /\ events[i + 1].at # None
        BY <2>2, <3>0, EventKinds DEF Pairs
    <3>2. /\ events[i + 1].kind = "fixed" => v.rank < events[i + 1].at.rank
          /\ events[i + 1].kind = "last_affected" => v.rank <= events[i + 1].at.rank
        BY <2>1, <2>2, <3>0, <3>1 DEF Pairs, InRange
    <3>3. v.rank \in Nat /\ events[i + 1].at.rank \in Nat
        BY <3>1
    <3>4. CASE j = i + 1
        BY <3>1, <3>2, <3>3, <3>4 DEF EndsBefore
    <3>5. CASE j # i + 1
      <4>1. SUFFICES ASSUME events[j].kind \in {"fixed", "last_affected"}
                     PROVE  v.rank < events[j].at.rank
        <5>1. events[j].at \in Releases => events[j].at.rank \in Nat
            OBVIOUS
        <5> QED BY <3>0, <3>3, <5>1, EventKinds DEF EndsBefore
      <4>2. j \in i + 2..Len(events) /\ ~IsIntroduced(events[j]) /\ IsIntroduced(events[i])
          BY <2>2, <3>0, <3>5, <4>1 DEF IsIntroduced, Pairs
      <4>3. RankOf(events[i + 1]) < RankOf(events[j])
          BY <2>3, <4>2, LaterIsHigher
      <4>4. events[i + 1].at.rank < events[j].at.rank
          BY <3>1, <4>1, <4>3 DEF RankOf, IsIntroduced
      <4>5. events[j].at.rank \in Nat
          BY <3>0, <4>1, EventKinds
      <4> QED BY <3>1, <3>2, <3>3, <4>4, <4>5
    <3> QED BY <3>4, <3>5
  <2> QED BY <2>4, <2>5 DEF Exposed
<1> QED BY <1>1, AddInvHolds, PTL

HIDE RangesAssumption

-----------------------------------------------------------------------------
(* Findings: the scan, and what it makes of both                            *)

\* Seen from the dependency graph, a scan is a walk of the lockfile.
THEOREM WalksTheGraph == FindingsSpec => GraphSpec
<1>1. FindingsInit => GraphInit
    BY FindingsAssumption DEF FindingsInit, Unmatched, GraphInit
<1>2. [FindingsNext]_findingVars => [Walks]_graphVars
    BY DEF FindingsNext, Extracts, Reconciles, Loads, Matches, Tries, findingVars, graphVars
<1> QED BY <1>1, <1>2, PTL DEF FindingsSpec, GraphSpec

\* Seen from the advisories, a scan decodes their timelines.
THEOREM DecodesTheTimelines == FindingsSpec => RangesSpec
<1>1. FindingsInit => RangesInit
    BY FindingsAssumption DEF FindingsInit, Unmatched, RangesInit
<1>2. [FindingsNext]_findingVars => [Flattens]_rangeVars
    BY DEF FindingsNext, Extracts, Reconciles, Loads, Matches, Tries, findingVars, rangeVars
<1> QED BY <1>1, <1>2, PTL DEF FindingsSpec, RangesSpec

\* What the parts promise holds of every scan: NothingLost, NothingAdded,
\* DepthsAreTight and ChainsAreShortest, where matching relies on them.
THEOREM PartsHold ==
    FindingsSpec => [](/\ RangesTypeOK /\ NothingLost /\ NothingAdded
                       /\ DepthsAreTight /\ ChainsAreShortest)
<1>1. RangesSpec => [](RangesTypeOK /\ NothingLost /\ NothingAdded)
    BY RangesTypes, Lossless, Precise, PTL
<1>2. GraphSpec => [](DepthsAreTight /\ ChainsAreShortest)
    BY Tight, ShortestChains, PTL
<1> QED BY <1>1, <1>2, WalksTheGraph, DecodesTheTimelines, PTL

-----------------------------------------------------------------------------
(* The fix.                                                                 *)

Above(p) == {v \in FixedVersions(Applicable(p)) : p.version.rank < v.rank}

\* Before a finding is matched there is no fix; from then on what was tried is
\* affected, what is left is no lower than what was tried, and the answer is
\* one of the candidates, and clean.
FixInv ==
    /\ subject = None => fix = Undecided /\ candidates = {}
    /\ subject # None =>
          /\ Loaded /\ subject \in Package
          /\ candidates \subseteq Above(subject)
          /\ \A v \in Above(subject) \ candidates :
                \/ StillAffected(v)
                \/ fix.is = "clears" /\ fix.to.rank <= v.rank
          /\ fix.is = "clears" =>
                /\ fix.to \in Above(subject) /\ ~AffectedAt(subject.name, fix.to)
                /\ \A v \in candidates : fix.to.rank <= v.rank
          /\ fix.is \notin {"undecided", "clears"} => candidates = {}

\* A step that leaves the advisories, the matching and what is known of the
\* packages alone leaves all of it true.
LEMMA FixInvStays ==
    ASSUME FixInv, UNCHANGED <<rangeVars, pairVars, matchVars>>
    PROVE  FixInv'
  BY DEF FixInv, rangeVars, decoding, pairVars, matchVars, Loaded, Above, FixedVersions,
         Applicable, Lookup, Affects, InRange, StillAffected, AffectedAt

\* The fixed versions of any advisories are versions.
LEMMA FixedAreReleases ==
    ASSUME RangesTypeOK, NEW hits \in SUBSET Advisories
    PROVE  FixedVersions(hits) \subseteq Releases
  BY DEF RangesTypeOK, FixedVersions, AffectedRange

LEMMA MatchesKeeps == ASSUME RangesTypeOK, FixInv, Matches PROVE FixInv'
  <1>1. PICK p \in Package :
          /\ subject' = p
          /\ candidates' = Above(p)
          /\ fix' = IF candidates' = {} THEN NoFix ELSE Undecided
      BY DEF Matches, Above
  <1>2. /\ p \in Package /\ p # None
        /\ UNCHANGED <<rangeVars, pairVars>> /\ Loaded
      BY NoneAssumption DEF Matches, rangeVars, decoding
  <1>3. /\ Above(p)' = Above(p) /\ Loaded'
      BY <1>2 DEF rangeVars, decoding, pairVars, Loaded, Above, FixedVersions, Applicable,
                  Lookup, Affects, InRange
  <1> QED BY <1>1, <1>2, <1>3 DEF FixInv, NoFix, Undecided

LEMMA TriesKeeps == ASSUME RangesTypeOK, FixInv, Tries PROVE FixInv'
  <1>1. /\ subject # None /\ subject' = subject /\ subject \in Package /\ Loaded
        /\ fix = Undecided /\ candidates \subseteq Above(subject)
        /\ UNCHANGED <<rangeVars, pairVars>>
      BY DEF FixInv, Tries
  <1>2. PICK v \in candidates :
          /\ \A w \in candidates : v.rank <= w.rank
          /\ candidates' = {w \in candidates : w.rank # v.rank}
          /\ fix' = IF ~AffectedAt(subject.name, v) THEN Clears(v)
                    ELSE IF candidates' = {} THEN Partial ELSE Undecided
      BY DEF Tries
  <1>3. /\ Above(subject)' = Above(subject) /\ Loaded'
        /\ \A w : StillAffected(w)' <=> StillAffected(w)
        /\ \A w : AffectedAt(subject.name, w)' <=> AffectedAt(subject.name, w)
      BY <1>1 DEF rangeVars, decoding, pairVars, Loaded, Above, FixedVersions, Applicable,
                  Lookup, Affects, InRange, StillAffected, AffectedAt
  <1>4. candidates' \subseteq Above(subject) /\ v \in Above(subject)
      BY <1>1, <1>2
  <1>5. \A w \in Above(subject) : w \in Releases /\ w.rank \in Nat /\ w \in FixedVersions(Applicable(subject))
      BY FixedAreReleases, RangesAssumption DEF Above, Applicable, Lookup
  <1>6. ASSUME NEW w \in Above(subject) \ candidates' PROVE
             \/ StillAffected(w)
             \/ fix'.is = "clears" /\ fix'.to.rank <= w.rank
    <2>1. CASE w \notin candidates
        BY <1>1, <1>6, <2>1 DEF FixInv, Undecided
    <2>2. CASE w \in candidates
      <3>1. w.rank = v.rank
          BY <1>2, <1>6, <2>2
      <3>2. CASE AffectedAt(subject.name, v)
          BY <1>4, <1>5, <3>1, <3>2 DEF StillAffected
      <3>3. CASE ~AffectedAt(subject.name, v)
          BY <1>2, <1>4, <1>5, <3>1, <3>3 DEF Clears
      <3> QED BY <3>2, <3>3
    <2> QED BY <2>1, <2>2
  <1>7. fix'.is = "clears" =>
          /\ fix'.to \in Above(subject) /\ ~AffectedAt(subject.name, fix'.to)
          /\ \A w \in candidates' : fix'.to.rank <= w.rank
    <2>1. CASE AffectedAt(subject.name, v)
        BY <1>2, <2>1 DEF Partial, Undecided
    <2>2. CASE ~AffectedAt(subject.name, v)
        BY <1>2, <1>4, <2>2 DEF Clears
    <2> QED BY <2>1, <2>2
  <1>8. fix'.is \notin {"undecided", "clears"} => candidates' = {}
      BY <1>2 DEF Clears, Partial, Undecided
  <1> QED BY <1>1, <1>3, <1>4, <1>6, <1>7, <1>8 DEF FixInv

LEMMA FixInvHolds == FindingsSpec => []FixInv
<1>1. FindingsInit => FixInv
    BY DEF FindingsInit, Unmatched, FixInv
<1>2. ASSUME RangesTypeOK, FixInv, [FindingsNext]_findingVars PROVE FixInv'
  <2>1. CASE Extracts \/ Reconciles \/ UNCHANGED findingVars
      BY <1>2, <2>1, FixInvStays DEF Extracts, Reconciles, findingVars
  <2>2. CASE Loads
    <3>1. reading \in Advisories
        BY <2>2 DEF Loads, Flattens, Introduced, Closes, Ignores, Ends, AtEvent
    <3>2. subject = None
        BY <1>2, <3>1 DEF FixInv, Loaded
    <3> QED BY <1>2, <2>2, <3>2 DEF Loads, FixInv, matchVars
  <2>3. CASE Matches
      BY <1>2, <2>3, MatchesKeeps
  <2>4. CASE Tries
      BY <1>2, <2>4, TriesKeeps
  <2> QED BY <1>2, <2>1, <2>2, <2>3, <2>4 DEF FindingsNext
<1> QED BY <1>1, <1>2, PartsHold, PTL DEF FindingsSpec

\* FixIsClean: the version offered is above the installed one, and no advisory
\* affects it.
THEOREM FixClean == FindingsSpec => []FixIsClean
<1>1. FixInv => FixIsClean
  <2> SUFFICES ASSUME FixInv, fix.is = "clears"
               PROVE  /\ subject.version.rank < fix.to.rank
                      /\ Applicable([subject EXCEPT !.version = fix.to]) = {}
      BY DEF FixIsClean
  <2>1. subject \in Package /\ fix.to \in Above(subject) /\ ~AffectedAt(subject.name, fix.to)
      BY DEF FixInv, Undecided
  <2> DEFINE upgraded == [subject EXCEPT !.version = fix.to]
  <2>2. upgraded.name = subject.name /\ upgraded.version = fix.to
      BY <2>1 DEF Package
  <2>3. Applicable(upgraded) = {}
      BY <2>1, <2>2 DEF Applicable, AffectedAt
  <2> QED BY <2>1, <2>3 DEF Above
<1> QED BY <1>1, FixInvHolds, PTL

\* FixIsLowest: no lower version that an advisory calls fixed would do, and
\* where no fix is offered none of them would.
THEOREM FixLowest == FindingsSpec => []FixIsLowest
<1>1. RangesTypeOK /\ FixInv => FixIsLowest
  <2> SUFFICES ASSUME RangesTypeOK, FixInv, fix.is # "undecided",
                      NEW v \in FixedVersions(Applicable(subject)),
                      subject.version.rank < v.rank,
                      fix.is = "clears" => v.rank < fix.to.rank
               PROVE  StillAffected(v)
      BY DEF FixIsLowest
  <2>1. subject # None /\ v \in Above(subject)
      BY DEF FixInv, Undecided, Above
  <2>2. \A w \in Above(subject) : w.rank \in Nat
      BY FixedAreReleases, RangesAssumption DEF Above, Applicable, Lookup
  <2>3. CASE fix.is = "clears"
    <3>1. fix.to \in Above(subject) /\ v.rank < fix.to.rank /\ ~(fix.to.rank <= v.rank)
        BY <2>1, <2>2, <2>3 DEF FixInv
    <3>2. v \notin candidates
        BY <2>1, <2>3, <3>1 DEF FixInv
    <3> QED BY <2>1, <3>1, <3>2 DEF FixInv
  <2>4. CASE fix.is # "clears"
    <3>1. candidates = {}
        BY <2>1, <2>4 DEF FixInv
    <3> QED BY <2>1, <2>4, <3>1 DEF FixInv
  <2> QED BY <2>3, <2>4
<1> QED BY <1>1, FixInvHolds, PartsHold, PTL

-----------------------------------------------------------------------------
(* The sightings.                                                            *)

\* What a sighting says of the copies reconciled so far: a package with a copy
\* has one, and a chain it gives is no longer than that of any copy.
SightingInv ==
    /\ reconciled \in 0..N /\ entry \in [Nodes -> Package]
    /\ reconciled > 0 => walked
    /\ sightings \in [Package -> Sighting \cup {None}]
    /\ \A n \in Nodes : n <= reconciled =>
          /\ sightings[entry[n]] # None
          /\ sightings[entry[n]].paths # <<>> =>
                /\ found[n] # NotFound
                /\ Len(sightings[entry[n]].paths[1]) <= Len(found[n].paths[1])

LEMMA FirstIsIn == ASSUME NEW S \in SUBSET Nat, S # {} PROVE First(S) \in S
<1>1. \E i \in S : \A j \in S : i <= j
    BY LeastNat
<1> QED BY <1>1 DEF First

\* A sighting is one, and has a chain to measure or is of a direct dependency.
LEMMA ReportedIs ==
    ASSUME GraphTypeOK, FoundInv, walked, NEW n \in Nodes
    PROVE  /\ Reported(n) \in Sighting
           /\ Reported(n).paths # <<>> =>
                /\ found[n] # NotFound /\ Reported(n).paths = found[n].paths
<1>1. found[n].line \in 0..Len(lock.declares) /\ found[n].paths \in Seq(Seq(Nodes))
    BY DEF FoundInv, Finally, Explained
<1>2. CASE Sites(n) # {}
  <2>1. Sites(n) \in SUBSET Nat /\ Sites(n) \subseteq 1..Len(lock.declares)
      BY LockFacts DEF Sites
  <2>2. First(Sites(n)) \in 1..Len(lock.declares)
      BY <1>2, <2>1, FirstIsIn
  <2>3. First(Sites(n)) \in 0..Len(lock.declares) /\ <<>> \in Seq(Seq(Nodes))
      BY <2>2, LockFacts
  <2> QED BY <1>2, <2>3 DEF Reported, Sighting
<1>3. CASE Sites(n) = {}
  <2>1. found[n] = NotFound => found[n].paths = <<>>
      BY DEF NotFound
  <2> QED BY <1>1, <1>3, <2>1 DEF Reported, Sighting
<1> QED BY <1>2, <1>3

\* The length of a chain is a number.
LEMMA Measured == ASSUME NEW S, NEW paths \in Seq(Seq(S)), paths # <<>> PROVE Len(paths[1]) \in Nat
<1>1. 1 \in DOMAIN paths
    OBVIOUS
<1>2. paths[1] \in Seq(S)
    BY <1>1
<1> QED BY <1>2

LEMMA ReconcilesKeeps ==
    ASSUME GraphTypeOK, FoundInv, SightingInv, Reconciles
    PROVE  SightingInv'
<1> DEFINE k == reconciled + 1
           p == entry[k]
           c == Reported(k)
           old == sightings[p]
<1>1. /\ k \in Nodes /\ reconciled' = k /\ walked /\ walked' = walked /\ k \in 0..N
      /\ reconciled \in Nat /\ entry' = entry /\ found' = found /\ lock' = lock
      /\ entry \in [Nodes -> Package] /\ p \in Package
    <2>1. reconciled \in 0..N /\ reconciled < N /\ N \in Nat
        BY GraphAssumption DEF SightingInv, Reconciles, GraphAssumption
    <2>2. k \in 1..N /\ k \in 0..N /\ reconciled \in Nat
        BY <2>1
    <2> QED BY <2>2 DEF Reconciles, SightingInv, Nodes, pairVars, graphVars
<1>2. /\ c \in Sighting
      /\ c.paths # <<>> => found[k] # NotFound /\ c.paths = found[k].paths
    BY <1>1, ReportedIs
<1>3. sightings' = IF old = None \/ Supersedes(c, old) THEN [sightings EXCEPT ![p] = c]
                                                       ELSE sightings
    BY DEF Reconciles
<1>4. old \in Sighting \cup {None} /\ sightings \in [Package -> Sighting \cup {None}]
    BY <1>1 DEF SightingInv
<1> HIDE DEF c
<1>5. sightings' \in [Package -> Sighting \cup {None}]
    BY <1>1, <1>2, <1>3, <1>4
<1>6. \A q \in Package : q # p => sightings'[q] = sightings[q]
    BY <1>3, <1>4
<1>7. sightings'[p] = IF old = None \/ Supersedes(c, old) THEN c ELSE old
    BY <1>1, <1>3, <1>4
<1>8. sightings'[p] # None
  <2>1. c \in [node : Nodes, line : Nat, paths : Seq(Seq(Nodes))]
      BY <1>2, LockFacts DEF Sighting
  <2>2. c # None
      BY <2>1, NoneAssumption
  <2> QED BY <1>7, <2>2
<1>9. ASSUME NEW n \in Nodes, n <= k
      PROVE  /\ sightings'[entry[n]] # None
             /\ sightings'[entry[n]].paths # <<>> =>
                   /\ found[n] # NotFound
                   /\ Len(sightings'[entry[n]].paths[1]) <= Len(found[n].paths[1])
  <2>1. CASE n = k
    <3>1. SUFFICES ASSUME sightings'[p].paths # <<>>
                   PROVE  /\ found[k] # NotFound
                          /\ Len(sightings'[p].paths[1]) <= Len(found[k].paths[1])
        BY <1>8, <2>1
    <3>2. CASE sightings'[p] = c
      <4>1. c.paths \in Seq(Seq(Nodes)) /\ c.paths # <<>>
          BY <1>2, <3>1, <3>2 DEF Sighting
      <4>2. Len(c.paths[1]) \in Nat
          BY <4>1, Measured
      <4> QED BY <1>2, <3>2, <4>1, <4>2
    <3>3. CASE sightings'[p] # c
      <4>1. old # None /\ ~Supersedes(c, old) /\ sightings'[p] = old
          BY <1>7, <3>3
      <4>2. c.paths # <<>> /\ ~(Len(c.paths[1]) < Len(old.paths[1]))
          BY <3>1, <4>1 DEF Supersedes
      <4>3. c.paths \in Seq(Seq(Nodes)) /\ old.paths \in Seq(Seq(Nodes))
          BY <1>2, <1>4, <4>1 DEF Sighting
      <4>4. Len(c.paths[1]) \in Nat /\ Len(old.paths[1]) \in Nat
          BY <3>1, <4>1, <4>2, <4>3, Measured
      <4> QED BY <1>2, <4>1, <4>2, <4>4
    <3> QED BY <3>2, <3>3
  <2>2. CASE n # k
    <3>1. n <= reconciled
        BY <1>1, <1>9, <2>2 DEF Nodes
    <3>2. /\ sightings[entry[n]] # None
          /\ sightings[entry[n]].paths # <<>> =>
                /\ found[n] # NotFound
                /\ Len(sightings[entry[n]].paths[1]) <= Len(found[n].paths[1])
        BY <3>1 DEF SightingInv
    <3>3. CASE entry[n] # p
        BY <1>1, <1>6, <3>2, <3>3
    <3>4. CASE entry[n] = p
      <4>1. SUFFICES ASSUME sightings'[p] = c, c.paths # <<>>, Supersedes(c, old)
                     PROVE  /\ found[n] # NotFound
                            /\ Len(c.paths[1]) <= Len(found[n].paths[1])
          BY <1>7, <1>8, <3>2, <3>4
      <4>2. old # None /\ old.paths # <<>> /\ Len(c.paths[1]) < Len(old.paths[1])
          BY <3>2, <3>4, <4>1 DEF Supersedes
      <4>3. found[n] # NotFound /\ Len(old.paths[1]) <= Len(found[n].paths[1])
          BY <3>2, <3>4, <4>2
      <4>4. /\ c.paths \in Seq(Seq(Nodes)) /\ old.paths \in Seq(Seq(Nodes))
            /\ found[n].paths \in Seq(Seq(Nodes)) /\ found[n].paths # <<>>
          BY <1>1, <1>2, <1>4, <4>2, <4>3 DEF Sighting, FoundInv, Finally, Explained
      <4>5. /\ Len(c.paths[1]) \in Nat /\ Len(old.paths[1]) \in Nat
            /\ Len(found[n].paths[1]) \in Nat
          BY <4>1, <4>2, <4>4, Measured
      <4> HIDE DEF old, p, k
      <4>6. \A a, b, d \in Nat : a < b /\ b <= d => a <= d
          OBVIOUS
      <4>7. Len(c.paths[1]) < Len(old.paths[1]) /\ Len(old.paths[1]) <= Len(found[n].paths[1])
          BY <4>2, <4>3
      <4>8. Len(c.paths[1]) <= Len(found[n].paths[1])
          BY <4>5, <4>6, <4>7
      <4> QED BY <4>3, <4>8
    <3> QED BY <3>3, <3>4
  <2> QED BY <2>1, <2>2
<1> QED BY <1>1, <1>5, <1>9 DEF SightingInv, Sighting

\* Outside reconcile() the sightings stay, and so does what the walk found.
LEMMA SightingsHold == FindingsSpec => []SightingInv
<1>1. FindingsInit => SightingInv
  <2> SUFFICES ASSUME FindingsInit PROVE SightingInv
      OBVIOUS
  <2>1. PICK input \in Inputs : Unmatched(input)
      BY DEF FindingsInit
  <2>2. entry \in [Nodes -> Package]
      BY <2>1, FindingsAssumption DEF Unmatched
  <2>3. sightings \in [Package -> Sighting \cup {None}]
      BY <2>1 DEF Unmatched
  <2>4. reconciled = 0 /\ N \in Nat
      BY <2>1, GraphAssumption DEF Unmatched, GraphAssumption
  <2>5. \A n \in Nodes : ~(n <= 0)
      BY <2>4 DEF Nodes
  <2> QED BY <2>2, <2>3, <2>4, <2>5 DEF SightingInv
<1>2. ASSUME GraphTypeOK, FoundInv, SightingInv, [FindingsNext]_findingVars PROVE SightingInv'
  <2>1. CASE Reconciles
      BY <1>2, <2>1, ReconcilesKeeps
  <2>2. CASE Extracts
    <3>1. ~walked /\ UNCHANGED <<lock, entry, reconciled, sightings>>
        BY <2>2 DEF Extracts, Walks, Seeds, Visits, Follows, EndsPass, pairVars
    <3>2. reconciled = 0 /\ N \in Nat
        BY <1>2, <3>1, GraphAssumption DEF SightingInv, GraphAssumption
    <3>3. \A n \in Nodes : ~(n <= 0)
        BY <3>2 DEF Nodes
    <3> QED BY <1>2, <3>1, <3>2, <3>3 DEF SightingInv, Sighting
  <2>3. CASE Loads \/ Matches \/ Tries \/ UNCHANGED findingVars
    <3>1. UNCHANGED <<lock, entry, reconciled, sightings, found, walked>>
        BY <2>3 DEF Loads, Matches, Tries, findingVars, graphVars, pairVars
    <3> QED BY <1>2, <3>1 DEF SightingInv, Sighting
  <2> QED BY <1>2, <2>1, <2>2, <2>3 DEF FindingsNext
<1>3. FindingsSpec => [](GraphTypeOK /\ FoundInv)
    BY WalksTheGraph, GraphTypes, FoundHolds, PTL
<1> QED BY <1>1, <1>2, <1>3, PTL DEF FindingsSpec

\* ShortestCopyWins, whatever the order of the lockfile: a package that is only
\* pulled in is explained by a chain no copy of that version undercuts.
THEOREM ShortestCopy == FindingsSpec => []ShortestCopyWins
<1>1. SightingInv => ShortestCopyWins
  <2> SUFFICES ASSUME SightingInv, reconciled = N, NEW p \in Package, sightings[p] # None,
                      sightings[p].paths # <<>>, NEW n \in Nodes, entry[n] = p
               PROVE  /\ found[n] # NotFound
                      /\ Len(sightings[p].paths[1]) <= Len(found[n].paths[1])
      BY DEF ShortestCopyWins
  <2>1. n <= reconciled
      BY DEF Nodes
  <2> QED BY <2>1 DEF SightingInv
<1> QED BY <1>1, SightingsHold, PTL

\* Type correctness of a scan.
THEOREM FindingsTypes == FindingsSpec => []FindingsTypeOK
<1>1. FindingsInit => subject = None /\ candidates = {} /\ fix = Undecided
    BY DEF FindingsInit, Unmatched
<1> DEFINE MatchTypeOK == /\ subject = None \/ subject \in Package
                          /\ candidates \subseteq Releases
                          /\ fix \in Fix
<1>2. FindingsInit => MatchTypeOK
    BY <1>1 DEF Undecided, Fix
<1>3. ASSUME RangesTypeOK, FixInv, MatchTypeOK, [FindingsNext]_findingVars PROVE MatchTypeOK'
  <2>1. CASE Matches
    <3>1. PICK p \in Package : /\ subject' = p
                               /\ candidates' = Above(p)
                               /\ fix' = IF candidates' = {} THEN NoFix ELSE Undecided
        BY <2>1 DEF Matches, Above
    <3>2. Above(p) \subseteq Releases
      <4>1. Applicable(p) \in SUBSET Advisories
          BY DEF Applicable, Lookup
      <4> QED BY <1>3, <4>1, FixedAreReleases DEF Above
    <3> QED BY <3>1, <3>2 DEF NoFix, Undecided, Fix
  <2>2. CASE Tries
    <3>1. PICK v \in candidates :
              /\ candidates' = {w \in candidates : w.rank # v.rank}
              /\ fix' = IF ~AffectedAt(subject.name, v) THEN Clears(v)
                        ELSE IF candidates' = {} THEN Partial ELSE Undecided
        BY <2>2 DEF Tries
    <3>2. subject' = subject /\ v \in Releases
        BY <1>3, <2>2, <3>1 DEF Tries
    <3>3. {Clears(v), Partial, Undecided} \subseteq Fix
        BY <3>2 DEF Clears, Partial, Undecided, Fix
    <3> QED BY <1>3, <3>1, <3>2, <3>3
  <2>3. CASE Extracts \/ Reconciles \/ Loads \/ UNCHANGED findingVars
      BY <1>3, <2>3 DEF Extracts, Reconciles, Loads, findingVars, matchVars
  <2> QED BY <1>3, <2>1, <2>2, <2>3 DEF FindingsNext
<1>4. SightingInv => /\ reconciled \in 0..N
                     /\ \A p \in Package : sightings[p] = None \/ sightings[p] \in Sighting
    BY DEF SightingInv
<1>5. FindingsSpec => []MatchTypeOK
  <2> HIDE DEF MatchTypeOK
  <2> QED BY <1>2, <1>3, PartsHold, FixInvHolds, PTL DEF FindingsSpec
<1>6. FindingsSpec => []GraphTypeOK
    BY WalksTheGraph, GraphTypes, PTL
<1>7. GraphTypeOK /\ RangesTypeOK /\ SightingInv /\ MatchTypeOK => FindingsTypeOK
    BY <1>4 DEF FindingsTypeOK
<1> HIDE DEF MatchTypeOK
<1> QED BY <1>5, <1>6, <1>7, PartsHold, SightingsHold, PTL
=============================================================================
