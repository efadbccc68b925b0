------------------------------- MODULE Graph --------------------------------
(***************************************************************************)
(* graph.rs: who is answerable for a transitive npm dependency.  For one   *)
(* package.json a lockfile governs, walk() goes breadth-first from what    *)
(* the manifest declares and remembers the first way it met each lock      *)
(* entry, and a few more that are as short.  reach() walks twice: without  *)
(* peer edges, then with them, for the entries nothing else reached.       *)
(*                                                                         *)
(* A lockfile is what Lock::resolve makes of it: per entry, the entries    *)
(* its dependencies resolve to, in file order.  Each manifest is walked on *)
(* its own, so one is modelled.  A chain is made of entries rather than    *)
(* names.  A lockfile above MAX_NODES entries is not walked at all.        *)
(***************************************************************************)
EXTENDS Integers, Sequences, FiniteSets

CONSTANTS
    N,          \* lock entries, in key order
    MaxChains   \* MAX_CHAINS

Nodes == 1..N
NoNode == 0
Kinds == {"runtime", "dev", "peer"}
Edge  == [to : Nodes, kind : Kinds]

\* A lockfile and the manifest it is walked from.
\* declares: the entry each declaration of the manifest resolves to.
Lock == [deps : [Nodes -> Seq(Edge)], declares : Seq(Nodes)]

ASSUME GraphAssumption ==
    /\ N \in Nat
    /\ MaxChains \in Nat \ {0}

VARIABLES
    lock,
    peers,        \* the second pass, which may follow peer edges
    seeded,       \* declarations already entered
    at, pos,      \* the entry being visited, and its next edge
    predecessor, origin, depth, alternates,
    queue,
    found,        \* per entry, what reach() says of it
    walked        \* reach() has returned

walkVars  == <<peers, seeded, at, pos, predecessor, origin, depth, alternates, queue>>
graphVars == <<lock, walkVars, found, walked>>

NotFound == [line |-> 0, paths |-> <<>>]

GraphTypeOK ==
    /\ lock \in Lock
    /\ peers \in BOOLEAN
    /\ seeded \in 0..Len(lock.declares)
    /\ at \in Nodes \cup {NoNode}
    /\ pos \in Nat \ {0}
    /\ predecessor \in [Nodes -> Nodes \cup {NoNode}]
    /\ origin \in [Nodes -> 0..Len(lock.declares)]
    /\ depth \in [Nodes -> Nat]
    /\ alternates \in [Nodes -> Seq(Nodes)]
    /\ queue \in Seq(Nodes)
    /\ walked \in BOOLEAN

Fresh(n) == depth[n] = 0

\* Nothing was walked yet.
Unwalked ==
    /\ peers = FALSE
    /\ seeded = 0
    /\ at = NoNode /\ pos = 1
    /\ predecessor = [n \in Nodes |-> NoNode]
    /\ origin = [n \in Nodes |-> 0]
    /\ depth = [n \in Nodes |-> 0]
    /\ alternates = [n \in Nodes |-> <<>>]
    /\ queue = <<>>
    /\ found = [n \in Nodes |-> NotFound]
    /\ walked = FALSE

GraphInit == lock \in Lock /\ Unwalked

-----------------------------------------------------------------------------
(* walk()                                                                  *)

Edges == IF at = NoNode THEN <<>> ELSE lock.deps[at]

\* Mutant: development dependencies are followed below the manifest too.
AllowsDev(kind) == kind \in {"runtime", "dev"} \/ (kind = "peer" /\ peers)

\* Peers::allows
Allows(kind) == kind = "runtime" \/ (kind = "peer" /\ peers)

Enters(n, from, which, d) ==
    /\ predecessor' = [predecessor EXCEPT ![n] = from]
    /\ origin' = [origin EXCEPT ![n] = which]
    /\ depth' = [depth EXCEPT ![n] = d]
    /\ queue' = Append(queue, n)

\* The next declaration; two that resolve to one entry enter it once.
Seeds ==
    /\ ~walked
    /\ seeded < Len(lock.declares)
    /\ seeded' = seeded + 1
    /\ LET n == lock.declares[seeded + 1] IN
       IF Fresh(n) THEN Enters(n, NoNode, seeded + 1, 1)
                   ELSE UNCHANGED <<predecessor, origin, depth, queue>>
    /\ UNCHANGED <<lock, peers, at, pos, alternates, found, walked>>

Idling == seeded = Len(lock.declares) /\ pos > Len(Edges)

\* Mutant: the newest entry first, as a stack would.
VisitsNewest ==
    /\ ~walked /\ Idling /\ queue # <<>>
    /\ at' = queue[Len(queue)] /\ pos' = 1
    /\ queue' = SubSeq(queue, 1, Len(queue) - 1)
    /\ UNCHANGED <<lock, peers, seeded, predecessor, origin, depth, alternates, found,
                   walked>>

Visits ==
    /\ ~walked /\ Idling /\ queue # <<>>
    /\ at' = Head(queue) /\ pos' = 1
    /\ queue' = Tail(queue)
    /\ UNCHANGED <<lock, peers, seeded, predecessor, origin, depth, alternates, found,
                   walked>>

\* Another way in counts if it is exactly as short and there is room to say so.
Alternate(n) ==
    /\ depth[n] = depth[at] + 1
    /\ predecessor[n] # at
    /\ \A i \in DOMAIN alternates[n] : alternates[n][i] # at
    /\ Len(alternates[n]) < MaxChains - 1

\* One edge of the entry being visited.
Follows ==
    /\ ~walked
    /\ seeded = Len(lock.declares)
    /\ pos <= Len(Edges)
    /\ pos' = pos + 1
    /\ LET n == Edges[pos].to IN
       \/ /\ Allows(Edges[pos].kind) /\ Fresh(n)
          /\ Enters(n, at, origin[at], depth[at] + 1)
          /\ UNCHANGED alternates
       \/ /\ Allows(Edges[pos].kind) /\ ~Fresh(n) /\ Alternate(n)
          /\ alternates' = [alternates EXCEPT ![n] = Append(@, at)]
          /\ UNCHANGED <<predecessor, origin, depth, queue>>
       \/ /\ ~Allows(Edges[pos].kind) \/ (~Fresh(n) /\ ~Alternate(n))
          /\ UNCHANGED <<alternates, predecessor, origin, depth, queue>>
    /\ UNCHANGED <<lock, peers, seeded, at, found, walked>>

\* The entry's predecessors, back to a declaration: path[i - 1] led to path[i].
Chain(node) ==
    CHOOSE path \in [1..depth[node] -> Nodes] :
        /\ path[depth[node]] = node
        /\ \A i \in 2..depth[node] : predecessor[path[i]] = path[i - 1]

\* Only what something else pulls in: reconcile anchors the rest itself.
Attribution(n) ==
    IF Fresh(n) \/ predecessor[n] = NoNode THEN NotFound
    ELSE [line |-> origin[n],
          paths |-> <<Chain(n)>> \o
                    [i \in DOMAIN alternates[n] |-> Append(Chain(alternates[n][i]), n)]]

\* reach(): what the first pass said stays.
FirstPass(n) == IF found[n] = NotFound THEN Attribution(n) ELSE found[n]

\* A pass is over; the second starts from scratch, with the peer edges.
EndsPass ==
    /\ ~walked /\ Idling /\ queue = <<>>
    /\ found' = [n \in Nodes |-> FirstPass(n)]
    /\ walked' = peers
    /\ IF peers THEN UNCHANGED walkVars
       ELSE /\ peers' = TRUE
            /\ seeded' = 0
            /\ at' = NoNode /\ pos' = 1
            /\ predecessor' = [n \in Nodes |-> NoNode]
            /\ origin' = [n \in Nodes |-> 0]
            /\ depth' = [n \in Nodes |-> 0]
            /\ alternates' = [n \in Nodes |-> <<>>]
            /\ queue' = <<>>
    /\ UNCHANGED lock

Walks == Seeds \/ Visits \/ Follows \/ EndsPass

GraphSpec == GraphInit /\ [][Walks]_graphVars

-----------------------------------------------------------------------------
(* What the walk promises, against what can be reached.                    *)

Declared == {lock.declares[i] : i \in DOMAIN lock.declares}

Step(kinds, n, m) ==
    \E i \in DOMAIN lock.deps[n] : /\ lock.deps[n][i].to = m
                                   /\ lock.deps[n][i].kind \in kinds

\* What the manifest reaches through at most d edges.
Within(kinds, dist) ==
    LET w[d \in 0..N] ==
            IF d = 0 THEN Declared
            ELSE LET near == w[d - 1]
                 IN near \cup {m \in Nodes : \E n \in near : Step(kinds, n, m)}
    IN w[dist]

Reaches(kinds, n) == n \in Within(kinds, N)

\* The distance of what is reached: how many radii fall short of it.
Distance(kinds, n) == Cardinality({d \in 0..N : n \notin Within(kinds, d)})

Honest   == {"runtime"}
WithPeer == {"runtime", "peer"}

\* The kinds of edge an entry is to be explained by: peers only where nothing
\* else reaches it.
Explains(n) == IF Reaches(Honest, n) THEN Honest ELSE WithPeer

\* "The direct dependency that reaches it" (graph.rs, Attribution): exactly
\* the entries something pulls in, and the manifest does not declare, are
\* attributed; each along chains of edges npm follows from a declaration to
\* the entry, all as short as any there is, peer edges only where no honest
\* chain exists.
ChainsAreShortest ==
    walked => \A n \in Nodes :
        /\ found[n] # NotFound <=> n \notin Declared /\ Reaches(WithPeer, n)
        /\ \A path \in {found[n].paths[i] : i \in DOMAIN found[n].paths} :
             /\ Len(path) = Distance(Explains(n), n) + 1
             /\ path[1] \in Declared /\ path[Len(path)] = n
             /\ \A j \in 2..Len(path) : Step(Explains(n), path[j - 1], path[j])

\* Why the walk finds shortest chains, without paths: when a pass ends, every
\* edge it may follow leads at most one step further, and every entry that was
\* not declared is one step further than the one that led to it.
DepthsAreTight ==
    Idling /\ queue = <<>> =>
        \A n \in Nodes : ~Fresh(n) =>
            /\ depth[n] = 1 <=> n \in Declared
            /\ \A i \in DOMAIN lock.deps[n] :
                 Allows(lock.deps[n][i].kind) =>
                     depth[lock.deps[n][i].to] \in 1..depth[n] + 1
            /\ n \notin Declared =>
                 /\ predecessor[n] \in Nodes
                 /\ depth[n] = depth[predecessor[n]] + 1
                 /\ \E i \in DOMAIN lock.deps[predecessor[n]] :
                       /\ lock.deps[predecessor[n]][i].to = n
                       /\ Allows(lock.deps[predecessor[n]][i].kind)
=============================================================================
