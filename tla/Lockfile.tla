------------------------------ MODULE Lockfile ------------------------------
(***************************************************************************)
(* manifest/npm.rs and graph.rs: the install tree a package-lock.json      *)
(* describes, what a name resolves to in it, and which manifests answer    *)
(* for what it holds.  An install path is a sequence of segments.          *)
(*                                                                         *)
(* Of a chain only its length is kept: Graph models the walk that finds    *)
(* it, and its limits.  An empty `requires` makes no edge, so that it also  *)
(* sets has_edges changes nothing; MAX_NODES is left out.                  *)
(***************************************************************************)
EXTENDS Manifests

MaxLinkHops == 2   \* bound: MAX_LINK_HOPS is 8

Modules == "node_modules"
NoLink  == <<Modules>>
NoName  == ""
NoEntry == 0

InModules(key) == \E i \in 1..Len(key) - 1 : key[i] = Modules

\* The names an entry asks for, by section, the first mention of each.
LockEdges(e) ==
    FirstOf(Sightings(e.runtime, LAMBDA n : [name |-> n, kind |-> "runtime"])
                \o Sightings(e.dev, LAMBDA n : [name |-> n, kind |-> "dev"])
                \o Sightings(e.peer, LAMBDA n : [name |-> n, kind |-> "peer"]),
            LAMBDA a, b : a.name = b.name)

\* devOptional stands for both.
LockGroups(flags) ==
    (flags \cap {"dev", "optional"})
        \cup (IF "devOptional" \in flags THEN {"dev", "optional"} ELSE {})

\* Versions 2 and 3: one entry per install path.  Advisories go by the name an
\* alias hides; the project's own packages are keyed by their directory.
FromPackages(entries) ==
    Sightings(Numbered(entries), LAMBDA e :
        [path |-> e.key,
         registry |-> IF e.name # NoName THEN e.name
                      ELSE IF e.key = <<>> THEN NoName ELSE Last(e.key),
         version |-> e.version, deps |-> LockEdges(e), link |-> e.link, line |-> e.line,
         groups |-> LockGroups(e.flags)])

\* Version 1: entries nested under entries, in file order, each with the place
\* of the one it is under.  Nesting gives the install path, requires the edges.
FromTree(entries) ==
    LET path[i \in 0..Len(entries)] ==
            IF i = 0 THEN <<>> ELSE path[entries[i].under] \o <<Modules, entries[i].name>>
        Root == [path |-> <<>>, registry |-> NoName, version |-> NoVersion, deps |-> <<>>,
                 link |-> NoLink, line |-> 0, groups |-> {}]
    IN <<Root>> \o Sightings(Numbered(entries), LAMBDA e :
           [path |-> path[e.line], registry |-> IF e.alias # NoName THEN e.alias ELSE e.name,
            version |-> e.version, link |-> NoLink, line |-> e.line,
            deps |-> Sightings(e.requires, LAMBDA n : [name |-> n, kind |-> "runtime"]),
            groups |-> LockGroups(e.flags)])

\* lock(): `packages` takes precedence over `dependencies`.
Tree(file) ==
    IF file.packages # <<>> THEN FromPackages(file.packages) ELSE FromTree(file.dependencies)

HasEdges(tree) == \E i \in DOMAIN tree : tree[i].deps # <<>>

\* One sighting per entry that is a dependency and has a version.
LockSightings(tree, path) ==
    LET held == Where(tree, LAMBDA n : InModules(n.path) /\ n.version # NoVersion)
    IN Sightings(held, LAMBDA n :
           Sighted(Key("npm", n.registry), n.version, path, n.line, n.groups, FALSE, FALSE))

-----------------------------------------------------------------------------
(* Lock::resolve, Lock::follow                                             *)

\* by_path: the first entry with this install path.
EntryAt(tree, path) ==
    IF \E i \in DOMAIN tree : tree[i].path = path
    THEN Min({i \in DOMAIN tree : tree[i].path = path}) ELSE NoEntry

\* A link is followed to the package it stands for, or to nothing.
Follow(tree, i) ==
    LET at[hop \in 0..MaxLinkHops - 1] ==
            IF hop = 0 THEN i
            ELSE IF at[hop - 1] = NoEntry \/ tree[at[hop - 1]].link = NoLink THEN at[hop - 1]
            ELSE EntryAt(tree, tree[at[hop - 1]].link)
        end == at[MaxLinkHops - 1]
    IN IF end # NoEntry /\ tree[end].link = NoLink THEN end ELSE NoEntry

\* Node looks in node_modules of the requirer's directory and of every ancestor,
\* nearest first, and takes the first that is there.
Resolve(tree, from, name) ==
    LET Candidate(k) == EntryAt(tree, SubSeq(from, 1, k) \o <<Modules, name>>)
        hits == {k \in 0..Len(from) : Candidate(k) # NoEntry}
    IN IF hits = {} THEN NoEntry ELSE Follow(tree, Candidate(Max(hits)))

-----------------------------------------------------------------------------
(* graph::attribute                                                        *)

\* resolve_edges(): a name that resolves to nothing is no edge.
ResolveEdges(tree) ==
    Sightings(tree, LAMBDA node :
        {e \in {[to |-> Resolve(tree, node.path, d.name), kind |-> d.kind] : d \in ToSet(node.deps)} :
            e.to # NoEntry})

\* walk(): layer k holds what is first met after k steps.
Layers(edges, kinds, seeds) ==
    FoldLeft(LAMBDA layers, k : Append(layers,
                 Last(layers) \cup {e.to : e \in {f \in UNION {edges[n] : n \in Last(layers)} :
                                                   f.kind \in kinds}}),
             <<seeds>>, Tail(edges))

\* What one pass says of the entries that are not declared: how far below the
\* manifest, and under which declaration (breadth-first, so the first of those
\* it is nearest to).
Pass(edges, kinds, entries) ==
    LET seeds == ToSet(entries) \ {NoEntry}
        all == Layers(edges, kinds, seeds)
        own == Sightings(entries, LAMBDA n : Layers(edges, kinds, {n} \ {NoEntry}))
    IN {f \in [node : DOMAIN edges, which : DOMAIN entries, depth : DOMAIN edges \ {1}] :
           /\ f.node \in all[f.depth] \ all[f.depth - 1]
           /\ f.which = Min({i \in DOMAIN entries : f.node \in own[i][f.depth]})}

\* reach(): peer edges only for what nothing else reaches.
Reach(edges, entries) ==
    LET plain == Pass(edges, {"runtime"}, entries)
        extra == Pass(edges, {"runtime", "peer"}, entries)
    IN plain \cup {e \in extra : \A p \in plain : p.node # e.node}

\* The nearest at or above a directory of those that test() takes, if any.
Nearest(dir, test(_)) ==
    LET at == {n \in 0..Len(dir) : test(SubSeq(dir, 1, n))}
    IN {SubSeq(dir, 1, n) : n \in {m \in at : \A k \in at : k <= m}}

ManifestOf(dir, entry) == dir \o entry.path \o <<"package.json">>

\* roots(): the project's own packages whose manifest the walk read and that
\* have no nearer lockfile.
Roots(tree, dir, manifests, lockDirs) ==
    {i \in DOMAIN tree :
        /\ ~InModules(tree[i].path)
        /\ ".." \notin Range(tree[i].path)
        /\ Nearest(Front(ManifestOf(dir, tree[i])), LAMBDA d : d \in lockDirs) = {dir}
        /\ ManifestOf(dir, tree[i]) \in DOMAIN manifests}

\* Every entry of the lockfile, with the declarations answerable for it.
Attribute(tree, dir, manifests, lockDirs) ==
    LET edges == ResolveEdges(tree)
        Declares(root) == manifests[ManifestOf(dir, tree[root])]
        Entries(root) ==
            Sightings(Declares(root), LAMBDA d : Resolve(tree, tree[root].path, d.name))
        From(root) ==
            {[line |-> tree[f.node].line, site |-> Declares(root)[f.which].site,
              depth |-> f.depth] : f \in Reach(edges, Entries(root))}
    IN IF HasEdges(tree) THEN UNION {From(root) : root \in Roots(tree, dir, manifests, lockDirs)}
       ELSE {}
=============================================================================
