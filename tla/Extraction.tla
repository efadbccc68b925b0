----------------------------- MODULE Extraction -----------------------------
(***************************************************************************)
(* extract.rs: one pass over a workspace.  The walk reads every manifest   *)
(* it may, in the order the file system lists them (here: any); the files  *)
(* requirements name with -r are read next; then every npm lockfile is     *)
(* attributed, and reconcile() makes one report of what was seen.          *)
(*                                                                         *)
(* A path is a sequence of names, the last that of a file; -r can put ".." *)
(* in it.  A file that is not UTF-8, too large or gone is Unreadable, as   *)
(* is a lockfile that describes no tree; another that does not parse has   *)
(* no statements.  A root that is not a directory fails the scan, which    *)
(* Engine models.  The report is sorted only to be compared, so here it is *)
(* a set.                                                                  *)
(***************************************************************************)
EXTENDS Lockfile

CONSTANTS
    Projects,    \* by name, workspaces: what is in them, what is excluded, the file cap
    Unreadable,
    MaxSegments  \* bound: names in a path, PATH_MAX

\* is_requirements_name: of the names in Projects, those that start and end so.
RequirementsNames == {"requirements.txt", "requirements-dev.txt"}
LockNames == {"package-lock.json", "npm-shrinkwrap.json"}
ManifestNames == {"package.json", "go.mod", "Cargo.toml", "Cargo.lock"}
                     \cup LockNames \cup RequirementsNames

\* What the operating system makes of the path.
Into(at, name) == IF name = ".." /\ at # <<>> THEN Front(at) ELSE Append(at, name)
Normal(path) ==
    LET at[n \in 0..Len(path)] == IF n = 0 THEN <<>> ELSE Into(at[n - 1], path[n])
    IN at[Len(path)]

\* What a project holds: files at normal paths, and in them what a parser can
\* make of them.  A statement has a version, be it none, in a Cargo.toml with or
\* without a requirement around it; one that includes has a target, which ends in
\* the name of a file.
IsPath(path) == IsSeq(path) /\ path # <<>> /\ Normal(path) = path
Includes(d) ==
    /\ "is" \in DOMAIN d
    /\ IF d.is = "include"
       THEN /\ "target" \in DOMAIN d
            /\ IsSeq(d.target) /\ d.target # <<>> /\ Last(d.target) # ".."
       ELSE "version" \in DOMAIN d
IsText(path, text) ==
    text # Unreadable =>
        IF Last(path) \in LockNames THEN IsSeq(text.packages) /\ IsSeq(text.dependencies)
        ELSE /\ IsSeq(text)
             /\ \A i \in DOMAIN text :
                   IF Last(path) \in ManifestNames \ RequirementsNames
                   THEN /\ "version" \in DOMAIN text[i]
                        /\ Last(path) = "Cargo.toml" => "bare" \in DOMAIN text[i]
                   ELSE Includes(text[i])

ASSUME ExtractionAssumption ==
    /\ MaxSegments \in Nat
    /\ \A p \in DOMAIN Projects :
          /\ Projects[p].max_files \in Nat
          /\ \A path \in DOMAIN Projects[p].files :
                IsPath(path) /\ IsText(path, Projects[p].files[path])
          /\ \A path \in DOMAIN Projects[p].texts :
                /\ path \in DOMAIN Projects[p].files
                /\ \A text \in Projects[p].texts[path] : IsText(path, text)

VARIABLES
    project,    \* which of them
    files,      \* what the disk holds: per path, its statements
    todo,       \* files the walk has not come to
    counted,    \* how many it has
    sightings,
    cargoSelf,  \* directories, and the crate each calls itself
    includes,   \* files named by -r, not read yet
    manifests,  \* every package.json the walk read
    locks,      \* per directory, its npm lockfile
    visited,    \* includes followed
    phase,
    packages    \* what extract() returned

walkVars == <<todo, counted, sightings, cargoSelf, includes, manifests, locks>>
extractionVars == <<project, files, walkVars, visited, phase, packages>>

Project == Projects[project]

SkipDirs == {Modules, ".git", ".venv", "venv", "vendor", "target", "dist"}

DirOf(path) == Front(path)

\* read::manifest
Read(path) ==
    IF Normal(path) \in DOMAIN files /\ Len(path) <= MaxSegments
    THEN files[Normal(path)] ELSE Unreadable

\* parser_for; package_lock() is a view of the tree.
Parse(file, path) ==
    CASE Last(path) = "package.json"      -> PackageJson(file, path)
      [] Last(path) = "go.mod"            -> GoMod(file, path)
      [] Last(path) = "Cargo.toml"        -> CargoToml(file, path)
      [] Last(path) = "Cargo.lock"        -> CargoLock(file, path)
      [] Last(path) \in RequirementsNames -> Requirements(file, path)
      [] Last(path) \in LockNames         -> LockSightings(Tree(file), path)
      [] OTHER                            -> <<>>

\* unwalked_includes()
Included(file, path) ==
    Where(Sightings(RequirementIncludes(file), LAMBDA target : DirOf(path) \o target),
              LAMBDA path2 : Last(path2) \notin ManifestNames)

\* filter_entry
Walkable(path) == ToSet(DirOf(path)) \cap (SkipDirs \cup Project.exclude) = {}

NothingSeen ==
    /\ counted = 0
    /\ sightings = <<>>
    /\ cargoSelf = {}
    /\ includes = <<>>
    /\ manifests = <<>>
    /\ locks = <<>>
    /\ visited = {}

ExtractionInit ==
    /\ project \in DOMAIN Projects
    /\ files = Project.files
    /\ todo = {path \in DOMAIN files : Walkable(path)}
    /\ NothingSeen
    /\ phase = "walking"
    /\ packages = {}

-----------------------------------------------------------------------------
(* The walk                                                                *)

Walking == phase = "walking" /\ counted < Project.max_files
Parsed(path) == Last(path) \in ManifestNames /\ Read(path) # Unreadable

\* The next file the walk comes to.
Enters(path) ==
    /\ Walking
    /\ path \in todo
    /\ todo' = todo \ {path}
    /\ counted' = counted + 1
    /\ UNCHANGED <<project, files, visited, phase, packages>>

\* No parser, or nothing to parse.
PassesOver(path) ==
    /\ Enters(path) /\ ~Parsed(path)
    /\ UNCHANGED <<sightings, cargoSelf, includes, manifests, locks>>

\* Mutant: whichever lockfile comes last stands for the directory.
HoldsLockLatest(path) ==
    /\ Enters(path) /\ Parsed(path) /\ Last(path) \in LockNames
    /\ locks' = With(locks, DirOf(path), [path |-> path, tree |-> Tree(files[path])])
    /\ UNCHANGED <<sightings, cargoSelf, includes, manifests>>

\* A lockfile is held, and a shrinkwrap outranks what is beside it.
HoldsLock(path) ==
    /\ Enters(path) /\ Parsed(path) /\ Last(path) \in LockNames
    /\ locks' = IF Last(path) = "npm-shrinkwrap.json" \/ DirOf(path) \notin DOMAIN locks
                THEN With(locks, DirOf(path), [path |-> path, tree |-> Tree(files[path])])
                ELSE locks
    /\ UNCHANGED <<sightings, cargoSelf, includes, manifests>>

ReadsManifest(path) ==
    /\ Enters(path) /\ Parsed(path) /\ Last(path) \notin LockNames
    /\ LET file == Read(path)
           name == Last(path)
       IN /\ sightings' = sightings \o Parse(file, path)
          /\ cargoSelf' = cargoSelf \cup
                IF name = "Cargo.toml" THEN {DirOf(path)} \X CargoSelf(file) ELSE {}
          /\ includes' = includes \o
                IF name \in RequirementsNames THEN Included(file, path) ELSE <<>>
          /\ manifests' =
                IF name = "package.json" THEN With(manifests, path, Declarations(file, path))
                ELSE manifests
    /\ UNCHANGED locks

\* All of it, or as many files as the cap allows.
WalkEnds ==
    /\ phase = "walking"
    /\ todo = {} \/ counted = Project.max_files
    /\ phase' = "following"
    /\ UNCHANGED <<project, files, walkVars, visited, packages>>

\* Includes, the last named first; each spelling of a path once.
FollowsInclude ==
    /\ phase = "following" /\ includes # <<>>
    /\ LET path == Last(includes)
           file == Read(path)
           new  == path \notin visited /\ file # Unreadable
       IN /\ visited' = visited \cup {path}
          /\ includes' = Front(includes) \o IF new THEN Included(file, path) ELSE <<>>
          /\ sightings' = sightings \o IF new THEN Requirements(file, path) ELSE <<>>
    /\ UNCHANGED <<project, files, todo, counted, cargoSelf, manifests, locks, phase, packages>>

-----------------------------------------------------------------------------
(* reconcile()                                                             *)

Scope(dir, key) == [dir |-> dir, key |-> key]
ScopeOf(s) == Scope(DirOf(s.evidence[1]), s.key)
AnchorSite(s) == IF s.declared # NoSite THEN s.declared ELSE s.evidence
AnchorDir(s) == DirOf(AnchorSite(s)[1])

Pins(found) == {found[i] : i \in {j \in DOMAIN found : ~found[j].from_range}}
Ranges(found) == Where(found, LAMBDA s : s.from_range)

\* Mutant: only a lockfile in the manifest's own directory governs it.
NearestLockBeside(locked, scope) == IF scope \in locked THEN {scope.dir} ELSE {}

\* The nearest directory, here or above, that pins this package.
NearestLock(locked, scope) == Nearest(scope.dir, LAMBDA d : Scope(d, scope.key) \in locked)

\* Where what is pinned in a scope is declared, one site per manifest line.
DeclaredAt(found, locked, scope) ==
    LET governed == Where(Ranges(found), LAMBDA s :
            s.key = scope.key /\ NearestLock(locked, ScopeOf(s)) = {scope.dir})
    IN FirstOf(Sightings(governed, LAMBDA s : s.evidence), LAMBDA a, b : a = b)

\* What attribute() found for a lockfile line, each in another directory.
ChainsOf(chains, s) == Listed({c \in chains : c.of = s.evidence})

\* Where one sighting is reported: where it is declared, and where the graph
\* says it is pulled in; at its own line if neither.
ReportedAt(found, chains, locked, s) ==
    IF s.from_range
    THEN IF NearestLock(locked, ScopeOf(s)) # {} THEN <<>> ELSE <<s>>
    ELSE LET sites == DeclaredAt(found, locked, ScopeOf(s))
             via   == ChainsOf(chains, s)
         IN IF sites = <<>> /\ via = <<>> THEN <<s>>
            ELSE Sightings(sites, LAMBDA site : [s EXCEPT !.declared = site])
                 \o Sightings(via, LAMBDA c : [s EXCEPT !.declared = c.site, !.depth = c.depth])

\* A direct dependency outranks a transitive one, a shorter chain a longer one.
Outranks(candidate, current) == candidate.depth < current.depth

\* Mutant: the first groups that are not empty stay.
MergedGroupsFirst(current, candidate) == IF current = {} THEN candidate ELSE current

\* No groups means it ships, and what ships by any route ships.
MergedGroups(current, candidate) ==
    IF current = {} \/ candidate = {} THEN {} ELSE current \cup candidate

\* What a report is one of its kind by: directory, package and version.
Kind(s) == [dir |-> AnchorDir(s), key |-> s.key, version |-> s.version]

\* push(): one report of a kind.
Merged(old, s) ==
    [(IF Outranks(s, old) THEN s ELSE old) EXCEPT !.groups = MergedGroups(old.groups, s.groups)]
Pushed(kept, s) ==
    LET same == {i \in DOMAIN kept : Kind(kept[i]) = Kind(s)}
    IN IF same = {} THEN Append(kept, s)
       ELSE [i \in DOMAIN kept |-> IF i \in same THEN Merged(kept[i], s) ELSE kept[i]]

\* Everything that is reported, in the order of what was found.
PinnedScopes(found) == {ScopeOf(s) : s \in Pins(found)}
Reports(found, chains) ==
    FlattenSeq(Sightings(found, LAMBDA s :
        ReportedAt(found, chains, PinnedScopes(found), s)))

Kept(pushes) ==
    LET kept[n \in 0..Len(pushes)] ==
            IF n = 0 THEN <<>> ELSE Pushed(kept[n - 1], pushes[n])
    IN kept[Len(pushes)]

Reconcile(found, chains) == ToSet(Kept(Reports(found, chains)))

\* Cargo.lock lists the project's own crate.
IsOwnCrate(s) ==
    s.key.eco = "crates.io" /\ <<DirOf(s.evidence[1]), s.key.name>> \in cargoSelf

\* What graph::attribute says of every lockfile.
Chains ==
    UNION {{[of |-> <<locks[dir].path, a.line>>, site |-> a.site, depth |-> a.depth] :
               a \in Attribute(locks[dir].tree, dir, manifests, DOMAIN locks)} :
           dir \in DOMAIN locks}

\* The sightings of the lockfiles, one directory after another.
Locked ==
    FlattenSeq(Sightings(Listed(DOMAIN locks), LAMBDA dir :
        LockSightings(locks[dir].tree, locks[dir].path)))

Retained(found) == Where(found \o Locked, LAMBDA s : ~IsOwnCrate(s))

Reconciles ==
    /\ phase = "following" /\ includes = <<>>
    /\ phase' = "done"
    /\ packages' = Reconcile(Retained(sightings), Chains)
    /\ UNCHANGED <<project, files, walkVars, visited>>

Extracts ==
    \/ \E path \in todo : PassesOver(path) \/ HoldsLock(path) \/ ReadsManifest(path)
    \/ WalkEnds \/ FollowsInclude \/ Reconciles

ExtractionSpec == ExtractionInit /\ [][Extracts]_extractionVars

-----------------------------------------------------------------------------
(* What the report promises                                                *)

Done == phase = "done"
Found == Retained(sightings)

Holds(dir, key, version) ==
    \E p \in packages : Kind(p) = [dir |-> dir, key |-> key, version |-> version]

\* What a manifest declares is reported in its own directory: at every version
\* pinned in the nearest directory, here or above, that pins the package, or at
\* the version it states where none does.
DeclarationHeld(found, locked, s) ==
    LET dir == DirOf(s.evidence[1])
        Above(n) == Scope(SubSeq(dir, 1, n), s.key)
        pinned == {n \in 0..Len(dir) : Above(n) \in locked}
    IN \/ pinned = {} /\ Holds(dir, s.key, s.version)
       \/ \E n \in pinned :
             /\ \A m \in pinned : m <= n
             /\ \A p \in Pins(found) : ScopeOf(p) = Above(n) => Holds(dir, s.key, p.version)

\* A version that is pinned is reported from the directory that pins it.
PinHeld(p) ==
    \E r \in packages : /\ r.key = p.key /\ r.version = p.version
                        /\ DirOf(r.evidence[1]) = DirOf(p.evidence[1])

\* "The lockfile wins, because it says what is actually installed, but the
\* manifest's location is carried forward" (extract.rs, reconcile): of all that
\* was seen nothing is lost between two files that speak of one package.
NothingHidden ==
    Done => \A s \in ToSet(Found) :
                IF s.from_range THEN DeclarationHeld(Found, PinnedScopes(Found), s)
                                ELSE PinHeld(s)

\* "A package reached by any shipping route ships" (extract.rs, merged_groups):
\* what is reported in a directory is in no group exactly if one of the
\* sightings that report it there is in none.
ShippingStaysShipping ==
    Done =>
        LET Reported(s) == ToSet(ReportedAt(Found, Chains, PinnedScopes(Found), s))
            reports == UNION {Reported(s) : s \in ToSet(Found)}
        IN \A p \in packages :
               p.groups = {} <=> \E r \in reports : Kind(r) = Kind(p) /\ r.groups = {}

\* What a report says, but for which of several equal lines it names.
View(report) ==
    {[kind |-> Kind(p), groups |-> p.groups, depth |-> p.depth] : p \in report}

\* "The order the walk reached files in" decides nothing (extract.rs, supersedes
\* and merged_groups): a tree walked in full gives one report however it is
\* listed, and a shrinkwrap outranks the lockfile beside it.
OrderFree ==
    Done /\ todo = {} =>
        /\ View(packages) = View(Reconcile(Listed(ToSet(Found)), Chains))
        /\ \A path \in DOMAIN files :
              Last(path) = "npm-shrinkwrap.json" /\ Walkable(path) /\ Parsed(path) =>
                  locks[DirOf(path)].path = path

\* A file read under two spellings of its path is reported twice: "includes can
\* form a cycle" (extract.rs:218), and one through ".." is cut short only by the
\* length of a path.
OncePerFile ==
    Done => \A p, q \in packages :
        (Normal(AnchorDir(p)) = Normal(AnchorDir(q)) /\ p.key = q.key /\ p.version = q.version)
            => p = q
=============================================================================
