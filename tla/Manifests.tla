----------------------------- MODULE Manifests ------------------------------
(***************************************************************************)
(* manifest.rs and manifest/*.rs: what each format says of a project, as   *)
(* sightings.  A file is the sequence of the statements found in it, a     *)
(* statement's line is its place in that sequence, and what a string of    *)
(* TOML, JSON or PEP 508 spells is already taken apart: a version is what  *)
(* lowest_satisfying() or specifier() made of the constraint, NoVersion    *)
(* where they made nothing of it (a protocol, a wildcard, an exclusion).   *)
(* A version is a number, as only whether two are the same is asked here.  *)
(***************************************************************************)
EXTENDS Integers, Sequences, FiniteSets, SequencesExt

NoVersion == 0
NoSite    == <<>>
Toolchain == "stdlib"   \* GO_TOOLCHAIN

Key(eco, name) == [eco |-> eco, name |-> name]

\* sighting(): a dependency and where a file says so.  depth is the length of
\* its shortest chain, 0 when direct; editable says whether with_version_span()
\* recorded where the version is written.
Sighted(key, version, path, line, groups, ranged, editable) ==
    [key |-> key, version |-> version, evidence |-> <<path, line>>, declared |-> NoSite,
     groups |-> groups, from_range |-> ranged, depth |-> 0, editable |-> editable]

\* A sequence, of whatever.
IsSeq(s) == s \in Seq(Range(s))

\* A function that gives v for x, and what it gave for the rest.
With(f, x, v) == [y \in DOMAIN f \cup {x} |-> IF y = x THEN v ELSE f[y]]

\* The statements of a file, with their lines.
Numbered(file) == [i \in DOMAIN file |-> With(file[i], "line", i)] \o <<>>

\* The members of a set, in an order that does not matter.
WithAnother(seq, S) == Append(seq, CHOOSE x \in S \ ToSet(seq) : TRUE)
Listed(S) ==
    LET listed[n \in 0..Cardinality(S)] ==
            IF n = 0 THEN <<>> ELSE WithAnother(listed[n - 1], S)
    IN listed[Cardinality(S)]

\* What stands at some of the places of a sequence, in its order.
Picked(found, places) ==
    LET picked[n \in 0..Len(found)] ==
            IF n = 0 THEN <<>>
            ELSE IF n \in places THEN Append(picked[n - 1], found[n]) ELSE picked[n - 1]
    IN picked[Len(found)]

Where(found, test(_)) == Picked(found, {i \in DOMAIN found : test(found[i])})

\* Keeps the first of those that are the same.
FirstOf(found, same(_, _)) ==
    Picked(found, {i \in DOMAIN found : \A j \in 1..i - 1 : ~same(found[j], found[i])})

FirstPerName(found) == FirstOf(found, LAMBDA a, b : a.key = b.key)

\* The statements of the given sections, in the order of the sections.
InSections(sections, file) ==
    FlattenSeq([s \in DOMAIN sections |->
        Where(Numbered(file), LAMBDA d : d.section = sections[s])])

\* (\o has TLC build the sequence once, instead of at every use.)
Sightings(found, Sees(_)) == [i \in DOMAIN found |-> Sees(found[i])] \o <<>>
Versioned(found) == Where(found, LAMBDA d : d.version # NoVersion)

-----------------------------------------------------------------------------
(* package.json                                                            *)

\* A package in dependencies and devDependencies ships.
NpmSections == <<"dependencies", "optionalDependencies", "peerDependencies",
                 "devDependencies">>
NpmGroups(section) ==
    CASE section = "dependencies"         -> {}
      [] section = "optionalDependencies" -> {"optional"}
      [] section = "peerDependencies"     -> {"peer"}
      [] section = "devDependencies"      -> {"dev"}

Declared(file) == InSections(NpmSections, file)

PackageJson(file, path) ==
    FirstPerName(Sightings(Versioned(Declared(file)), LAMBDA d :
        Sighted(Key("npm", d.name), d.version, path, d.line, NpmGroups(d.section),
                TRUE, ~d.escaped)))

\* What the graph starts from: names no version can be read from stay.
Declarations(file, path) ==
    FirstOf(Sightings(Declared(file), LAMBDA d :
                [name |-> d.name, site |-> <<path, d.line>>]),
            LAMBDA a, b : a.name = b.name)

-----------------------------------------------------------------------------
(* go.mod                                                                  *)

Directives(file, is) == Where(Numbered(file), LAMBDA d : d.is = is)

\* The build uses the first replacement that names the module; one by path has
\* no version and drops it.  Only the version the module itself states can be
\* rewritten.
Replaced(file, r) ==
    LET of == Where(Directives(file, "replace"), LAMBDA p :
                 p.name = r.name /\ p.old \in {NoVersion, r.version})
    IN IF of = <<>> THEN With(r, "editable", TRUE)
       ELSE [name |-> of[1].new, version |-> of[1].version, line |-> r.line,
             editable |-> FALSE]

\* `go` is a minimum, `toolchain` the toolchain; of either the last one counts.
GoToolchain(file) ==
    LET said == Directives(file, "toolchain")
        least == Directives(file, "go")
    IN IF said # <<>> THEN <<Last(said)>> ELSE IF least # <<>> THEN <<Last(least)>> ELSE <<>>

GoMod(file, path) ==
    LET Sees(r) == Sighted(Key("Go", r.name), r.version, path, r.line, {}, FALSE, r.editable)
        required == Sightings(Versioned(Directives(file, "require")), LAMBDA r : Replaced(file, r))
    IN Sightings(Versioned(required), Sees)
           \o Sightings(GoToolchain(file), LAMBDA t :
                  Sees([name |-> Toolchain, version |-> t.version, line |-> t.line,
                        editable |-> TRUE]))

-----------------------------------------------------------------------------
(* Cargo.toml, Cargo.lock                                                  *)

CargoSections == <<"dependencies", "build-dependencies", "dev-dependencies">>
CargoGroups(section) ==
    CASE section = "dependencies"       -> {}
      [] section = "build-dependencies" -> {"build"}
      [] section = "dev-dependencies"   -> {"dev"}

\* What is reported is the requirement as it is written, and only the number in
\* it can be rewritten.  It is a version where it is bare, the number alone.  Any
\* other is told apart from every version by being below zero here: one for each
\* number that stands in it, and one for those with none.  (A table without a
\* version is a path or git dependency, and no requirement at all.)
Requirement(d) == IF d.bare THEN d.version ELSE -(d.version + 1)

CargoToml(file, path) ==
    LET stated == Sightings(InSections(CargoSections, file), LAMBDA d :
            [name |-> d.name, version |-> Requirement(d), line |-> d.line, section |-> d.section,
             editable |-> d.version # NoVersion])
    IN FirstPerName(Sightings(Versioned(stated), LAMBDA d :
           Sighted(Key("crates.io", d.name), d.version, path, d.line,
                   CargoGroups(d.section), TRUE, d.editable)))

\* The name under [package]; a workspace root has none.
CargoSelf(file) == {d.name : d \in ToSet(Where(file, LAMBDA d : d.section = "package"))}

\* A [[package]] that lacks its name or version when the next one opens is not
\* reported; nothing marks the local crates.
CargoLock(file, path) ==
    Sightings(Versioned(Numbered(file)), LAMBDA p :
        Sighted(Key("crates.io", p.name), p.version, path, p.line, {}, FALSE, FALSE))

-----------------------------------------------------------------------------
(* requirements.txt                                                        *)

Requires(file) == Where(Numbered(file), LAMBDA d : d.is = "requirement")

\* Only == and === name what is installed.  A requirement continued over lines
\* is not rewritten.
Requirements(file, path) ==
    Sightings(Versioned(Requires(file)), LAMBDA d :
        Sighted(Key("PyPI", d.name), d.version, path, d.line, {}, ~d.pinned, ~d.joined))

RequirementIncludes(file) ==
    Sightings(Where(file, LAMBDA d : d.is = "include"), LAMBDA d : d.target)
=============================================================================
