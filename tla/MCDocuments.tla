---------------------------- MODULE MCDocuments ----------------------------
(* Workspaces for Documents: four that are edited while they are scanned,  *)
(* the others scanned once, the walk taking their files in every order.    *)
EXTENDS Documents

Npm(section, name, v) == [section |-> section, name |-> name, version |-> v, escaped |-> FALSE]
Req(name, v, pinned) ==
    [is |-> "requirement", name |-> name, version |-> v, pinned |-> pinned, joined |-> FALSE]
Inc(target) == [is |-> "include", target |-> target]
Crate(section, name, v) == [section |-> section, name |-> name, version |-> v, bare |-> TRUE]
Needs(section, name, v) == [section |-> section, name |-> name, version |-> v, bare |-> FALSE]
Pinned(name, v) == [name |-> name, version |-> v]
Go(is, name, v) == [is |-> is, name |-> name, version |-> v]
Replace(name, old, new, v) ==
    [is |-> "replace", name |-> name, old |-> old, new |-> new, version |-> v]
Entry(key, v, runtime) ==
    [key |-> key, name |-> NoName, version |-> v, runtime |-> runtime, dev |-> <<>>,
     peer |-> <<>>, link |-> NoLink, flags |-> {}]
Nested(under, name, v, requires) ==
    [under |-> under, name |-> name, alias |-> NoName, version |-> v, requires |-> requires,
     flags |-> {}]
At1(name) == <<Modules, name>>
At2(above, name) == <<Modules, above, Modules, name>>
Lock3(entries) == [packages |-> entries, dependencies |-> <<>>]
Lock1(entries) == [packages |-> <<>>, dependencies |-> entries]
Scanned(tree, exclude, cap) ==
    [files |-> tree, texts |-> <<>>, exclude |-> exclude, max_files |-> cap]
Edited(tree, texts) == [files |-> tree, texts |-> texts, exclude |-> {}, max_files |-> 9]

\* a and b under the root's lockfile, c with two of its own.
NpmWorkspace == Scanned(
    (<<"package.json">> :> <<Npm("dependencies", "x", 1)>>)
    @@ (<<"package-lock.json">> :> Lock3(<<
         Entry(<<>>, NoVersion, <<"x">>),
         [Entry(<<"a">>, NoVersion, <<"x", "y">>) EXCEPT !.dev = <<"t">>],
         [Entry(At1("a"), NoVersion, <<>>) EXCEPT !.link = <<"a">>],
         Entry(At1("x"), 2, <<"y", "a">>),
         [Entry(At2("x", "y"), 1, <<"z">>) EXCEPT !.flags = {"devOptional"}],
         Entry(At1("y"), 2, <<"z">>),
         [Entry(At1("t"), 1, <<"x">>) EXCEPT !.flags = {"dev"}, !.peer = <<"p">>],
         [Entry(At2("t", "x"), 2, <<>>) EXCEPT !.flags = {"dev"}],
         [Entry(At1("p"), 1, <<>>) EXCEPT !.name = "q"],
         [Entry(At1("z"), 1, <<>>) EXCEPT !.flags = {"dev"}]>>))
    @@ (<<"a", "package.json">> :>
         <<Npm("peerDependencies", "y", 1), Npm("devDependencies", "t", 1),
           Npm("dependencies", "y", 2), Npm("dependencies", "w", NoVersion)>>)
    @@ (<<"c", "package.json">> :> <<Npm("dependencies", "x", 1), Npm("devDependencies", "y", 1)>>)
    @@ (<<"c", "package-lock.json">> :>
         Lock1(<<Nested(0, "x", 1, <<"y">>), Nested(1, "y", 3, <<>>)>>))
    @@ (<<"c", "npm-shrinkwrap.json">> :>
         Lock1(<<Nested(0, "x", 1, <<"y">>), [Nested(1, "y", 1, <<>>) EXCEPT !.alias = "yy"]>>))
    @@ (<<Modules, "x", "package.json">> :> <<Npm("dependencies", "u", 1)>>),
    {}, 9)

\* A root that is only a workspace, a member, and a crate of its own.
Crates == Scanned(
    (<<"Cargo.toml">> :> <<>>)
    @@ (<<"Cargo.lock">> :> <<Pinned("s", 1), Pinned("s", 2), Pinned("m", 1), Pinned("g", NoVersion)>>)
    @@ (<<"m", "Cargo.toml">> :>
         <<Crate("package", "m", 1), Crate("dev-dependencies", "s", 2), Crate("dependencies", "s", 1),
           Needs("build-dependencies", "c", NoVersion), Crate("dependencies", "g", NoVersion)>>)
    @@ (<<"own", "Cargo.toml">> :>
         <<Crate("package", "o", 1), Needs("dependencies", "s", 3), Needs("dependencies", "t", 1)>>)
    @@ (<<"own", "Cargo.lock">> :> <<Pinned("o", 1), Pinned("s", 3)>>)
    @@ (<<"skip", "Cargo.toml">> :> <<Crate("dependencies", "u", 1)>>),
    {"skip"}, 9)

\* Two lists with includes: a cycle, a file named twice, one that is walked
\* anyway, one that is not there.
Lists == Scanned(
    (<<"requirements.txt">> :>
         <<Req("x", 1, TRUE), Req("y", 1, FALSE), Inc(<<"more", "base.txt">>),
           Inc(<<"requirements-dev.txt">>)>>)
    @@ (<<"requirements-dev.txt">> :> <<Req("x", 1, TRUE), Req("y", NoVersion, FALSE)>>)
    @@ (<<"more", "base.txt">> :>
         <<Req("y", 2, TRUE), Inc(<<"base.txt">>), Inc(<<"..", "more", "gone.txt">>)>>)
    @@ (<<"more", "requirements.txt">> :>
         <<Req("x", 2, FALSE), Req("y", 1, FALSE), Inc(<<"base.txt">>), Inc(<<"..", "up.txt">>)>>)
    @@ (<<"up.txt">> :> <<Req("z", 1, TRUE), Inc(<<"more", "..", "up.txt">>)>>),
    {}, 9)

\* What go.mod states, one that cannot be read, and more files than the cap.
Modular == Scanned(
    (<<"go.mod">> :>
         <<Go("go", Toolchain, 1), Go("require", "x", 1), Go("require", "y", 1), Go("require", "z", 1),
           Go("require", "u", NoVersion), Replace("u", NoVersion, "u", 1),
           Replace("x", NoVersion, "w", 2), Replace("x", 1, "v", 3), Replace("y", 1, "y", NoVersion),
           Go("toolchain", Toolchain, 2)>>)
    @@ (<<"README.md">> :> <<>>)
    @@ (<<"vendor", "go.mod">> :> <<Go("require", "u", 1)>>)
    @@ (<<"l", "go.mod">> :> <<Go("go", Toolchain, 1), Go("require", "x", 1)>>)
    @@ (<<"l", "package.json">> :> Unreadable),
    {}, 3)

\* A list and what it includes, the list edited, or what it includes.
Py0 == <<Req("x", 1, TRUE), Req("x", 2, TRUE), Inc(<<"base.txt">>)>>
Base0 == <<Req("y", 1, TRUE)>>
PyFiles == (<<"requirements.txt">> :> Py0) @@ (<<"base.txt">> :> Base0)
PyEdited == Edited(PyFiles, <<"requirements.txt">> :>
    {Py0, <<Req("y", 2, TRUE), Req("x", 1, FALSE), Req("x", 2, TRUE)>>})
BaseEdited == Edited(PyFiles, <<"base.txt">> :> {Base0, <<Req("y", 2, TRUE)>>})

\* A manifest beside its lockfile, the manifest edited, the lockfile deleted.
Npm0 == <<Npm("dependencies", "x", 1), Npm("devDependencies", "y", 1)>>
NpmEdited == Edited(
    (<<"package.json">> :> Npm0)
    @@ (<<"package-lock.json">> :> Lock3(<<
         Entry(<<>>, NoVersion, <<"x", "y">>), Entry(At1("x"), 1, <<"y">>),
         Entry(At1("y"), 1, <<>>)>>)),
    (<<"package.json">> :>
        {<<Npm("devDependencies", "y", 1), Npm("dependencies", "x", 1)>>})
    @@ (<<"package-lock.json">> :> {}))

\* A go.mod in which a replacement can await the version that fixes x, and
\* which can be left as a text that is not read.
Go0 == <<Go("require", "x", 1)>>
GoEdited == Edited(
    <<"go.mod">> :> Go0,
    <<"go.mod">> :> {Go0, <<Go("require", "x", 1), Replace("x", 3, "x", 1)>>, Unreadable})

\* A crate without a Cargo.lock, whose requirement can get an operator.
Cargo0 == <<Crate("dependencies", "x", 1)>>
CargoEdited == Edited(
    <<"Cargo.toml">> :> Cargo0,
    <<"Cargo.toml">> :> {Cargo0, <<Needs("dependencies", "x", 1)>>})

AllProjects ==
    [npm |-> NpmWorkspace, crates |-> Crates, requirements |-> Lists, go |-> Modular,
     pyEdited |-> PyEdited, npmEdited |-> NpmEdited, goEdited |-> GoEdited,
     cargoEdited |-> CargoEdited]

Finds(eco, name, v, worst, fix, severity, malicious) ==
    [key |-> Key(eco, name), version |-> v, worst |-> worst, fix |-> fix, severity |-> severity,
     malicious |-> malicious]

\* Two versions of x under one advisory; y is malicious on PyPI, and on npm under
\* the advisory of x, with one version that fixes both.
MCKnown ==
    {Finds("PyPI", "x", v, "A", 3, "high", FALSE) : v \in {1, 2}}
    \cup {Finds("PyPI", "y", 1, "B", NoFix, "critical", TRUE),
          Finds("Go", "x", 1, "A", 3, "high", FALSE),
          Finds("npm", "x", 1, "A", 3, "high", FALSE),
          Finds("npm", "y", 1, "A", 3, "low", FALSE)}
    \cup {Finds("crates.io", "x", v, "A", 3, "high", FALSE) : v \in {1, -2, -4}}

\* As it is written by other tools only, for a run that asks what is watched.
IncludeOnly == [baseEdited |-> BaseEdited]
CargoOnly == [cargoEdited |-> CargoEdited]
=============================================================================
