------------------------------ MODULE Versions ------------------------------
(***************************************************************************)
(* version.rs, semver_like.rs and pypi.rs: how two versions compare.       *)
(* matcher.rs sorts fixes with compare() and drops those that are equal,   *)
(* and asks it where a range begins and ends; all of that takes for        *)
(* granted that versions stand in one line.                                *)
(*                                                                         *)
(* A text is what the scanner of its grammar finds in the string: numbers  *)
(* are exact at any length, and a word is its place in ASCII order, 0      *)
(* being the empty one.  A PyPI version that PEP 440 rejects is the place  *)
(* of what legacy_parts() makes of it.                                     *)
(***************************************************************************)
EXTENDS Integers, Sequences

CONSTANTS
    Grammars,    \* Ecosystem, as Version::parse tells them apart
    Semvers,     \* texts of npm, Go and crates.io
    PyPIs

Absent == -1     \* None, where a number may be
Ordering == {-1, 0, 1}

Identifier == [kind : {"number"}, negative : BOOLEAN, n : Nat]
                  \cup [kind : {"word"}, negative : {FALSE}, n : Nat]
Word(n)   == [kind |-> "word", negative |-> FALSE, n |-> n]
Number(n) == [kind |-> "number", negative |-> FALSE, n |-> n]

\* What precedes the first byte that is neither digit nor dot, what is between
\* that (or a hyphen) and a "+", and whether there is a "+".  <<Word(0)>> is
\* nothing.
SemverText == [numbers : Seq(Nat), tail : Seq(Identifier) \ {<<>>}, metadata : BOOLEAN]

Unmarked == [letter |-> "", number |-> Absent]
Marked(letters) == [letter : letters, number : Nat \cup {Absent}]

\* The groups of PEP440, and legacy where it does not match.
PyPIText ==
    [legacy : Nat, epoch : Nat \cup {Absent}, release : Seq(Nat),
     pre : {Unmarked} \cup Marked({"a", "alpha", "b", "beta", "c", "rc", "pre", "preview"}),
     post : Marked({"", "post", "rev", "r"}),
     dev : {Unmarked} \cup Marked({"dev"}),
     local : Seq(Identifier)]

ASSUME VersionsAssumption ==
    /\ Grammars \subseteq {"semver", "pypi"}
    /\ Semvers \subseteq SemverText
    /\ PyPIs \subseteq PyPIText

VARIABLES
    grammar,
    text,      \* three versions as they are written
    parsed     \* those parsed so far

versionVars == <<grammar, text, parsed>>

-----------------------------------------------------------------------------
(* Version::parse                                                          *)

Components(t) == [i \in 1..3 |-> IF i <= Len(t.numbers) THEN t.numbers[i] ELSE 0]

\* What is past the third component is written after the build string, and
\* goes with it where that is only metadata.
Build(t) ==
    IF t.metadata THEN t.tail
    ELSE t.tail \o [i \in 1..Len(t.numbers) - 3 |-> Number(t.numbers[i + 3])]

ParseSemver(t) == [components |-> Components(t), build |-> Build(t)]

Spelling == [alpha |-> "a", beta |-> "b", c |-> "rc", pre |-> "rc", preview |-> "rc",
             rev |-> "post", r |-> "post"]

\* letter_version: a letter without a number counts as zero, a number without
\* a letter is a post-release.
LetterVersion(m) ==
    IF m.letter # ""
    THEN [letter |-> IF m.letter \in DOMAIN Spelling THEN Spelling[m.letter] ELSE m.letter,
          number |-> IF m.number = Absent THEN 0 ELSE m.number]
    ELSE [letter |-> IF m.number = Absent THEN "" ELSE "post", number |-> m.number]

ParsePyPI(t) ==
    IF t.legacy # 0
    THEN [legacy |-> t.legacy, epoch |-> 0, release |-> <<>>, pre |-> Unmarked,
          post |-> Unmarked, dev |-> Unmarked, local |-> <<>>]
    ELSE [t EXCEPT !.epoch = IF t.epoch = Absent THEN 0 ELSE t.epoch,
                   !.pre = LetterVersion(t.pre),
                   !.post = LetterVersion(t.post),
                   !.dev = LetterVersion(t.dev)]

-----------------------------------------------------------------------------
(* Version::compare                                                        *)

Cmp(x, y) == IF x < y THEN -1 ELSE IF x = y THEN 0 ELSE 1

Decides(d, i, result) == d[i] = result /\ \A j \in 1..i - 1 : d[j] = 0

\* `then_with`, and the loops that return the first difference.
FirstDifference(d) ==
    IF \E i \in DOMAIN d : Decides(d, i, -1) THEN -1
    ELSE IF \E i \in DOMAIN d : Decides(d, i, 1) THEN 1 ELSE 0

Longest(a, b) == IF Len(a) < Len(b) THEN Len(b) ELSE Len(a)

Sign(id)  == IF id.negative THEN 0 ELSE 1
Value(id) == IF id.negative THEN -id.n ELSE id.n

\* Numbers by value, below words; "-0" is below "0".
CompareIdentifier(a, b) ==
    IF a.kind # b.kind THEN IF a.kind = "number" THEN -1 ELSE 1
    ELSE IF a.kind = "word" THEN Cmp(a.n, b.n)
    ELSE FirstDifference(<<Cmp(Sign(a), Sign(b)), Cmp(Value(a), Value(b))>>)

\* One of the two may have run out of identifiers.
IdentifierAt(a, b, i) ==
    IF i \in DOMAIN a /\ i \in DOMAIN b THEN CompareIdentifier(a[i], b[i])
    ELSE Cmp(Len(a), Len(b))

Nothing == <<Word(0)>>

\* A version with a prerelease is lower than one without.
CompareBuild(a, b) ==
    IF a = Nothing /\ b # Nothing THEN 1
    ELSE IF a # Nothing /\ b = Nothing THEN -1
    ELSE FirstDifference([i \in 1..Longest(a, b) |-> IdentifierAt(a, b, i)])

CompareSemver(a, b) ==
    FirstDifference(<<Cmp(a.components[1], b.components[1]), Cmp(a.components[2], b.components[2]),
            Cmp(a.components[3], b.components[3]), CompareBuild(a.build, b.build)>>)

\* A version that predates PEP 440 is below every other.
CompareLegacy(a, b) ==
    IF a.legacy = 0 /\ b.legacy # 0 THEN 1
    ELSE IF a.legacy # 0 /\ b.legacy = 0 THEN -1
    ELSE Cmp(a.legacy, b.legacy)

Padded(release, i) == IF i \in DOMAIN release THEN release[i] ELSE 0

CompareRelease(a, b) ==
    FirstDifference([i \in 1..Longest(a, b) |-> Cmp(Padded(a, i), Padded(b, i))])

\* Mutant: the development release of a post-release counts as well.
AppliesPreTrickToPosts(v) == v.pre.number = Absent /\ v.dev.number # Absent

\* should_apply_pre_trick: 1.0.dev0 comes before 1.0a0.
AppliesPreTrick(v) ==
    v.pre.number = Absent /\ v.post.number = Absent /\ v.dev.number # Absent

FirstByte == [a |-> 97, b |-> 98, rc |-> 114]

ComparePhase(a, b) ==
    FirstDifference(<<Cmp(FirstByte[a.letter], FirstByte[b.letter]), Cmp(a.number, b.number)>>)

\* Mutant: only one side is asked for the trick.
ComparePreOneSided(a, b) ==
    IF AppliesPreTrick(a) THEN -1
    ELSE IF a.pre.number = Absent /\ b.pre.number = Absent THEN 0
    ELSE IF a.pre.number = Absent THEN 1
    ELSE IF b.pre.number = Absent THEN -1
    ELSE ComparePhase(a.pre, b.pre)

\* A version without a prerelease comes after one with it.
ComparePre(a, b) ==
    IF AppliesPreTrick(a) /\ AppliesPreTrick(b) THEN 0
    ELSE IF AppliesPreTrick(a) THEN -1
    ELSE IF AppliesPreTrick(b) THEN 1
    ELSE IF a.pre.number = Absent /\ b.pre.number = Absent THEN 0
    ELSE IF a.pre.number = Absent THEN 1
    ELSE IF b.pre.number = Absent THEN -1
    ELSE ComparePhase(a.pre, b.pre)

\* Absent is below every number.
ComparePost(a, b) == Cmp(a.post.number, b.post.number)

\* A development release comes before the release it leads to.
CompareDev(a, b) ==
    IF a.dev.number = Absent /\ b.dev.number # Absent THEN 1
    ELSE IF a.dev.number # Absent /\ b.dev.number = Absent THEN -1
    ELSE Cmp(a.dev.number, b.dev.number)

\* In a local version numbers are above words.
LocalAt(a, b, i) ==
    IF i \in DOMAIN a /\ i \in DOMAIN b
    THEN IF a[i].kind = b[i].kind THEN Cmp(a[i].n, b[i].n)
         ELSE IF a[i].kind = "number" THEN 1 ELSE -1
    ELSE Cmp(Len(a), Len(b))

CompareLocal(a, b) == FirstDifference([i \in 1..Longest(a, b) |-> LocalAt(a, b, i)])

ComparePyPI(a, b) ==
    FirstDifference(<<CompareLegacy(a, b), Cmp(a.epoch, b.epoch), CompareRelease(a.release, b.release),
            ComparePre(a, b), ComparePost(a, b), CompareDev(a, b),
            CompareLocal(a.local, b.local)>>)

\* Versions of two grammars are never compared: an index is asked by ecosystem.
Compare(a, b) == IF grammar = "semver" THEN CompareSemver(a, b) ELSE ComparePyPI(a, b)

-----------------------------------------------------------------------------

VersionsInit ==
    /\ grammar \in Grammars
    /\ text \in [1..3 -> IF grammar = "semver" THEN Semvers ELSE PyPIs]
    /\ parsed = <<>>

ParsesSemver ==
    /\ grammar = "semver"
    /\ Len(parsed) < 3
    /\ parsed' = Append(parsed, ParseSemver(text[Len(parsed) + 1]))
    /\ UNCHANGED <<grammar, text>>

ParsesPyPI ==
    /\ grammar = "pypi"
    /\ Len(parsed) < 3
    /\ parsed' = Append(parsed, ParsePyPI(text[Len(parsed) + 1]))
    /\ UNCHANGED <<grammar, text>>

VersionsNext == ParsesSemver \/ ParsesPyPI

VersionsSpec == VersionsInit /\ [][VersionsNext]_versionVars

-----------------------------------------------------------------------------
(* Properties.                                                             *)

\* What three comparisons of one order can be: x of the first with the second,
\* y of the second with the third, z of the first with the third.
Coherent(x, y, z) ==
    /\ x <= 0 /\ y <= 0 => z <= 0 /\ (z = 0 => x = 0 /\ y = 0)
    /\ x >= 0 /\ y >= 0 => z >= 0 /\ (z = 0 => x = 0 /\ y = 0)

\* "An intransitive relation, and sort_by panics on one" (version.rs, compare):
\* of any three versions of one ecosystem, each two compare the same way from
\* either side, and the three answers fit one order.
OrderIsTotal ==
    \A i, j, k \in DOMAIN parsed :
        LET a == parsed[i]  b == parsed[j]  c == parsed[k] IN
        /\ Compare(a, b) = -Compare(b, a)
        /\ Coherent(Compare(a, b), Compare(b, c), Compare(a, c))

\* What the standards sort by, read off the text: lists of integers, compared
\* one after the other.  Two per identifier, its kind and its place.
Flattened(ids, above) ==
    [i \in 1..2 * Len(ids) |->
        LET id == ids[(i + 1) \div 2] IN
        IF i % 2 = 0 THEN id.n ELSE IF id.kind = above THEN 1 ELSE 0]

\* Semantic Versioning 2.0.0, item 11.
SemverKey(t) ==
    <<t.numbers, IF t.tail = Nothing THEN <<1>> ELSE <<0>>, Flattened(t.tail, "word")>>

Given(m) == IF m.number = Absent THEN 0 ELSE m.number
IsMarked(m) == m.letter # "" \/ m.number # Absent

WithoutTrailingZeros(release) ==
    [i \in {j \in DOMAIN release : \E k \in j..Len(release) : release[k] # 0} |-> release[i]]

Phase(letter) == IF letter \in {"a", "alpha"} THEN 1 ELSE IF letter \in {"b", "beta"} THEN 2 ELSE 3

PreKey(t) ==
    IF IsMarked(t.pre) THEN <<Phase(t.pre.letter), Given(t.pre)>>
    ELSE IF IsMarked(t.dev) /\ ~IsMarked(t.post) THEN <<0>> ELSE <<4>>

\* PEP 440, "Summary of permitted suffixes and relative ordering".
PyPIKey(t) ==
    <<<<IF t.epoch = Absent THEN 0 ELSE t.epoch>>, WithoutTrailingZeros(t.release), PreKey(t),
      IF IsMarked(t.post) THEN <<Given(t.post)>> ELSE <<>>,
      IF IsMarked(t.dev) THEN <<0, Given(t.dev)>> ELSE <<1>>,
      Flattened(t.local, "number")>>

ListBefore(s, t) ==
    \E i \in DOMAIN t :
        /\ \A j \in 1..i - 1 : j \in DOMAIN s /\ s[j] = t[j]
        /\ i \in DOMAIN s => s[i] < t[i]

Before(k, l) ==
    \E i \in DOMAIN k : ListBefore(k[i], l[i]) /\ \A j \in 1..i - 1 : k[j] = l[j]

\* Texts the standards speak of: three numbers, no empty or signed identifier.
Standard(t) ==
    IF grammar = "pypi" THEN t.legacy = 0
    ELSE /\ Len(t.numbers) = 3
         /\ t.tail = Nothing \/ \A i \in DOMAIN t.tail :
                                   t.tail[i] # Word(0) /\ ~t.tail[i].negative

Key(t) == IF grammar = "semver" THEN SemverKey(t) ELSE PyPIKey(t)

\* "PEP 440 plus a setuptools-era legacy fallback" (version.rs), and semantic
\* versions that are only "like" ones: where a version is one the standard
\* allows, it compares as the standard says, build metadata apart.
AgreesWithStandard ==
    \A i, j \in DOMAIN parsed :
        Standard(text[i]) /\ Standard(text[j]) =>
            /\ Compare(parsed[i], parsed[j]) = -1 <=> Before(Key(text[i]), Key(text[j]))
            /\ Compare(parsed[i], parsed[j]) = 0 <=> Key(text[i]) = Key(text[j])
=============================================================================
