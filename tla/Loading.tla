------------------------------- MODULE Loading -------------------------------
(***************************************************************************)
(* load.rs and index.rs: how archives of advisories become one index.      *)
(* The entries of an archive are decoded by several workers, each taking   *)
(* any entry that is left; what is kept goes into one list; and the index  *)
(* lays that list out by package, a counting pass and a placing pass, the  *)
(* packages in whatever order a hash map gives them.                       *)
(*                                                                         *)
(* A package is <<ecosystem, name>>.  An entry is one file of the zip: one *)
(* that cannot be opened, is not JSON, is torn, is malformed, or holds a   *)
(* record.  Ranges has what a record says of versions.                     *)
(***************************************************************************)
EXTENDS Naturals, Sequences, FiniteSets, Functions

CONSTANTS
    Libraries,   \* the lists of archives load() may be given
    Packages,    \* what records speak of
    Unnamed      \* an empty package name

\* One without an id is as good as withdrawn.
Record == [withdrawn : BOOLEAN, affected : Seq(Packages)]
Entry  == [kind : {"closed", "text", "torn", "malformed"}]
              \cup [kind : {"record"}, record : Record]

ASSUME LoadingAssumption ==
    \A library \in Libraries :
        /\ library \in Seq(Range(library))
        /\ \A a \in DOMAIN library :
             /\ library[a].opens \in BOOLEAN
             /\ library[a].entries \in Seq(Entry)

\* The entries of `affected` that are kept, each at its place in the record.
Kept(record, ecosystem) ==
    Restrict(record.affected,
             {m \in DOMAIN record.affected :
                 /\ ~record.withdrawn
                 /\ record.affected[m][1] = ecosystem /\ record.affected[m][2] # Unnamed})

VARIABLES
    archives,     \* [ecosystem, opens, entries : Seq(entry)] each
    nth,          \* the archive being read
    finished,     \* its entries that are decoded, in the order they were
    taken,        \* how many results of those are gone through
    out,          \* what they hold: [source, affected] each
    advisories,   \* Index.advisories, likewise
    ecosystems,
    slots,        \* Index.by_package: per package laid out, its postings
    cursor,       \* where the next package's begin
    postings,
    placed,       \* advisories placed, and the last mention placed of the next
    mention,
    loading       \* "archives", then "slots", "postings" and "ready"; or "failed"

readingArchives == <<archives, nth, finished, taken, out, advisories, ecosystems>>
building   == <<slots, cursor, postings, placed, mention>>
loadVars   == <<readingArchives, building, loading>>

Unread ==
    /\ nth = 1 /\ finished = <<>> /\ taken = 0 /\ out = <<>>
    /\ advisories = <<>> /\ ecosystems = <<>>
    /\ slots = <<>> /\ cursor = 0 /\ postings = <<>> /\ placed = 0 /\ mention = 0
    /\ loading = "archives"

LoadInit == archives \in Libraries /\ Unread

-----------------------------------------------------------------------------
(* load()                                                                  *)

Opened == archives[nth]
Is(kinds) == {i \in DOMAIN Opened.entries : Opened.entries[i].kind \in kinds}

\* Mutant: results are taken as the workers hand them in.
CollectedAsDecoded == finished

\* collect() on a parallel iterator keeps the order of the archive.
Collected == [i \in DOMAIN Opened.entries |-> i]

Decodes ==
    /\ loading = "archives" /\ nth <= Len(archives) /\ Opened.opens
    /\ \E i \in DOMAIN Opened.entries \ Range(finished) : finished' = Append(finished, i)
    /\ UNCHANGED <<archives, nth, taken, out, advisories, ecosystems, building, loading>>

\* What is kept of the record that an entry holds.
Mentions(i) == Kept(Opened.entries[i].record, Opened.ecosystem)

\* What decode() makes of an entry: nothing, or an advisory of this ecosystem.
Indexed(i) == Opened.entries[i].kind = "record" /\ DOMAIN Mentions(i) # {}

\* The next result, once all are there.
Takes ==
    /\ loading = "archives" /\ nth <= Len(archives) /\ Opened.opens
    /\ Len(finished) = Len(Opened.entries) /\ taken < Len(finished)
    /\ LET i == Collected[taken + 1] IN
       out' = IF Indexed(i) THEN Append(out, [source |-> <<nth, i>>, affected |-> Mentions(i)])
              ELSE out
    /\ taken' = taken + 1
    /\ UNCHANGED <<archives, nth, finished, advisories, ecosystems, building, loading>>

\* Nothing decodes: a truncated download.  An entry that cannot be opened, or
\* is not JSON, is not counted.
Corrupt ==
    LET counted == Is({"torn", "malformed", "record"}) IN
    counted # {} /\ counted = Is({"torn", "malformed"})

Extend ==
    /\ loading = "archives" /\ nth <= Len(archives)
    /\ \/ /\ ~Opened.opens \/ (taken = Len(Opened.entries) /\ Corrupt)
          /\ loading' = "failed"
          /\ UNCHANGED readingArchives
       \/ /\ Opened.opens /\ taken = Len(Opened.entries) /\ ~Corrupt
          /\ advisories' = advisories \o out
          /\ ecosystems' = Append(ecosystems, Opened.ecosystem)
          /\ nth' = nth + 1 /\ finished' = <<>> /\ taken' = 0 /\ out' = <<>>
          /\ UNCHANGED <<archives, loading>>
    /\ UNCHANGED building

-----------------------------------------------------------------------------
(* Index::build                                                            *)

\* Every mention of a package, by advisory and place.
AllMentions == UNION {{i} \X DOMAIN advisories[i].affected : i \in DOMAIN advisories}
KeyOf(m) == advisories[m[1]].affected[m[2]]
Named == {KeyOf(m) : m \in AllMentions}

\* What the counting pass counts for a package.
Count(key) == Cardinality({m \in AllMentions : KeyOf(m) = key})

Counts ==
    /\ loading = "archives" /\ nth > Len(archives)
    /\ loading' = "slots"
    /\ UNCHANGED <<readingArchives, building>>

\* The next package of the hash map, whichever that is.
Lays ==
    /\ loading = "slots"
    /\ \/ \E key \in Named \ DOMAIN slots :
             /\ slots' = [k \in DOMAIN slots \cup {key} |->
                            IF k = key THEN [start |-> cursor, len |-> 0] ELSE slots[k]]
             /\ cursor' = cursor + Count(key)
             /\ UNCHANGED <<postings, loading>>
       \/ /\ Named = DOMAIN slots
          /\ postings' = [p \in 1..cursor |-> 1]
          /\ loading' = "postings"
          /\ UNCHANGED <<slots, cursor>>
    /\ UNCHANGED <<readingArchives, placed, mention>>

\* Mentions that the next advisory has left.
Unplaced == {m \in DOMAIN advisories[placed + 1].affected : m > mention}

\* One mention: the advisory goes where its package's postings end.
Places ==
    /\ loading = "postings" /\ placed < Len(advisories)
    /\ IF Unplaced = {}
       THEN /\ placed' = placed + 1 /\ mention' = 0
            /\ UNCHANGED <<slots, postings>>
       ELSE \E m \in Unplaced :
              LET key == KeyOf(<<placed + 1, m>>) IN
              /\ \A later \in Unplaced : m <= later
              /\ postings' = [postings EXCEPT ![slots[key].start + slots[key].len + 1] = placed + 1]
              /\ slots' = [slots EXCEPT ![key].len = @ + 1]
              /\ mention' = m
              /\ UNCHANGED placed
    /\ UNCHANGED <<readingArchives, cursor, loading>>

Built ==
    /\ loading = "postings" /\ placed = Len(advisories)
    /\ loading' = "ready"
    /\ UNCHANGED <<readingArchives, building>>

LoadNext == Decodes \/ Takes \/ Extend \/ Counts \/ Lays \/ Places \/ Built

LoadSpec == LoadInit /\ [][LoadNext]_loadVars

\* Index::lookup: the advisories, by their sources.
Posted(key) ==
    IF key \notin DOMAIN slots THEN <<>>
    ELSE [p \in 1..slots[key].len |-> advisories[postings[slots[key].start + p]].source]

-----------------------------------------------------------------------------
(* What an index promises, from the archives alone.                        *)

Recorded(a) == {i \in DOMAIN archives[a].entries : archives[a].entries[i].kind = "record"}

\* The advisories that name a package and are kept.
Naming(key) ==
    UNION {{<<a, i>> : i \in {j \in Recorded(a) :
              key \in Range(Kept(archives[a].entries[j].record, archives[a].ecosystem))}} :
           a \in DOMAIN archives}

Mentioned ==
    UNION {UNION {Range(archives[a].entries[i].record.affected) : i \in Recorded(a)} :
           a \in DOMAIN archives}

ArchiveOrder(s, t) == s[1] < t[1] \/ (s[1] = t[1] /\ s[2] <= t[2])

\* "Every advisory that names this package, in archive order" (index.rs, lookup):
\* whichever worker decodes which entry when, and however the packages are laid
\* out, a lookup finds the advisories of its package, none of another's, and none
\* that is withdrawn; a damaged entry costs no other.
LookupExact ==
    loading = "ready" => \A key \in Mentioned :
        LET found == Posted(key) IN
        /\ Range(found) = Naming(key)
        /\ \A p, q \in DOMAIN found : p < q => ArchiveOrder(found[p], found[q])

\* "Every advisory that applies" (model.rs:506, Finding.advisories): one is
\* one, however many entries of its `affected` are about the package.  Fails:
\* a record usually has an entry per release line, and build() posts each.
CountedOnce ==
    loading = "ready" => \A key \in Mentioned : IsInjective(Posted(key))
=============================================================================
