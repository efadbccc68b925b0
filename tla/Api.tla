-------------------------------- MODULE Api ---------------------------------
(***************************************************************************)
(* ApiSource of api.rs for one ecosystem: which packages a scan asks       *)
(* osv.dev about, what it remembers of the answers and for how long, and   *)
(* the advisory records it keeps on disk.                                  *)
(*                                                                         *)
(* Overlapping scans read, change and write the same cache file without a  *)
(* lock, with network waits in between, while osv.dev publishes new        *)
(* advisories and revises old ones.  An advisory's content is the set of   *)
(* versions it affects.  Both files are replaced by rename: a write is one *)
(* step, and a file that does not parse is left out.                       *)
(***************************************************************************)
EXTENDS Naturals

CONSTANTS
    Names, Versions,
    Private,        \* names config.may_send refuses
    Ids,            \* advisories that may be published
    Contents,       \* what an advisory can say: the versions it affects
    AboutName,      \* the package each one is about
    Projects,       \* sets of packages a workspace can resolve to
    Scans,          \* scans that can be running at once
    Ttl,            \* online.ttl_hours
    MaxTime,        \* bound: the clock stops there
    MaxFaults       \* bound: requests and writes that fail, answers that are cut
                    \* short or garbled, and advisories revised after publication

Packages == Names \X Versions

ASSUME ApiAssumption ==
    /\ Private \subseteq Names
    /\ AboutName \in [Ids -> Names]
    /\ Contents \subseteq SUBSET Versions
    /\ Projects \subseteq SUBSET Packages
    /\ Ttl \in Nat /\ MaxTime \in Nat \ {0}
    /\ MaxFaults \in Nat

\* Times count from 1; Never stands for no entry.
Never == 0
Time  == Never..MaxTime

\* Affected: a package's complete advisory set, and when it was asked for.
Affected == [ids : SUBSET Ids, fetched_at : Time]
NoEntry  == [ids |-> {}, fetched_at |-> Never]
Cache    == [affected : [Names -> Affected], clean : [Packages -> Time]]
NoCache  == [affected |-> [n \in Names |-> NoEntry], clean |-> [p \in Packages |-> Never]]

\* A record file: what its advisory said when it was downloaded, unless what
\* was stored does not parse.
NoRecord == [there |-> FALSE, parses |-> FALSE, affects |-> {}]
Record   == [there : BOOLEAN, parses : BOOLEAN, affects : SUBSET Versions]

VARIABLES
    time,
    published,   \* advisories osv.dev has
    content,     \* what each of them says now
    file,        \* the cache file
    records,     \* the record files
    scan         \* the scans inside online()

\* Bounds and history.
VARIABLES
    faults,
    since,       \* when each advisory began to affect each version, Never if not
    cut,         \* names some remembered answer was cut short for
    lostRecords  \* advisories whose record did not arrive, or not whole, once

osvVars    == <<time, published, content, since>>
diskVars   == <<file, records>>
answerVars == <<faults, cut, lostRecords>>
vars == <<osvVars, diskVars, scan, answerVars>>

\* Where a scan is, named for what it does next.
Steps == {"idle", "versioned", "unversioned", "records", "write", "match"}

ScanState == [step : Steps, packages : SUBSET Packages, now : Time, cache : Cache,
              ask : SUBSET Packages, affected : SUBSET Names, partial : SUBSET Names,
              missing : SUBSET Ids, ids : SUBSET Ids]
Idle == [step |-> "idle", packages |-> {}, now |-> Never, cache |-> NoCache, ask |-> {},
         affected |-> {}, partial |-> {}, missing |-> {}, ids |-> {}]

TypeOK ==
    /\ time \in Time
    /\ published \subseteq Ids
    /\ content \in [Ids -> SUBSET Versions]
    /\ file \in Cache
    /\ records \in [Ids -> Record]
    /\ scan \in [Scans -> ScanState]
    /\ faults \in Nat
    /\ since \in [Ids -> [Versions -> Time]]
    /\ cut \subseteq Names /\ lostRecords \subseteq Ids

Init ==
    /\ time = 1
    /\ published = {}
    /\ content = [i \in Ids |-> {}]
    /\ file = NoCache
    /\ records = [i \in Ids |-> NoRecord]
    /\ scan = [s \in Scans |-> Idle]
    /\ faults = 0
    /\ since = [i \in Ids |-> [v \in Versions |-> Never]]
    /\ cut = {} /\ lostRecords = {}

-----------------------------------------------------------------------------
(* osv.dev and the clock.                                                  *)

Tick ==
    /\ time < MaxTime
    /\ time' = time + 1
    /\ UNCHANGED <<published, content, since, diskVars, scan, answerVars>>

\* What advisory i says from now on.
Says(i, affects) ==
    /\ content' = [content EXCEPT ![i] = affects]
    /\ since' = [since EXCEPT ![i] =
                   [v \in Versions |-> IF v \notin affects THEN Never
                                       ELSE IF @[v] = Never THEN time ELSE @[v]]]
    /\ UNCHANGED <<time, diskVars, scan, cut, lostRecords>>

Publishes(i, affects) ==
    /\ i \notin published
    /\ published' = published \cup {i}
    /\ Says(i, affects)
    /\ UNCHANGED faults

Revises(i, affects) ==
    /\ i \in published
    /\ affects # content[i]
    /\ faults < MaxFaults
    /\ faults' = faults + 1
    /\ Says(i, affects)
    /\ UNCHANGED published

\* Its answers: the advisories about n that affect v, and all those about n.
Hits(n, v)  == {i \in published : AboutName[i] = n /\ v \in content[i]}
AllOf(n)    == {i \in published : AboutName[i] = n}

-----------------------------------------------------------------------------
(* advisories() and resolve().  Every step acts on one scan s.             *)

At(s, step)   == scan[s].step = step
Goes(s, to)   == scan' = [scan EXCEPT ![s] = to]

fresh(at, now) == at # Never /\ now - at < Ttl

\* group_by_ecosystem(): what may be sent.
Sendable(packages) == {p \in packages : p[1] \notin Private}

\* Mutant: a clean answer holds for every version of the package.
AnsweredForAnyVersion(cache, p, now) ==
    \/ fresh(cache.affected[p[1]].fetched_at, now)
    \/ \E v \in Versions : fresh(cache.clean[<<p[1], v>>], now)

\* The complete set is held, or this exact version was confirmed clean.
Answered(cache, p, now) ==
    \/ fresh(cache.affected[p[1]].fetched_at, now)
    \/ fresh(cache.clean[p], now)

\* The id of every record these packages need.
Needed(cache, packages) == UNION {cache.affected[p[1]].ids : p \in Sendable(packages)}

\* A scan reaches for the API: Cache::read(), and what is not answered yet.
Reads(s, packages) ==
    /\ At(s, "idle")
    /\ LET ask == {p \in Sendable(packages) : ~Answered(file, p, time)} IN
       Goes(s, [Idle EXCEPT
                  !.packages = packages, !.cache = file, !.now = time, !.ask = ask,
                  !.ids = IF ask = {} THEN Needed(file, packages) ELSE {},
                  !.step = IF ask = {} THEN "write" ELSE "versioned"])
    /\ UNCHANGED <<osvVars, diskVars, answerVars>>

\* Mutant: clean entries keyed by the name alone.
MarkCleanByName(cache, clean, now) ==
    LET names == {p[1] : p \in clean} IN
    [affected |-> [n \in Names |-> IF n \in names THEN NoEntry ELSE cache.affected[n]],
     clean |-> [p \in Packages |-> IF p[1] \in names THEN now ELSE cache.clean[p]]]

\* mark_clean() of each package of `clean`: the complete set goes, too.
MarkClean(cache, clean, now) ==
    LET names == {p[1] : p \in clean} IN
    [affected |-> [n \in Names |-> IF n \in names THEN NoEntry ELSE cache.affected[n]],
     clean |-> [p \in Packages |-> IF p \in clean THEN now ELSE cache.clean[p]]]

\* The versioned query: most packages come back clean.
Versioned(s) ==
    /\ At(s, "versioned")
    /\ LET clean    == {p \in scan[s].ask : Hits(p[1], p[2]) = {}}
           affected == {p[1] : p \in scan[s].ask \ clean}
           cache    == MarkClean(scan[s].cache, clean, scan[s].now)
       IN Goes(s, [scan[s] EXCEPT
                     !.cache = cache, !.ask = {}, !.affected = affected,
                     !.ids = IF affected = {} THEN Needed(cache, scan[s].packages) ELSE {},
                     !.step = IF affected = {} THEN "write" ELSE "unversioned"])
    /\ UNCHANGED <<osvVars, diskVars, answerVars>>

\* mark_affected() of each name, with the ids of its answer.
MarkAffected(cache, names, ids, now) ==
    [cache EXCEPT !.affected = [n \in Names |->
        IF n \in names THEN [ids |-> ids[n], fetched_at |-> now] ELSE @[n]]]

\* An answer for n: all ids, or fewer and a token for the next page.
Answer(n, short) == IF n \in short THEN SUBSET AllOf(n) \ {AllOf(n)} ELSE {AllOf(n)}

\* The unversioned query, the answers for `short` cut, which this scan alone
\* knows of; then the records that are not on disk.
Unversioned(s) ==
    /\ At(s, "unversioned")
    /\ \E short \in SUBSET scan[s].affected :
       \E ids \in [scan[s].affected -> SUBSET published] :
          /\ short # {} => faults < MaxFaults
          /\ \A n \in scan[s].affected : ids[n] \in Answer(n, short)
          /\ faults' = IF short = {} THEN faults ELSE faults + 1
          /\ cut' = cut \cup short
          /\ LET cache   == MarkAffected(scan[s].cache, scan[s].affected, ids, scan[s].now)
                 missing == {i \in UNION {ids[n] : n \in scan[s].affected} : ~records[i].there}
             IN Goes(s, [scan[s] EXCEPT
                           !.cache = cache, !.affected = {}, !.partial = short,
                           !.missing = missing,
                           !.ids = Needed(cache, scan[s].packages),
                           !.step = IF missing = {} THEN "write" ELSE "records"])
    /\ UNCHANGED <<osvVars, diskVars, lostRecords>>

\* A query is not answered: the scan falls back to the archive, and nothing it
\* learnt is kept.
QueryFails(s) ==
    /\ At(s, "versioned") \/ At(s, "unversioned")
    /\ faults < MaxFaults
    /\ faults' = faults + 1
    /\ Goes(s, Idle)
    /\ UNCHANGED <<osvVars, diskVars, cut, lostRecords>>

\* fetch_records(): i has been dealt with; the last one ends it.
Fetched(s, i) ==
    /\ At(s, "records")
    /\ i \in scan[s].missing
    /\ Goes(s, [scan[s] EXCEPT
                  !.missing = @ \ {i},
                  !.step = IF scan[s].missing = {i} THEN "write" ELSE "records"])

\* A record is stored when it arrives ...
DownloadsRecord(s, i) ==
    /\ Fetched(s, i)
    /\ records' = [records EXCEPT ![i] = [there |-> TRUE, parses |-> TRUE, affects |-> content[i]]]
    /\ UNCHANGED <<osvVars, file, answerVars>>

\* ... whatever it is: answered 200, it is not looked into and stays there ...
StoresGarbled(s, i) ==
    /\ Fetched(s, i)
    /\ faults < MaxFaults
    /\ faults' = faults + 1
    /\ records' = [records EXCEPT ![i] = [NoRecord EXCEPT !.there = TRUE]]
    /\ lostRecords' = lostRecords \cup {i}
    /\ UNCHANGED <<osvVars, file, cut>>

\* ... and not missed when it does not arrive, or cannot be stored.
RecordFails(s, i) ==
    /\ Fetched(s, i)
    /\ faults < MaxFaults
    /\ faults' = faults + 1
    /\ lostRecords' = lostRecords \cup {i}
    /\ UNCHANGED <<osvVars, diskVars, cut>>

\* Cache::write(): whatever another scan wrote meanwhile is lost.
Writes(s) ==
    /\ At(s, "write")
    /\ file' = scan[s].cache
    /\ Goes(s, [scan[s] EXCEPT !.cache = NoCache, !.step = "match"])
    /\ UNCHANGED <<osvVars, records, answerVars>>

\* Whether it could be written is not looked at.
WriteFails(s) ==
    /\ At(s, "write")
    /\ faults < MaxFaults
    /\ faults' = faults + 1
    /\ Goes(s, [scan[s] EXCEPT !.cache = NoCache, !.step = "match"])
    /\ UNCHANGED <<osvVars, diskVars, cut, lostRecords>>

\* Mutant: an index of what affects the installed versions only.
IndexedInstalled(s) ==
    {i \in scan[s].ids : \E p \in scan[s].packages : p[2] \in records[i].affects}

\* read_record() of every id: what parses is in the index, and the matcher
\* finds what is in it.
Indexed(s) == {i \in scan[s].ids : records[i].parses}
Found(s) ==
    {f \in scan[s].packages \X Indexed(s) :
        f[1][1] = AboutName[f[2]] /\ f[1][2] \in records[f[2]].affects}

\* The report, Found(s) with no fix for what is partial, goes to the engine.
Match(s) ==
    /\ At(s, "match")
    /\ Goes(s, Idle)
    /\ UNCHANGED <<osvVars, diskVars, answerVars>>

ScanSteps(s) ==
    \/ Versioned(s) \/ Unversioned(s) \/ QueryFails(s)
    \/ \E i \in Ids : DownloadsRecord(s, i) \/ StoresGarbled(s, i) \/ RecordFails(s, i)
    \/ Writes(s) \/ WriteFails(s) \/ Match(s)

Next ==
    \/ Tick
    \/ \E i \in Ids, affects \in Contents :
          Publishes(i, affects) \/ Revises(i, affects)
    \/ \E s \in Scans : ScanSteps(s) \/ \E packages \in Projects : Reads(s, packages)

Spec == Init /\ [][Next]_vars

-----------------------------------------------------------------------------
(* Properties.                                                             *)

\* What a cache says is no newer than what osv.dev was asked: an advisory that
\* affected a version before the stamp of an entry is in the complete set, or
\* the version is not entered as clean.
Honest(cache) ==
    \A i \in published : \A v \in content[i] :
        LET n == AboutName[i] IN
        /\ since[i][v] < cache.affected[n].fetched_at /\ n \notin cut
              => i \in cache.affected[n].ids
        /\ since[i][v] >= cache.clean[<<n, v>>]

\* However scans overlap and overwrite each other's cache file, and wherever an
\* advisory is published between their queries, no cache is ahead of osv.dev.
CacheHonest ==
    /\ Honest(file)
    /\ \A s \in Scans : Honest(scan[s].cache)

\* Began to affect p at least a ttl before scan s began.
Due(s, p, i) ==
    /\ i \in published
    /\ AboutName[i] = p[1]
    /\ p[2] \in content[i]
    /\ since[i][p[2]] + Ttl <= scan[s].now

\* "Keeps the answers on disk, and refreshes them on a TTL" (api.rs): an
\* advisory that is as old as the ttl is one the scan looks for, whatever was
\* answered for other versions of the package before.
NothingMissed ==
    \A s \in Scans : At(s, "match") =>
        \A p \in scan[s].packages, i \in Ids :
            Due(s, p, i) /\ p[1] \notin Private \cup cut => i \in scan[s].ids

\* Advisories about n as old as the ttl that the index of s does not hold.
Lacks(s, n) ==
    {i \in published \ Indexed(s) : \E v \in content[i] : Due(s, <<n, v>>, i)}

\* "For every package that ends up with a finding, the index must hold that
\* package's complete advisory set" (api.rs), or the package is partial:
\* answers cut short in an earlier scan and records that did not arrive, or not
\* whole, are the only ways to miss.
CompleteOnceAsked ==
    \A s \in Scans : At(s, "match") => \A f \in Found(s) :
        LET n == f[1][1] IN
        n \in scan[s].partial \cup cut \/ Lacks(s, n) \subseteq lostRecords

\* The same without exception, as the module comment of api.rs states it.
CompleteOrPartial ==
    \A s \in Scans : At(s, "match") => \A f \in Found(s) :
        LET n == f[1][1] IN
        n \in scan[s].partial \/ Lacks(s, n) = {}
=============================================================================
