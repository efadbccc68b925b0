----------------------------- MODULE KeptProofs ------------------------------
(***************************************************************************)
(* Theorems about what is kept on disk: osv.dev's answers (Api), for any   *)
(* packages, advisories, time to live and number of scans that overlap,    *)
(* and the installed server (Installer), for any pins and any number of    *)
(* failures.                                                               *)
(***************************************************************************)
EXTENDS Api, Installer, TLAPS

-----------------------------------------------------------------------------
(* osv.dev's answers.                                                       *)

\* Constant values of the module are of their types.
LEMMA EmptyTyped ==
    /\ NoCache \in Cache /\ NoEntry \in Affected /\ Idle \in ScanState
    /\ NoRecord \in Record /\ Never \in Time /\ 1 \in Time
BY ApiAssumption DEF NoCache, Cache, NoEntry, Affected, Idle, ScanState, NoRecord, Record,
   Never, Time, Steps

\* What marking answers makes of a cache is a cache.
LEMMA MarkCleanTyped ==
    ASSUME NEW cache \in Cache, NEW clean \in SUBSET Packages, NEW now \in Time
    PROVE  MarkClean(cache, clean, now) \in Cache
BY EmptyTyped DEF MarkClean, Cache

\* So is what entering the affected names makes of it.
LEMMA MarkAffectedTyped ==
    ASSUME NEW cache \in Cache, NEW names \in SUBSET Names,
           NEW ids \in [names -> SUBSET Ids], NEW now \in Time
    PROVE  MarkAffected(cache, names, ids, now) \in Cache
BY DEF MarkAffected, Cache, Affected

\* Only advisories are needed.
LEMMA NeededTyped ==
    ASSUME NEW cache \in Cache, NEW packages \in SUBSET Packages
    PROVE  Needed(cache, packages) \subseteq Ids
BY DEF Needed, Sendable, Cache, Affected, Packages

\* A step of one scan keeps the function of scans one.
LEMMA GoesTyped ==
    ASSUME scan \in [Scans -> ScanState], NEW s \in Scans, NEW to \in ScanState,
           Goes(s, to)
    PROVE  scan' \in [Scans -> ScanState]
BY DEF Goes

\* Every variable of the cache's users keeps its type.
LEMMA ApiTypeInit == Init => TypeOK
BY EmptyTyped DEF Init, TypeOK

\* Every step of every scan, and of osv.dev, keeps the types.
LEMMA ApiTypeStep == TypeOK /\ [Next]_vars => TypeOK'
<1> SUFFICES ASSUME TypeOK, [Next]_vars PROVE TypeOK'
  OBVIOUS
<1>0. /\ scan \in [Scans -> ScanState] /\ \A s \in Scans : scan[s] \in ScanState
      /\ file \in Cache /\ records \in [Ids -> Record] /\ time \in Time
      /\ faults \in Nat /\ faults + 1 \in Nat
  BY DEF TypeOK
<1>1. CASE Tick
  <2>1. time' \in Time
    BY <1>0, <1>1, ApiAssumption DEF Tick, Time, Never
  <2>2. QED
    BY <1>1, <2>1 DEF Tick, TypeOK, diskVars, answerVars
<1>2. ASSUME NEW i \in Ids, NEW affects \in Contents, Publishes(i, affects) \/ Revises(i, affects)
      PROVE  TypeOK'
  <2>1. affects \subseteq Versions
    BY ApiAssumption
  <2>2. content' \in [Ids -> SUBSET Versions]
    BY <1>2, <2>1 DEF Publishes, Revises, Says, TypeOK
  <2>3. since' \in [Ids -> [Versions -> Time]]
    <3> DEFINE begins == [v \in Versions |-> IF v \notin affects THEN Never
                              ELSE IF since[i][v] = Never THEN time ELSE since[i][v]]
    <3>1. since \in [Ids -> [Versions -> Time]]
      BY DEF TypeOK
    <3>2. since[i] \in [Versions -> Time]
      BY <3>1
    <3>3. \A v \in Versions : since[i][v] \in Time
      BY <3>2
    <3>4. begins \in [Versions -> Time]
      BY <1>0, <3>3, EmptyTyped
    <3>5. since' = [since EXCEPT ![i] = begins]
      BY <1>2 DEF Publishes, Revises, Says
    <3> HIDE DEF begins
    <3>6. QED
      BY <3>1, <3>4, <3>5
  <2>4. published' \subseteq Ids /\ faults' \in Nat
    BY <1>0, <1>2 DEF Publishes, Revises, TypeOK
  <2>5. QED
    BY <1>2, <2>2, <2>3, <2>4 DEF Publishes, Revises, Says, TypeOK, diskVars
<1>3. ASSUME NEW s \in Scans, NEW packages \in Projects, Reads(s, packages) PROVE TypeOK'
  <2>1. packages \subseteq Packages
    BY ApiAssumption
  <2> DEFINE ask == {p \in Sendable(packages) : ~Answered(file, p, time)}
             to == [Idle EXCEPT
                  !.packages = packages, !.cache = file, !.now = time, !.ask = ask,
                  !.ids = IF ask = {} THEN Needed(file, packages) ELSE {},
                  !.step = IF ask = {} THEN "write" ELSE "versioned"]
  <2>2. ask \subseteq Packages /\ Needed(file, packages) \subseteq Ids
    BY <1>0, <2>1, NeededTyped DEF Sendable
  <2>3. to \in ScanState
    <3> HIDE DEF ask
    <3>1. QED
      BY <1>0, <2>1, <2>2, EmptyTyped DEF ScanState, Steps
  <2>4. scan' \in [Scans -> ScanState]
    BY <1>0, <1>3, <2>3, GoesTyped DEF Reads
  <2>5. QED
    BY <1>3, <2>4 DEF Reads, TypeOK, osvVars, diskVars, answerVars
<1>4. ASSUME NEW s \in Scans, Versioned(s) PROVE TypeOK'
  <2> DEFINE clean == {p \in scan[s].ask : Hits(p[1], p[2]) = {}}
             affected == {p[1] : p \in scan[s].ask \ clean}
             cache == MarkClean(scan[s].cache, clean, scan[s].now)
             to == [scan[s] EXCEPT
                     !.cache = cache, !.ask = {}, !.affected = affected,
                     !.ids = IF affected = {} THEN Needed(cache, scan[s].packages) ELSE {},
                     !.step = IF affected = {} THEN "write" ELSE "unversioned"]
  <2>1. /\ scan[s].ask \subseteq Packages /\ scan[s].cache \in Cache
        /\ scan[s].now \in Time /\ scan[s].packages \subseteq Packages
    BY <1>0 DEF ScanState
  <2>2. clean \subseteq Packages /\ affected \subseteq Names
    BY <2>1 DEF Packages
  <2>3. cache \in Cache
    BY <2>1, <2>2, MarkCleanTyped
  <2>4. Needed(cache, scan[s].packages) \subseteq Ids
    BY <2>1, <2>3, NeededTyped
  <2>5. to \in ScanState
    <3> HIDE DEF cache, affected
    <3>1. QED
      BY <1>0, <2>2, <2>3, <2>4 DEF ScanState, Steps
  <2>6. scan' \in [Scans -> ScanState]
    BY <1>0, <1>4, <2>5, GoesTyped DEF Versioned
  <2>7. QED
    BY <1>4, <2>6 DEF Versioned, TypeOK, osvVars, diskVars, answerVars
<1>5. ASSUME NEW s \in Scans, Unversioned(s) PROVE TypeOK'
  <2>1. PICK short \in SUBSET scan[s].affected, ids \in [scan[s].affected -> SUBSET published] :
          /\ faults' = IF short = {} THEN faults ELSE faults + 1
          /\ cut' = cut \cup short
          /\ LET cache   == MarkAffected(scan[s].cache, scan[s].affected, ids, scan[s].now)
                 missing == {i \in UNION {ids[n] : n \in scan[s].affected} : ~records[i].there}
             IN Goes(s, [scan[s] EXCEPT
                           !.cache = cache, !.affected = {}, !.partial = short,
                           !.missing = missing,
                           !.ids = Needed(cache, scan[s].packages),
                           !.step = IF missing = {} THEN "write" ELSE "records"])
    BY <1>5 DEF Unversioned
  <2> DEFINE cache == MarkAffected(scan[s].cache, scan[s].affected, ids, scan[s].now)
             missing == {i \in UNION {ids[n] : n \in scan[s].affected} : ~records[i].there}
             to == [scan[s] EXCEPT
                           !.cache = cache, !.affected = {}, !.partial = short,
                           !.missing = missing,
                           !.ids = Needed(cache, scan[s].packages),
                           !.step = IF missing = {} THEN "write" ELSE "records"]
  <2>2. /\ scan[s].affected \subseteq Names /\ scan[s].cache \in Cache
        /\ scan[s].now \in Time /\ scan[s].packages \subseteq Packages
        /\ published \subseteq Ids
    BY <1>0 DEF ScanState, TypeOK
  <2>3. ids \in [scan[s].affected -> SUBSET Ids] /\ short \subseteq Names
    BY <2>2
  <2>4. cache \in Cache /\ missing \subseteq Ids
    BY <2>2, <2>3, MarkAffectedTyped
  <2>5. Needed(cache, scan[s].packages) \subseteq Ids
    BY <2>2, <2>4, NeededTyped
  <2>6. to \in ScanState
    <3> HIDE DEF cache, missing
    <3>1. QED
      BY <1>0, <2>3, <2>4, <2>5 DEF ScanState, Steps
  <2>7. scan' \in [Scans -> ScanState]
    BY <1>0, <2>1, <2>6, GoesTyped
  <2>8. faults' \in Nat /\ cut' \subseteq Names
    BY <1>0, <2>1, <2>3 DEF TypeOK
  <2>9. QED
    BY <1>5, <2>7, <2>8 DEF Unversioned, TypeOK, osvVars, diskVars
<1>6. ASSUME NEW s \in Scans, QueryFails(s) PROVE TypeOK'
  <2>1. scan' \in [Scans -> ScanState] /\ faults' \in Nat
    BY <1>0, <1>6, EmptyTyped, GoesTyped DEF QueryFails
  <2>2. QED
    BY <1>6, <2>1 DEF QueryFails, TypeOK, osvVars, diskVars
<1>7. ASSUME NEW s \in Scans, NEW i \in Ids, Fetched(s, i) PROVE scan' \in [Scans -> ScanState]
  <2> DEFINE to == [scan[s] EXCEPT
                  !.missing = @ \ {i},
                  !.step = IF scan[s].missing = {i} THEN "write" ELSE "records"]
  <2>1. to \in ScanState
    BY <1>0 DEF ScanState, Steps
  <2>2. QED
    BY <1>0, <1>7, <2>1, GoesTyped DEF Fetched
<1>8. ASSUME NEW s \in Scans, NEW i \in Ids, DownloadsRecord(s, i) PROVE TypeOK'
  <2>1. scan' \in [Scans -> ScanState]
    BY <1>7, <1>8 DEF DownloadsRecord
  <2>2. records' \in [Ids -> Record]
    BY <1>0, <1>8 DEF DownloadsRecord, Record, TypeOK
  <2>3. QED
    BY <1>8, <2>1, <2>2 DEF DownloadsRecord, TypeOK, osvVars, answerVars
<1>8a. ASSUME NEW s \in Scans, NEW i \in Ids, StoresGarbled(s, i) PROVE TypeOK'
  <2>1. scan' \in [Scans -> ScanState]
    BY <1>7, <1>8a DEF StoresGarbled
  <2>2. faults' \in Nat /\ lostRecords' \subseteq Ids
    BY <1>0, <1>8a DEF StoresGarbled, TypeOK
  <2>3. records' \in [Ids -> Record]
    BY <1>0, <1>8a DEF StoresGarbled, Record, NoRecord, TypeOK
  <2>4. QED
    BY <1>8a, <2>1, <2>2, <2>3 DEF StoresGarbled, TypeOK, osvVars
<1>9. ASSUME NEW s \in Scans, NEW i \in Ids, RecordFails(s, i) PROVE TypeOK'
  <2>1. scan' \in [Scans -> ScanState]
    BY <1>7, <1>9 DEF RecordFails
  <2>2. faults' \in Nat /\ lostRecords' \subseteq Ids
    BY <1>0, <1>9 DEF RecordFails, TypeOK
  <2>3. QED
    BY <1>9, <2>1, <2>2 DEF RecordFails, TypeOK, osvVars, diskVars
<1>10. ASSUME NEW s \in Scans, Writes(s) \/ WriteFails(s) PROVE TypeOK'
  <2>1. scan[s].cache \in Cache /\ [scan[s] EXCEPT !.cache = NoCache, !.step = "match"] \in ScanState
    BY <1>0, EmptyTyped DEF ScanState, Steps
  <2>2. scan' \in [Scans -> ScanState]
    BY <1>0, <1>10, <2>1, GoesTyped DEF Writes, WriteFails
  <2>3. file' \in Cache /\ faults' \in Nat
    BY <1>0, <1>10, <2>1 DEF Writes, WriteFails, TypeOK, diskVars, answerVars
  <2>4. QED
    BY <1>10, <2>2, <2>3 DEF Writes, WriteFails, TypeOK, osvVars, diskVars, answerVars
<1>11. ASSUME NEW s \in Scans, Match(s) PROVE TypeOK'
  <2>1. scan' \in [Scans -> ScanState]
    BY <1>0, <1>11, EmptyTyped, GoesTyped DEF Match
  <2>2. QED
    BY <1>11, <2>1 DEF Match, TypeOK, osvVars, diskVars, answerVars
<1>12. CASE UNCHANGED vars
  BY <1>12 DEF vars, TypeOK, osvVars, diskVars, answerVars
<1>13. QED
  BY <1>1, <1>2, <1>3, <1>4, <1>5, <1>6, <1>8, <1>8a, <1>9, <1>10, <1>11, <1>12
     DEF Next, ScanSteps

\* Every variable keeps its type, in particular the cache and what each scan
\* carries of it.
THEOREM ApiTypeCorrect == Spec => []TypeOK
BY ApiTypeInit, ApiTypeStep, PTL DEF Spec

-----------------------------------------------------------------------------
(* No cache is ahead of osv.dev.                                            *)

\* Nothing in a cache is stamped later than t.
Past(cache, t) ==
    /\ \A n \in Names : cache.affected[n].fetched_at <= t
    /\ \A p \in Packages : cache.clean[p] <= t

\* A scan stamps with the time it began, and what it read was older.
ClockInv ==
    /\ time >= 1
    /\ Past(file, time)
    /\ \A s \in Scans : /\ scan[s].now <= time
                        /\ Past(scan[s].cache, scan[s].now)
                        /\ At(s, "idle") \/ scan[s].now >= 1

\* An advisory says nothing before it is published, and the time since when it
\* affects a version is known for each it affects.
SinceInv ==
    \A i \in Ids :
        /\ i \notin published => content[i] = {}
        /\ \A v \in Versions :
              /\ since[i][v] <= time
              /\ v \in content[i] <=> since[i][v] # Never

\* Honest, as a statement about a cache and what osv.dev says at some time.
HonestEntry(cache, i, v, at, short) ==
    LET n == AboutName[i] IN
    /\ at < cache.affected[n].fetched_at /\ n \notin short => i \in cache.affected[n].ids
    /\ at >= cache.clean[<<n, v>>]

HonestAbout(cache, advisories, says, from, short) ==
    \A i \in advisories : \A v \in says[i] : HonestEntry(cache, i, v, from[i][v], short)

\* It is the Honest of Api, at the current state.
LEMMA HonestIsAbout ==
    \A cache : Honest(cache) <=> HonestAbout(cache, published, content, since, cut)
BY DEF Honest, HonestAbout, HonestEntry

\* Stamps compare as numbers.
LEMMA TimesAreNumbers == Time \subseteq Nat
BY DEF Time, Never

\* The clock, and since when what affects what.
LEMMA WorldInit == Init => ClockInv /\ SinceInv
BY DEF Init, ClockInv, SinceInv, Past, NoCache, NoEntry, Idle, Never, At, Packages

\* A scan only stamps with its own time.
LEMMA CleanPast ==
    ASSUME NEW cache \in Cache, NEW clean \in SUBSET Packages, NEW now \in Time,
           Past(cache, now)
    PROVE  Past(MarkClean(cache, clean, now), now)
<1> DEFINE c == MarkClean(cache, clean, now)
<1>1. now \in Nat
  BY TimesAreNumbers
<1>2. ASSUME NEW n \in Names PROVE c.affected[n].fetched_at <= now
  BY <1>1 DEF MarkClean, Past, NoEntry, Never
<1>3. ASSUME NEW p \in Packages PROVE c.clean[p] <= now
  BY <1>1 DEF MarkClean, Past
<1>4. QED
  BY <1>2, <1>3 DEF Past

LEMMA AffectedPast ==
    ASSUME NEW cache \in Cache, NEW names \in SUBSET Names, NEW ids, NEW now \in Time,
           Past(cache, now)
    PROVE  Past(MarkAffected(cache, names, ids, now), now)
<1> DEFINE c == MarkAffected(cache, names, ids, now)
<1>1. now \in Nat
  BY TimesAreNumbers
<1>2. ASSUME NEW n \in Names PROVE c.affected[n].fetched_at <= now
  BY <1>1 DEF MarkAffected, Past, Cache
<1>3. ASSUME NEW p \in Packages PROVE c.clean[p] <= now
  BY <1>1 DEF MarkAffected, Past, Cache
<1>4. QED
  BY <1>2, <1>3 DEF Past

LEMMA NothingPast == ASSUME NEW t \in Nat PROVE Past(NoCache, t)
BY DEF Past, NoCache, NoEntry, Never

\* A cache is as old as it was, whatever the time is.
LEMMA StillPast ==
    ASSUME NEW cache \in Cache, NEW t \in Nat, NEW u \in Nat, t <= u, Past(cache, t)
    PROVE  Past(cache, u)
<1>1. ASSUME NEW n \in Names PROVE cache.affected[n].fetched_at \in Nat
  BY TimesAreNumbers DEF Cache, Affected
<1>2. ASSUME NEW p \in Packages PROVE cache.clean[p] \in Nat
  BY TimesAreNumbers DEF Cache
<1>3. QED
  BY <1>1, <1>2 DEF Past

HonestInv == ClockInv /\ SinceInv /\ CacheHonest

\* Between two steps nothing that is said can be dated back: what affects a
\* version did so before, or does so since now.
LEMMA WorldGoesOn ==
    ASSUME TypeOK, SinceInv, [Next]_vars
    PROVE  /\ cut \subseteq cut'
           /\ \A i \in published' : \A v \in content'[i] :
                 \/ since'[i][v] = time
                 \/ i \in published /\ v \in content[i] /\ since'[i][v] = since[i][v]
<1>1. cut \subseteq cut'
  BY DEF Next, Tick, Publishes, Revises, Says, ScanSteps, Reads, Versioned, Unversioned,
     QueryFails, DownloadsRecord, StoresGarbled, RecordFails, Writes, WriteFails, Match,
     answerVars, vars
<1>2. ASSUME NEW i \in published', NEW v \in content'[i]
      PROVE  \/ since'[i][v] = time
             \/ i \in published /\ v \in content[i] /\ since'[i][v] = since[i][v]
  <2>1. CASE UNCHANGED <<published, content, since>>
    BY <1>2, <2>1
  <2>2. ASSUME NEW j \in Ids, NEW affects \in Contents,
               Publishes(j, affects) \/ Revises(j, affects)
        PROVE  \/ since'[i][v] = time
               \/ i \in published /\ v \in content[i] /\ since'[i][v] = since[i][v]
    <3>1. i \in Ids /\ i \in published \cup {j}
      BY <1>2, <2>2 DEF Publishes, Revises, TypeOK
    <3>2. CASE i # j
      BY <1>2, <2>2, <3>1, <3>2 DEF Publishes, Revises, Says, TypeOK
    <3>3. CASE i = j
      <4>1. v \in affects /\ v \in Versions
        BY <1>2, <2>2, <3>1, <3>3, ApiAssumption DEF Publishes, Revises, Says, TypeOK
      <4>2. since'[i][v] = IF since[i][v] = Never THEN time ELSE since[i][v]
        BY <2>2, <3>1, <3>3, <4>1 DEF Publishes, Revises, Says, TypeOK
      <4>3. since[i][v] # Never => v \in content[i] /\ i \in published
        BY <3>1, <4>1 DEF SinceInv
      <4>4. QED
        BY <4>2, <4>3
    <3>4. QED
      BY <3>2, <3>3
  <2>3. QED
    BY <2>1, <2>2 DEF Next, Tick, ScanSteps, Reads, Versioned, Unversioned, QueryFails,
       DownloadsRecord, StoresGarbled, RecordFails, Writes, WriteFails, Match, osvVars, vars
<1>3. QED
  BY <1>1, <1>2

\* What is honest stays so when osv.dev goes on, as it says nothing new that is
\* older than a stamp, and when more answers are cut short.
LEMMA HonestStays ==
    ASSUME TypeOK, ClockInv, SinceInv, [Next]_vars,
           NEW cache \in Cache, Past(cache, time),
           HonestAbout(cache, published, content, since, cut)
    PROVE  HonestAbout(cache, published', content', since', cut')
<1>1. /\ cut \subseteq cut'
      /\ \A i \in published' : \A v \in content'[i] :
            \/ since'[i][v] = time
            \/ i \in published /\ v \in content[i] /\ since'[i][v] = since[i][v]
  BY WorldGoesOn
<1>3. published' \subseteq Ids /\ content' \in [Ids -> SUBSET Versions]
  BY ApiTypeStep DEF TypeOK
<1>4. time \in Nat
  BY TimesAreNumbers DEF TypeOK
<1>5. ASSUME NEW i \in published', NEW v \in content'[i]
      PROVE  HonestEntry(cache, i, v, since'[i][v], cut')
  <2>1. AboutName[i] \in Names /\ <<AboutName[i], v>> \in Packages
    BY <1>3, <1>5, ApiAssumption DEF Packages
  <2>2. /\ cache.affected[AboutName[i]].fetched_at <= time
        /\ cache.clean[<<AboutName[i], v>>] <= time
        /\ cache.affected[AboutName[i]].fetched_at \in Nat
        /\ cache.clean[<<AboutName[i], v>>] \in Nat
    BY <2>1, TimesAreNumbers DEF Past, Cache, Affected
  <2>3. CASE since'[i][v] = time
    BY <1>4, <2>2, <2>3 DEF HonestEntry
  <2>4. CASE i \in published /\ v \in content[i] /\ since'[i][v] = since[i][v]
    BY <1>1, <2>4 DEF HonestAbout, HonestEntry
  <2>5. QED
    BY <1>1, <1>5, <2>3, <2>4
<1>6. QED
  BY <1>5 DEF HonestAbout

\* What an advisory says is about a package, and since a time.
LEMMA AboutTyped ==
    ASSUME TypeOK, NEW i \in published, NEW v \in content[i]
    PROVE  /\ i \in Ids /\ v \in Versions /\ since[i][v] \in Nat
           /\ AboutName[i] \in Names /\ <<AboutName[i], v>> \in Packages
<1>1. i \in Ids /\ v \in Versions
  BY DEF TypeOK
<1>2. since[i] \in [Versions -> Time]
  BY <1>1 DEF TypeOK
<1>3. since[i][v] \in Nat
  BY <1>1, <1>2, TimesAreNumbers
<1>4. QED
  BY <1>1, <1>3, ApiAssumption DEF Packages

\* An empty cache claims nothing.
LEMMA NothingHonest ==
    ASSUME TypeOK
    PROVE  HonestAbout(NoCache, published, content, since, cut)
<1>1. ASSUME NEW i \in published, NEW v \in content[i]
      PROVE  HonestEntry(NoCache, i, v, since[i][v], cut)
  <2>1. since[i][v] \in Nat /\ AboutName[i] \in Names /\ <<AboutName[i], v>> \in Packages
    BY <1>1, AboutTyped
  <2>2. QED
    BY <2>1 DEF NoCache, NoEntry, Never, HonestEntry
<1>2. QED
  BY <1>1 DEF HonestAbout

\* The versioned answer enters as clean what no advisory affects now.
LEMMA CleanHonest ==
    ASSUME TypeOK, NEW cache \in Cache, NEW now \in Time,
           HonestAbout(cache, published, content, since, cut),
           NEW clean \in SUBSET Packages, \A p \in clean : Hits(p[1], p[2]) = {}
    PROVE  HonestAbout(MarkClean(cache, clean, now), published, content, since, cut)
<1> DEFINE c == MarkClean(cache, clean, now)
<1>1. ASSUME NEW i \in published, NEW v \in content[i]
      PROVE  HonestEntry(c, i, v, since[i][v], cut)
  <2>1. /\ since[i][v] \in Nat /\ AboutName[i] \in Names
        /\ <<AboutName[i], v>> \in Packages
    BY <1>1, AboutTyped
  <2>2. <<AboutName[i], v>> \notin clean
    BY <1>1 DEF Hits
  <2>3. c.clean[<<AboutName[i], v>>] = cache.clean[<<AboutName[i], v>>]
    BY <2>1, <2>2 DEF MarkClean
  <2>4. \/ c.affected[AboutName[i]] = NoEntry
        \/ c.affected[AboutName[i]] = cache.affected[AboutName[i]]
    BY <2>1 DEF MarkClean
  <2>5. QED
    BY <1>1, <2>1, <2>3, <2>4 DEF HonestAbout, HonestEntry, NoEntry, Never
<1>2. QED
  BY <1>1 DEF HonestAbout

\* The unversioned answer is all that is published, unless it is cut short.
LEMMA AffectedHonest ==
    ASSUME TypeOK, NEW cache \in Cache, NEW now \in Time,
           NEW names \in SUBSET Names, NEW short \in SUBSET names,
           NEW ids \in [names -> SUBSET published],
           \A n \in names : ids[n] \in Answer(n, short),
           HonestAbout(cache, published, content, since, cut \cup short)
    PROVE  HonestAbout(MarkAffected(cache, names, ids, now), published, content, since,
                       cut \cup short)
<1> DEFINE c == MarkAffected(cache, names, ids, now)
<1>1. ASSUME NEW i \in published, NEW v \in content[i]
      PROVE  HonestEntry(c, i, v, since[i][v], cut \cup short)
  <2>1. AboutName[i] \in Names
    BY <1>1, ApiAssumption DEF TypeOK
  <2>2. c.clean = cache.clean
    BY DEF MarkAffected, Cache
  <2>3. CASE AboutName[i] \in names
    <3>1. AboutName[i] \notin short => i \in ids[AboutName[i]]
      BY <1>1, <2>3 DEF Answer, AllOf
    <3>2. c.affected[AboutName[i]].ids = ids[AboutName[i]]
      BY <2>1, <2>3 DEF MarkAffected, Cache
    <3>3. QED
      BY <1>1, <2>2, <3>1, <3>2 DEF HonestAbout, HonestEntry
  <2>4. CASE AboutName[i] \notin names
    <3>1. c.affected[AboutName[i]] = cache.affected[AboutName[i]]
      BY <2>1, <2>4 DEF MarkAffected, Cache
    <3>2. QED
      BY <1>1, <2>2, <3>1 DEF HonestAbout, HonestEntry
  <2>5. QED
    BY <2>3, <2>4
<1>2. QED
  BY <1>1 DEF HonestAbout

\* A step of one scan need only be looked at where that scan goes.
LEMMA OneScanHonest ==
    ASSUME TypeOK, HonestInv, [Next]_vars,
           NEW s \in Scans, NEW to \in ScanState, Goes(s, to), UNCHANGED osvVars,
           file' \in {file, scan[s].cache},
           to.now <= time, to.step = "idle" \/ to.now >= 1,
           Past(to.cache, to.now),
           HonestAbout(to.cache, published, content, since, cut')
    PROVE  HonestInv'
<1>1. /\ scan \in [Scans -> ScanState] /\ scan'[s] = to
      /\ \A t \in Scans \ {s} : scan'[t] = scan[t]
      /\ \A t \in Scans : scan[t].cache \in Cache /\ scan[t].now \in Nat
      /\ file \in Cache /\ time \in Nat
  BY TimesAreNumbers DEF Goes, TypeOK, ScanState
<1>2. \A t \in Scans : Past(scan[t].cache, time)
  BY <1>1, StillPast DEF HonestInv, ClockInv
<1>3. ClockInv'
  <2>1. Past(file', time)
    BY <1>2 DEF HonestInv, ClockInv
  <2>2. QED
    BY <1>1, <2>1 DEF HonestInv, ClockInv, osvVars, At, Past
<1>4. SinceInv'
  BY DEF HonestInv, SinceInv, osvVars
<1>5. ASSUME NEW cache \in {file} \cup {scan[t].cache : t \in Scans}
      PROVE  HonestAbout(cache, published', content', since', cut')
  <2>1. HonestAbout(cache, published, content, since, cut)
    BY <1>5, HonestIsAbout DEF HonestInv, CacheHonest
  <2>2. cache \in Cache /\ Past(cache, time)
    BY <1>1, <1>2 DEF HonestInv, ClockInv
  <2>3. QED
    BY <2>1, <2>2, HonestStays DEF HonestInv
<1>6. HonestAbout(file', published', content', since', cut')
  BY <1>5
<1>7. \A t \in Scans : HonestAbout(scan'[t].cache, published', content', since', cut')
  BY <1>1, <1>5 DEF osvVars
<1>8. CacheHonest'
  BY <1>6, <1>7 DEF CacheHonest, Honest, HonestAbout, HonestEntry
<1>9. QED
  BY <1>3, <1>4, <1>8 DEF HonestInv

\* Time passing dates nothing.
LEMMA TickKeeps == TypeOK /\ SinceInv /\ Tick => SinceInv'
<1> SUFFICES ASSUME TypeOK, SinceInv, Tick PROVE SinceInv'
  OBVIOUS
<1>1. time \in Nat /\ time' = time + 1 /\ UNCHANGED <<published, content, since>>
  BY TimesAreNumbers DEF Tick, TypeOK
<1>2. ASSUME NEW i \in Ids, NEW v \in Versions PROVE since[i][v] <= time + 1
  <2>1. since[i] \in [Versions -> Time]
    BY DEF TypeOK
  <2>2. since[i][v] \in Nat
    BY <2>1, TimesAreNumbers
  <2>3. since[i][v] <= time
    BY DEF SinceInv
  <2>4. QED
    BY <1>1, <2>2, <2>3
<1>3. ASSUME NEW i \in Ids
      PROVE  /\ i \notin published => content[i] = {}
             /\ \A v \in Versions : v \in content[i] <=> since[i][v] # Never
  BY DEF SinceInv
<1>4. QED
  BY <1>1, <1>2, <1>3 DEF SinceInv

\* One step per action: only the scan that moves can carry a new cache.
LEMMA HonestStep == TypeOK /\ HonestInv /\ [Next]_vars => HonestInv'
<1> SUFFICES ASSUME TypeOK, HonestInv, [Next]_vars PROVE HonestInv'
  OBVIOUS
<1>0. /\ scan \in [Scans -> ScanState] /\ \A s \in Scans : scan[s] \in ScanState
      /\ file \in Cache /\ time \in Nat /\ time >= 1
      /\ \A t \in Time : t \in Nat
  BY TimesAreNumbers DEF TypeOK, HonestInv, ClockInv
<1>1. ASSUME UNCHANGED <<file, scan>>, time' \in Nat, time <= time', SinceInv'
      PROVE  HonestInv'
  <2>1. \A s \in Scans : scan[s].cache \in Cache /\ scan[s].now \in Nat
                       /\ scan[s].now <= time /\ Past(scan[s].cache, scan[s].now)
    BY <1>0 DEF ScanState, HonestInv, ClockInv
  <2>2. Past(file, time) /\ \A s \in Scans : Past(scan[s].cache, time)
    BY <1>0, <2>1, StillPast DEF HonestInv, ClockInv
  <2>3. Past(file, time') /\ \A s \in Scans : scan[s].now <= time'
    BY <1>0, <1>1, <2>1, <2>2, StillPast
  <2>4. ClockInv'
    BY <1>0, <1>1, <2>1, <2>3 DEF HonestInv, ClockInv, At, Past
  <2>5. ASSUME NEW cache \in {file} \cup {scan[t].cache : t \in Scans}
        PROVE  HonestAbout(cache, published', content', since', cut')
    <3>1. HonestAbout(cache, published, content, since, cut)
      BY <2>5, HonestIsAbout DEF HonestInv, CacheHonest
    <3>2. QED
      BY <1>0, <2>1, <2>2, <3>1, HonestStays DEF HonestInv
  <2>6. /\ HonestAbout(file', published', content', since', cut')
        /\ \A t \in Scans : HonestAbout(scan'[t].cache, published', content', since', cut')
    BY <1>1, <2>5
  <2>7. CacheHonest'
    BY <2>6 DEF CacheHonest, Honest, HonestAbout, HonestEntry
  <2>8. QED
    BY <1>1, <2>4, <2>7 DEF HonestInv
<1>2. CASE Tick
  <2>1. time' \in Nat /\ time <= time' /\ UNCHANGED <<file, scan>>
    BY <1>0, <1>2 DEF Tick, diskVars
  <2>2. SinceInv'
    BY <1>2, TickKeeps DEF HonestInv
  <2>3. QED
    BY <1>1, <2>1, <2>2
<1>3. ASSUME NEW i \in Ids, NEW affects \in Contents, Publishes(i, affects) \/ Revises(i, affects)
      PROVE  HonestInv'
  <2>1. UNCHANGED <<file, scan, time>> /\ published' = published \cup {i} /\ Says(i, affects)
    BY <1>3 DEF Publishes, Revises, Says, diskVars
  <2>2. ASSUME NEW j \in Ids \ {i}
        PROVE  content'[j] = content[j] /\ since'[j] = since[j]
               /\ (j \in published' <=> j \in published)
    BY <2>1 DEF Says, TypeOK
  <2>3. content'[i] = affects /\ i \in published'
    BY <2>1 DEF Says, TypeOK
  <2>4. \A v \in Versions : since'[i][v] = IF v \notin affects THEN Never
                          ELSE IF since[i][v] = Never THEN time ELSE since[i][v]
    BY <2>1 DEF Says, TypeOK
  <2>5. SinceInv'
    BY <1>0, <2>1, <2>2, <2>3, <2>4 DEF HonestInv, SinceInv, Never
  <2>6. QED
    BY <1>0, <1>1, <2>1, <2>5
<1>4. ASSUME NEW s \in Scans
      PROVE  /\ scan[s].cache \in Cache /\ scan[s].now \in Time /\ scan[s].now \in Nat
             /\ scan[s].now <= time /\ Past(scan[s].cache, scan[s].now)
             /\ At(s, "idle") \/ scan[s].now >= 1
             /\ HonestAbout(scan[s].cache, published, content, since, cut)
  BY <1>0, HonestIsAbout DEF ScanState, HonestInv, ClockInv, CacheHonest
<1>5. /\ Idle \in ScanState /\ Idle.now <= time /\ Idle.step = "idle"
      /\ Past(Idle.cache, Idle.now)
      /\ HonestAbout(Idle.cache, published, content, since, cut)
  BY <1>0, EmptyTyped, NothingPast, NothingHonest DEF Idle, Never
<1>6. ASSUME NEW s \in Scans, NEW packages \in Projects, Reads(s, packages) PROVE HonestInv'
  <2> DEFINE to == scan'[s]
  <2>1. /\ Goes(s, to) /\ to \in ScanState /\ to.cache = file /\ to.now = time
        /\ UNCHANGED <<osvVars, file, cut>>
    BY <1>0, <1>6, ApiTypeStep DEF Reads, Goes, TypeOK, Idle, diskVars, answerVars
  <2>2. HonestAbout(file, published, content, since, cut) /\ Past(file, time)
    BY HonestIsAbout DEF HonestInv, CacheHonest, ClockInv
  <2>3. QED
    BY <1>0, <2>1, <2>2, OneScanHonest
<1>7. ASSUME NEW s \in Scans, Versioned(s) PROVE HonestInv'
  <2> DEFINE to == scan'[s]
             clean == {p \in scan[s].ask : Hits(p[1], p[2]) = {}}
             cache == MarkClean(scan[s].cache, clean, scan[s].now)
  <2>1. /\ Goes(s, to) /\ to \in ScanState /\ to.cache = cache /\ to.now = scan[s].now
        /\ UNCHANGED <<osvVars, file, cut>>
    BY <1>0, <1>7, ApiTypeStep DEF Versioned, Goes, TypeOK, ScanState, diskVars, answerVars
  <2>2. clean \in SUBSET Packages /\ ~At(s, "idle")
    BY <1>0, <1>7 DEF ScanState, Versioned, At
  <2>3. HonestAbout(cache, published, content, since, cut)
    BY <1>4, <2>2, CleanHonest
  <2>4. Past(cache, scan[s].now)
    BY <1>4, <2>2, CleanPast
  <2>5. QED
    BY <1>4, <2>1, <2>2, <2>3, <2>4, OneScanHonest
<1>8. ASSUME NEW s \in Scans, Unversioned(s) PROVE HonestInv'
  <2> DEFINE to == scan'[s]
             names == scan[s].affected
  <2>1. PICK short \in SUBSET names, ids \in [names -> SUBSET published] :
          /\ \A n \in names : ids[n] \in Answer(n, short)
          /\ cut' = cut \cup short
          /\ Goes(s, to)
          /\ to.cache = MarkAffected(scan[s].cache, names, ids, scan[s].now)
          /\ to.now = scan[s].now
    <3>1. PICK short \in SUBSET names, ids \in [names -> SUBSET published] :
            /\ \A n \in names : ids[n] \in Answer(n, short)
            /\ cut' = cut \cup short
            /\ LET cache   == MarkAffected(scan[s].cache, names, ids, scan[s].now)
                   missing == {i \in UNION {ids[n] : n \in names} : ~records[i].there}
               IN Goes(s, [scan[s] EXCEPT
                           !.cache = cache, !.affected = {}, !.partial = short,
                           !.missing = missing,
                           !.ids = Needed(cache, scan[s].packages),
                           !.step = IF missing = {} THEN "write" ELSE "records"])
      BY <1>8 DEF Unversioned
    <3>2. /\ Goes(s, to)
          /\ to.cache = MarkAffected(scan[s].cache, names, ids, scan[s].now)
          /\ to.now = scan[s].now
      BY <1>0, <3>1 DEF Goes, ScanState
    <3>3. QED
      BY <3>1, <3>2
  <2> DEFINE cache == MarkAffected(scan[s].cache, names, ids, scan[s].now)
  <2>2. /\ UNCHANGED <<osvVars, file>> /\ to \in ScanState /\ ~At(s, "idle")
        /\ names \in SUBSET Names
    BY <1>0, <1>8, ApiTypeStep DEF Unversioned, TypeOK, ScanState, diskVars, At
  <2>3. HonestAbout(scan[s].cache, published, content, since, cut \cup short)
    BY <1>4 DEF HonestAbout, HonestEntry
  <2>4. HonestAbout(cache, published, content, since, cut \cup short)
    BY <1>4, <2>1, <2>2, <2>3, AffectedHonest
  <2>5. Past(cache, scan[s].now)
    BY <1>4, <2>2, AffectedPast
  <2>6. QED
    BY <1>4, <2>1, <2>2, <2>4, <2>5, OneScanHonest
<1>9. ASSUME NEW s \in Scans, QueryFails(s) \/ Match(s) PROVE HonestInv'
  <2>1. Goes(s, Idle) /\ UNCHANGED <<osvVars, file, cut>>
    BY <1>9 DEF QueryFails, Match, diskVars, answerVars
  <2>2. QED
    BY <1>5, <2>1, OneScanHonest
<1>10. ASSUME NEW s \in Scans, NEW i \in Ids,
              DownloadsRecord(s, i) \/ StoresGarbled(s, i) \/ RecordFails(s, i)
       PROVE  HonestInv'
  <2> DEFINE to == scan'[s]
  <2>1. /\ Goes(s, to) /\ to.cache = scan[s].cache /\ to.now = scan[s].now
        /\ UNCHANGED <<osvVars, file, cut>> /\ ~At(s, "idle")
    BY <1>0, <1>10 DEF DownloadsRecord, StoresGarbled, RecordFails, Fetched, Goes, ScanState,
       diskVars, answerVars, At
  <2>2. to \in ScanState
    BY ApiTypeStep DEF TypeOK
  <2>3. QED
    BY <1>4, <2>1, <2>2, OneScanHonest
<1>11. ASSUME NEW s \in Scans, Writes(s) \/ WriteFails(s) PROVE HonestInv'
  <2> DEFINE to == scan'[s]
  <2>1. /\ Goes(s, to) /\ to.cache = NoCache /\ to.now = scan[s].now
        /\ UNCHANGED <<osvVars, cut>> /\ file' \in {scan[s].cache, file} /\ ~At(s, "idle")
    BY <1>0, <1>11 DEF Writes, WriteFails, Goes, ScanState, diskVars, answerVars, At
  <2>2. to \in ScanState
    BY ApiTypeStep DEF TypeOK
  <2>3. Past(NoCache, scan[s].now) /\ HonestAbout(NoCache, published, content, since, cut)
    BY <1>4, NothingPast, NothingHonest
  <2>4. QED
    BY <1>4, <2>1, <2>2, <2>3, OneScanHonest
<1>12. CASE UNCHANGED vars
  <2>1. SinceInv'
    BY <1>12 DEF vars, osvVars, HonestInv, SinceInv
  <2>2. QED
    BY <1>0, <1>1, <1>12, <2>1 DEF vars, osvVars, diskVars
<1>13. QED
  BY <1>2, <1>3, <1>6, <1>7, <1>8, <1>9, <1>10, <1>11, <1>12 DEF Next, ScanSteps

\* However many scans overwrite each other's cache file, and wherever between
\* their queries an advisory is published or revised, no cache entry claims to
\* know of a time after the answer it holds.
THEOREM CacheHonestHolds == Spec => []CacheHonest
<1>1. Init => HonestInv
  <2>1. Init => CacheHonest
    BY DEF Init, CacheHonest, Honest
  <2>2. QED
    BY <2>1, WorldInit DEF HonestInv
<1>2. HonestInv => CacheHonest
  BY DEF HonestInv
<1>3. QED
  BY <1>1, <1>2, HonestStep, ApiTypeCorrect, PTL DEF Spec

-----------------------------------------------------------------------------
(* What a scan matches with is complete.                                    *)

\* An entry is about its name, and is no older than a clean answer it survived.
OrderedEntry(n, entry, clean) ==
    /\ entry.fetched_at = Never => entry.ids = {}
    /\ entry.fetched_at # Never =>
          \A v \in Versions : clean[<<n, v>>] <= entry.fetched_at
    /\ \A i \in entry.ids : AboutName[i] = n

Ordered(cache) == \A n \in Names : OrderedEntry(n, cache.affected[n], cache.clean)

\* Every record is on disk and parses, did not arrive so, or is still to be
\* fetched.
Accounted(ids, missing, on, gone) ==
    \A i \in ids : on[i].parses \/ i \in gone \/ i \in missing

AccountedCache(cache, missing, on, gone) ==
    \A n \in Names : Accounted(cache.affected[n].ids, missing, on, gone)

\* The ids hold every advisory that is a ttl old about a version that is in the
\* workspace, or about a package any of them is about.
Looked(ids, packages, now, advisories, says, from, short) ==
    \A i \in advisories : \A v \in says[i] :
        ( /\ from[i][v] + Ttl <= now
          /\ AboutName[i] \notin short
          /\ \/ <<AboutName[i], v>> \in Sendable(packages)
             \/ \E j \in ids : AboutName[j] = AboutName[i] ) => i \in ids

\* How far the scan is, as to its questions.
Progress(st, advisories, says, from, short, on, gone) ==
    /\ Ordered(st.cache)
    /\ AccountedCache(st.cache, st.missing, on, gone)
    /\ st.step # "records" => st.missing = {}
    /\ st.step = "versioned" =>
          st.ask = {p \in Sendable(st.packages) : ~Answered(st.cache, p, st.now)}
    /\ st.step = "unversioned" =>
          \A p \in Sendable(st.packages) :
              p[1] \in st.affected \/ Answered(st.cache, p, st.now)
    /\ st.step \in {"records", "write", "match"} =>
          /\ Looked(st.ids, st.packages, st.now, advisories, says, from, short)
          /\ Accounted(st.ids, st.missing, on, gone)

\* What is on disk parses, unless it did not arrive so.
RecordsInv == \A i \in Ids : records[i].there => records[i].parses \/ i \in lostRecords

Progresses(st) == Progress(st, published, content, since, cut, records, lostRecords)

AskInv ==
    /\ Ordered(file)
    /\ AccountedCache(file, {}, records, lostRecords)
    /\ RecordsInv
    /\ \A s \in Scans : Progresses(scan[s])

\* An empty cache needs nothing.
LEMMA NothingOrdered ==
    /\ Ordered(NoCache)
    /\ \A missing, on, gone : AccountedCache(NoCache, missing, on, gone)
BY DEF Ordered, OrderedEntry, AccountedCache, Accounted, NoCache, NoEntry

LEMMA IdleProgress ==
    \A advisories, says, from, short, on, gone :
        Progress(Idle, advisories, says, from, short, on, gone)
BY NothingOrdered DEF Progress, Idle

\* Entering answers keeps entries no older than what they survived.
LEMMA CleanOrdered ==
    ASSUME NEW cache \in Cache, NEW clean \in SUBSET Packages, NEW now \in Time,
           Ordered(cache)
    PROVE  Ordered(MarkClean(cache, clean, now))
<1> DEFINE c == MarkClean(cache, clean, now)
<1>1. ASSUME NEW n \in Names
      PROVE  \/ c.affected[n] = NoEntry
             \/ /\ c.affected[n] = cache.affected[n]
                /\ \A v \in Versions : c.clean[<<n, v>>] = cache.clean[<<n, v>>]
  <2>1. \A v \in Versions : <<n, v>> \in Packages
    BY DEF Packages
  <2>2. QED
    BY <2>1 DEF MarkClean
<1>2. \A n \in Names : OrderedEntry(n, NoEntry, c.clean)
  BY DEF OrderedEntry, NoEntry
<1>3. ASSUME NEW n \in Names, c.affected[n] = cache.affected[n],
             \A v \in Versions : c.clean[<<n, v>>] = cache.clean[<<n, v>>]
      PROVE  OrderedEntry(n, c.affected[n], c.clean)
  BY <1>3 DEF Ordered, OrderedEntry
<1>4. QED
  BY <1>1, <1>2, <1>3 DEF Ordered

LEMMA AffectedOrdered ==
    ASSUME NEW cache \in Cache, NEW names \in SUBSET Names, NEW now \in Time,
           now # Never, Past(cache, now), Ordered(cache),
           NEW ids, \A n \in names : \A i \in ids[n] : AboutName[i] = n
    PROVE  Ordered(MarkAffected(cache, names, ids, now))
<1> DEFINE c == MarkAffected(cache, names, ids, now)
<1>1. c.clean = cache.clean
  BY DEF MarkAffected, Cache
<1>2. ASSUME NEW n \in Names
      PROVE  c.affected[n] = IF n \in names THEN [ids |-> ids[n], fetched_at |-> now]
                             ELSE cache.affected[n]
  BY DEF MarkAffected, Cache
<1>3. \A n \in Names, v \in Versions : cache.clean[<<n, v>>] <= now
  BY DEF Past, Packages
<1>4. ASSUME NEW n \in names
      PROVE  OrderedEntry(n, [ids |-> ids[n], fetched_at |-> now], cache.clean)
  BY <1>3 DEF OrderedEntry
<1>5. ASSUME NEW n \in Names PROVE OrderedEntry(n, c.affected[n], cache.clean)
  BY <1>2, <1>4 DEF Ordered
<1>6. QED
  BY <1>1, <1>5 DEF Ordered

\* Once every package is answered, what the cache holds for them is complete.
LEMMA AllLooked ==
    ASSUME TypeOK, Ttl > 0, NEW cache \in Cache, NEW packages \in SUBSET Packages,
           NEW now \in Time, NEW short,
           HonestAbout(cache, published, content, since, short), Ordered(cache),
           \A p \in Sendable(packages) : Answered(cache, p, now)
    PROVE  Looked(Needed(cache, packages), packages, now, published, content, since, short)
<1> SUFFICES ASSUME NEW i \in published, NEW v \in content[i],
                    since[i][v] + Ttl <= now, AboutName[i] \notin short,
                    \/ <<AboutName[i], v>> \in Sendable(packages)
                    \/ \E j \in Needed(cache, packages) : AboutName[j] = AboutName[i]
             PROVE  i \in Needed(cache, packages)
  BY DEF Looked
<1> DEFINE n == AboutName[i]
<1>1. /\ since[i][v] \in Nat /\ n \in Names /\ <<n, v>> \in Packages
      /\ now \in Nat /\ Ttl \in Nat
  BY AboutTyped, TimesAreNumbers, ApiAssumption
<1>2. HonestEntry(cache, i, v, since[i][v], short)
  BY DEF HonestAbout
<1>3. /\ cache.affected[n].fetched_at \in Nat
      /\ \A p \in Packages : cache.clean[p] \in Nat
  BY <1>1, TimesAreNumbers DEF Cache, Affected
<1>4. fresh(cache.affected[n].fetched_at, now) => i \in cache.affected[n].ids
  BY <1>1, <1>2, <1>3 DEF HonestEntry, fresh
<1>5. CASE <<n, v>> \in Sendable(packages)
  <2>1. ~fresh(cache.clean[<<n, v>>], now)
    BY <1>1, <1>2, <1>3 DEF HonestEntry, fresh
  <2>2. Answered(cache, <<n, v>>, now)
    BY <1>5
  <2>3. i \in cache.affected[n].ids
    BY <1>4, <2>1, <2>2 DEF Answered
  <2>4. QED
    BY <1>5, <2>3 DEF Needed
<1>6. ASSUME NEW j \in Needed(cache, packages), AboutName[j] = n
      PROVE  i \in Needed(cache, packages)
  <2>1. PICK p \in Sendable(packages) : j \in cache.affected[p[1]].ids
    BY DEF Needed
  <2>2. p \in Packages /\ p[1] \in Names /\ p[2] \in Versions /\ p = <<p[1], p[2]>>
    BY <2>1 DEF Sendable, Packages
  <2>3. p[1] = n
    BY <1>6, <2>1, <2>2 DEF Ordered, OrderedEntry
  <2>4. cache.affected[n].fetched_at # Never
        /\ cache.clean[p] <= cache.affected[n].fetched_at
    BY <1>1, <2>1, <2>2, <2>3 DEF Ordered, OrderedEntry
  <2>5. fresh(cache.clean[p], now) => fresh(cache.affected[n].fetched_at, now)
    BY <1>1, <1>3, <2>2, <2>4 DEF fresh
  <2>6. Answered(cache, p, now)
    BY <2>1
  <2>7. i \in cache.affected[n].ids
    BY <1>4, <2>3, <2>5, <2>6 DEF Answered
  <2>8. QED
    BY <2>1, <2>3, <2>7 DEF Needed
<1>7. QED
  BY <1>5, <1>6

\* A record that parses is only replaced by one that does, or given up, and
\* one that was given up is never forgotten.
LEMMA RecordsStay ==
    ASSUME TypeOK, [Next]_vars
    PROVE  /\ lostRecords \subseteq lostRecords'
           /\ \A i \in Ids : records[i].parses => records'[i].parses \/ i \in lostRecords'
           /\ RecordsInv => RecordsInv'
<1>1. ASSUME NEW s \in Scans, NEW i \in Ids, DownloadsRecord(s, i) \/ StoresGarbled(s, i)
      PROVE  /\ lostRecords \subseteq lostRecords'
             /\ \A j \in Ids : records[j].parses => records'[j].parses \/ j \in lostRecords'
             /\ RecordsInv => RecordsInv'
  <2>1. /\ records' = [records EXCEPT ![i] = records'[i]] /\ lostRecords \subseteq lostRecords'
        /\ records'[i].parses \/ i \in lostRecords'
    BY <1>1 DEF DownloadsRecord, StoresGarbled, TypeOK, answerVars
  <2>2. QED
    BY <2>1 DEF RecordsInv, TypeOK
<1>2. CASE UNCHANGED records /\ lostRecords \subseteq lostRecords'
  BY <1>2 DEF RecordsInv
<1>3. QED
  BY <1>1, <1>2 DEF Next, Tick, Publishes, Revises, Says, ScanSteps, Reads, Versioned,
     Unversioned, QueryFails, RecordFails, Writes, WriteFails, Match, diskVars, answerVars,
     vars

\* What a scan has looked at and accounted for stays so while the world goes on:
\* what is said from now on is not a ttl old when the scan began.
LEMMA ProgressStays ==
    ASSUME TypeOK, SinceInv, Ttl > 0, [Next]_vars,
           NEW st \in ScanState, st.now <= time, Progresses(st)
    PROVE  Progress(st, published', content', since', cut', records', lostRecords')
<1>1. st.now \in Nat /\ time \in Nat /\ Ttl \in Nat
  BY TimesAreNumbers, ApiAssumption DEF TypeOK, ScanState
<1>2. ASSUME Looked(st.ids, st.packages, st.now, published, content, since, cut)
      PROVE  Looked(st.ids, st.packages, st.now, published', content', since', cut')
  <2>1. ASSUME NEW i \in published', NEW v \in content'[i], since'[i][v] + Ttl <= st.now
        PROVE  i \in published /\ v \in content[i] /\ since'[i][v] = since[i][v]
    <3>1. since'[i][v] # time
      BY <1>1, <2>1
    <3>2. QED
      BY <2>1, <3>1, WorldGoesOn
  <2>2. cut \subseteq cut'
    BY WorldGoesOn
  <2>3. QED
    BY <1>2, <2>1, <2>2 DEF Looked
<1>3. ASSUME NEW ids \in SUBSET Ids, Accounted(ids, st.missing, records, lostRecords)
      PROVE  Accounted(ids, st.missing, records', lostRecords')
  BY <1>3, RecordsStay DEF Accounted
<1>4. AccountedCache(st.cache, st.missing, records', lostRecords')
  <2>1. \A n \in Names : st.cache.affected[n].ids \in SUBSET Ids
    BY DEF ScanState, Cache, Affected
  <2>2. QED
    BY <1>3, <2>1 DEF AccountedCache, Progresses, Progress
<1>5. st.ids \in SUBSET Ids
  BY DEF ScanState
<1>6. QED
  BY <1>2, <1>3, <1>4, <1>5 DEF Progresses, Progress

\* The cache file needs no records but those there are.
LEMMA FileStays ==
    ASSUME TypeOK, [Next]_vars, NEW cache \in Cache,
           AccountedCache(cache, {}, records, lostRecords)
    PROVE  AccountedCache(cache, {}, records', lostRecords')
<1>1. \A n \in Names : cache.affected[n].ids \in SUBSET Ids
  BY DEF Cache, Affected
<1>2. QED
  BY <1>1, RecordsStay DEF AccountedCache, Accounted

\* A step of one scan need only be looked at where that scan goes.
LEMMA OneScanProgress ==
    ASSUME TypeOK, HonestInv, AskInv, Ttl > 0, [Next]_vars,
           NEW s \in Scans, NEW to, Goes(s, to),
           Progress(to, published', content', since', cut', records', lostRecords'),
           Ordered(file'), AccountedCache(file', {}, records', lostRecords')
    PROVE  AskInv'
<1>1. /\ scan'[s] = to /\ \A t \in Scans \ {s} : scan'[t] = scan[t]
      /\ \A t \in Scans : scan[t] \in ScanState /\ scan[t].now <= time
  BY DEF Goes, TypeOK, HonestInv, ClockInv
<1>2. \A t \in Scans \ {s} : Progress(scan'[t], published', content', since', cut',
                                  records', lostRecords')
  BY <1>1, ProgressStays DEF AskInv, HonestInv
<1>3. RecordsInv'
  BY RecordsStay DEF AskInv
<1>4. QED
  BY <1>1, <1>2, <1>3 DEF AskInv, Progresses, Ordered, OrderedEntry, AccountedCache, Accounted

\* What a cache accounts for, it does for what is needed of it.
LEMMA NeededAccounted ==
    ASSUME NEW cache \in Cache, NEW packages \in SUBSET Packages, NEW missing, NEW on, NEW gone,
           AccountedCache(cache, missing, on, gone)
    PROVE  Accounted(Needed(cache, packages), missing, on, gone)
<1>1. \A p \in Sendable(packages) : p[1] \in Names
  BY DEF Sendable, Packages
<1>2. QED
  BY <1>1 DEF Needed, AccountedCache, Accounted

LEMMA CleanAccounted ==
    ASSUME NEW cache \in Cache, NEW clean \in SUBSET Packages, NEW now \in Time,
           NEW missing, NEW on, NEW gone, AccountedCache(cache, missing, on, gone)
    PROVE  AccountedCache(MarkClean(cache, clean, now), missing, on, gone)
BY DEF AccountedCache, Accounted, MarkClean, NoEntry

\* What was answered is answered after the clean packages are entered: an entry
\* is only dropped for a package that was asked for again.
LEMMA CleanAnswered ==
    ASSUME NEW cache \in Cache, NEW clean \in SUBSET Packages, NEW now \in Time,
           now >= 1, Ttl > 0, \A q \in clean : ~Answered(cache, q, now),
           NEW p \in Packages, p \in clean \/ Answered(cache, p, now)
    PROVE  Answered(MarkClean(cache, clean, now), p, now)
<1> DEFINE c == MarkClean(cache, clean, now)
<1>1. now \in Nat /\ Ttl \in Nat /\ p[1] \in Names
  BY TimesAreNumbers, ApiAssumption DEF Packages
<1>2. fresh(now, now)
  BY <1>1 DEF fresh, Never
<1>3. c.clean[p] = IF p \in clean THEN now ELSE cache.clean[p]
  BY DEF MarkClean
<1>4. CASE p \in clean \/ fresh(cache.clean[p], now)
  BY <1>2, <1>3, <1>4 DEF Answered
<1>5. CASE fresh(cache.affected[p[1]].fetched_at, now)
  <2>1. ~\E q \in clean : q[1] = p[1]
    BY <1>5 DEF Answered
  <2>2. c.affected[p[1]] = cache.affected[p[1]]
    BY <1>1, <2>1 DEF MarkClean
  <2>3. QED
    BY <1>5, <2>2 DEF Answered
<1>6. QED
  BY <1>4, <1>5 DEF Answered

\* A name that was asked about is answered, and no other answer is lost.
LEMMA AffectedAnswered ==
    ASSUME NEW cache \in Cache, NEW names \in SUBSET Names, NEW ids, NEW now \in Time,
           now >= 1, Ttl > 0, NEW p \in Packages, p[1] \in names \/ Answered(cache, p, now)
    PROVE  Answered(MarkAffected(cache, names, ids, now), p, now)
<1> DEFINE c == MarkAffected(cache, names, ids, now)
<1>1. now \in Nat /\ Ttl \in Nat /\ p[1] \in Names
  BY TimesAreNumbers, ApiAssumption DEF Packages
<1>2. fresh(now, now)
  BY <1>1 DEF fresh, Never
<1>3. c.clean = cache.clean
  BY DEF MarkAffected, Cache
<1>4. c.affected[p[1]] = IF p[1] \in names THEN [ids |-> ids[p[1]], fetched_at |-> now]
                         ELSE cache.affected[p[1]]
  BY <1>1 DEF MarkAffected, Cache
<1>5. CASE p[1] \in names
  BY <1>2, <1>4, <1>5 DEF Answered
<1>6. CASE p[1] \notin names
  BY <1>3, <1>4, <1>6 DEF Answered
<1>7. QED
  BY <1>5, <1>6

\* A scan asks for what the cache does not answer.
LEMMA ReadsProgress ==
    ASSUME TypeOK, HonestInv, AskInv, Ttl > 0, [Next]_vars,
           NEW s \in Scans, NEW packages \in Projects, Reads(s, packages)
    PROVE  AskInv'
<1> DEFINE ask == {p \in Sendable(packages) : ~Answered(file, p, time)}
           to == [Idle EXCEPT
                  !.packages = packages, !.cache = file, !.now = time, !.ask = ask,
                  !.ids = IF ask = {} THEN Needed(file, packages) ELSE {},
                  !.step = IF ask = {} THEN "write" ELSE "versioned"]
<1>1. /\ Goes(s, to) /\ packages \in SUBSET Packages
      /\ UNCHANGED <<published, content, since, cut, records, lostRecords, file>>
  BY ApiAssumption DEF Reads, osvVars, diskVars, answerVars
<1>2. /\ Ordered(file) /\ AccountedCache(file, {}, records, lostRecords)
      /\ HonestAbout(file, published, content, since, cut)
      /\ file \in Cache /\ time \in Time
  BY HonestIsAbout DEF AskInv, HonestInv, CacheHonest, TypeOK
<1>3. /\ to.cache = file /\ to.missing = {} /\ to.now = time /\ to.packages = packages
      /\ to.ask = ask
      /\ ask = {} => to.step = "write" /\ to.ids = Needed(file, packages)
      /\ ask # {} => to.step = "versioned"
  BY DEF Idle
<1>4. ask = {} => /\ Looked(Needed(file, packages), packages, time, published, content, since, cut)
                  /\ Accounted(Needed(file, packages), {}, records, lostRecords)
  BY <1>1, <1>2, AllLooked, NeededAccounted
<1>5. Progresses(to)
  <2> HIDE DEF to, ask
  <2>1. CASE ask = {}
    BY <1>2, <1>3, <1>4, <2>1 DEF Progresses, Progress
  <2>2. CASE ask # {}
    BY <1>2, <1>3, <2>2 DEF Progresses, Progress, ask
  <2>3. QED
    BY <2>1, <2>2
<1>6. Progress(to, published', content', since', cut', records', lostRecords')
  BY <1>1, <1>5 DEF Progresses
<1>7. QED
  <2> HIDE DEF to
  <2>1. QED
    BY <1>1, <1>2, <1>6, OneScanProgress

\* After the versioned query only affected names are left to ask about.
LEMMA VersionedProgress ==
    ASSUME TypeOK, HonestInv, AskInv, Ttl > 0, [Next]_vars,
           NEW s \in Scans, Versioned(s)
    PROVE  AskInv'
<1> DEFINE from == scan[s]
           clean == {p \in from.ask : Hits(p[1], p[2]) = {}}
           affected == {p[1] : p \in from.ask \ clean}
           cache == MarkClean(from.cache, clean, from.now)
           to == [from EXCEPT
                     !.cache = cache, !.ask = {}, !.affected = affected,
                     !.ids = IF affected = {} THEN Needed(cache, from.packages) ELSE {},
                     !.step = IF affected = {} THEN "write" ELSE "unversioned"]
<1>1. /\ Goes(s, to) /\ from.step = "versioned"
      /\ UNCHANGED <<published, content, since, cut, records, lostRecords, file>>
  BY DEF Versioned, At, osvVars, diskVars, answerVars
<1>2. /\ from \in ScanState /\ from.cache \in Cache /\ from.now \in Time /\ from.now >= 1
      /\ from.packages \in SUBSET Packages /\ clean \in SUBSET Packages
  BY <1>1 DEF TypeOK, ScanState, HonestInv, ClockInv, At
<1>3. /\ Ordered(from.cache) /\ AccountedCache(from.cache, {}, records, lostRecords)
      /\ from.missing = {}
      /\ from.ask = {p \in Sendable(from.packages) : ~Answered(from.cache, p, from.now)}
  BY <1>1 DEF AskInv, Progresses, Progress
<1>4. /\ cache \in Cache /\ Ordered(cache) /\ AccountedCache(cache, {}, records, lostRecords)
      /\ HonestAbout(cache, published, content, since, cut)
  <2>1. HonestAbout(from.cache, published, content, since, cut)
    BY HonestIsAbout DEF HonestInv, CacheHonest
  <2>2. QED
    BY <1>2, <1>3, <2>1, MarkCleanTyped, CleanOrdered, CleanAccounted, CleanHonest
<1>5. ASSUME NEW p \in Sendable(from.packages)
      PROVE  p[1] \in affected \/ Answered(cache, p, from.now)
  <2>1. p \in Packages
    BY <1>2 DEF Sendable
  <2>2. \A q \in clean : ~Answered(from.cache, q, from.now)
    BY <1>3
  <2>3. CASE p \in from.ask \ clean
    BY <2>3
  <2>4. CASE p \in clean \/ Answered(from.cache, p, from.now)
    <3> HIDE DEF clean
    <3>1. QED
      BY <1>2, <2>1, <2>2, <2>4, CleanAnswered
  <2>5. QED
    BY <1>3, <1>5, <2>3, <2>4
<1>6. /\ to.cache = cache /\ to.missing = {} /\ to.now = from.now
      /\ to.packages = from.packages /\ to.affected = affected
      /\ affected = {} => to.step = "write" /\ to.ids = Needed(cache, from.packages)
      /\ affected # {} => to.step = "unversioned"
  <2> HIDE DEF cache, affected
  <2>1. QED
    BY <1>2, <1>3 DEF ScanState
<1> HIDE DEF cache, affected, to
<1>7. affected = {} =>
        /\ Looked(Needed(cache, from.packages), from.packages, from.now, published, content,
                  since, cut)
        /\ Accounted(Needed(cache, from.packages), {}, records, lostRecords)
  BY <1>2, <1>4, <1>5, AllLooked, NeededAccounted
<1>8. Progresses(to)
  <2>1. CASE affected = {}
    BY <1>4, <1>6, <1>7, <2>1 DEF Progresses, Progress
  <2>2. CASE affected # {}
    BY <1>4, <1>5, <1>6, <2>2 DEF Progresses, Progress
  <2>3. QED
    BY <2>1, <2>2
<1>9. Progress(to, published', content', since', cut', records', lostRecords')
  BY <1>1, <1>8 DEF Progresses
<1>10. Ordered(file') /\ AccountedCache(file', {}, records', lostRecords')
  BY <1>1 DEF AskInv
<1>11. QED
  BY <1>1, <1>9, <1>10, OneScanProgress

\* After the unversioned query every package is answered.
LEMMA UnversionedProgress ==
    ASSUME TypeOK, HonestInv, AskInv, Ttl > 0, [Next]_vars,
           NEW s \in Scans, Unversioned(s)
    PROVE  AskInv'
<1> DEFINE from == scan[s]
           names == from.affected
<1>1. PICK short \in SUBSET names, ids \in [names -> SUBSET published] :
        /\ \A n \in names : ids[n] \in Answer(n, short)
        /\ cut' = cut \cup short
        /\ LET cache   == MarkAffected(from.cache, names, ids, from.now)
               missing == {i \in UNION {ids[n] : n \in names} : ~records[i].there}
           IN Goes(s, [from EXCEPT
                           !.cache = cache, !.affected = {}, !.partial = short,
                           !.missing = missing,
                           !.ids = Needed(cache, from.packages),
                           !.step = IF missing = {} THEN "write" ELSE "records"])
  BY DEF Unversioned
<1> DEFINE cache == MarkAffected(from.cache, names, ids, from.now)
           missing == {i \in UNION {ids[n] : n \in names} : ~records[i].there}
           to == [from EXCEPT
                           !.cache = cache, !.affected = {}, !.partial = short,
                           !.missing = missing,
                           !.ids = Needed(cache, from.packages),
                           !.step = IF missing = {} THEN "write" ELSE "records"]
<1>2. /\ Goes(s, to) /\ from.step = "unversioned"
      /\ UNCHANGED <<published, content, since, records, lostRecords, file>>
  BY <1>1 DEF Unversioned, At, osvVars, diskVars
<1>3. /\ from \in ScanState /\ from.cache \in Cache /\ from.now \in Time /\ from.now >= 1
      /\ from.packages \in SUBSET Packages /\ names \in SUBSET Names
      /\ published \subseteq Ids /\ Past(from.cache, from.now) /\ from.now # Never
  BY <1>2 DEF TypeOK, ScanState, HonestInv, ClockInv, At, Never
<1>4. /\ Ordered(from.cache) /\ AccountedCache(from.cache, {}, records, lostRecords)
      /\ \A p \in Sendable(from.packages) :
            p[1] \in names \/ Answered(from.cache, p, from.now)
  BY <1>2 DEF AskInv, Progresses, Progress
<1>5. \A n \in names : \A i \in ids[n] : AboutName[i] = n
  BY <1>1 DEF Answer, AllOf
<1>6. cache \in Cache
  BY <1>3, MarkAffectedTyped
<1>7. Ordered(cache)
  BY <1>3, <1>4, <1>5, AffectedOrdered
<1>8. HonestAbout(cache, published, content, since, cut \cup short)
  <2>1. HonestAbout(from.cache, published, content, since, cut)
    BY HonestIsAbout DEF HonestInv, CacheHonest
  <2>2. HonestAbout(from.cache, published, content, since, cut \cup short)
    BY <2>1 DEF HonestAbout, HonestEntry
  <2>3. QED
    BY <1>1, <1>3, <2>2, AffectedHonest
<1>9. AccountedCache(cache, missing, records, lostRecords)
  <2>1. ASSUME NEW n \in Names
        PROVE  cache.affected[n].ids = IF n \in names THEN ids[n] ELSE from.cache.affected[n].ids
    BY <1>3 DEF MarkAffected, Cache
  <2>2. \A n \in names : Accounted(ids[n], missing, records, lostRecords)
    BY <1>1, <1>3 DEF Accounted, AskInv, RecordsInv
  <2>3. \A n \in Names : Accounted(from.cache.affected[n].ids, missing, records, lostRecords)
    BY <1>4 DEF AccountedCache, Accounted
  <2> HIDE DEF cache, missing
  <2>4. QED
    BY <2>1, <2>2, <2>3 DEF AccountedCache
<1>10. \A p \in Sendable(from.packages) : Answered(cache, p, from.now)
  <2>1. \A p \in Sendable(from.packages) : p \in Packages
    BY <1>3 DEF Sendable
  <2>2. QED
    BY <1>3, <1>4, <2>1, AffectedAnswered
<1>11. /\ to.cache = cache /\ to.missing = missing /\ to.now = from.now
       /\ to.packages = from.packages /\ to.ids = Needed(cache, from.packages)
       /\ to.step = IF missing = {} THEN "write" ELSE "records"
  <2> HIDE DEF cache, missing
  <2>1. QED
    BY <1>3 DEF ScanState
<1> HIDE DEF cache, missing, to
<1>12. /\ Looked(Needed(cache, from.packages), from.packages, from.now, published, content,
                 since, cut \cup short)
       /\ Accounted(Needed(cache, from.packages), missing, records, lostRecords)
  BY <1>3, <1>6, <1>7, <1>8, <1>9, <1>10, AllLooked, NeededAccounted
<1>13. Progress(to, published, content, since, cut \cup short, records, lostRecords)
  BY <1>7, <1>9, <1>11, <1>12 DEF Progress
<1>14. Progress(to, published', content', since', cut', records', lostRecords')
  BY <1>1, <1>2, <1>13
<1>15. Ordered(file') /\ AccountedCache(file', {}, records', lostRecords')
  BY <1>2 DEF AskInv
<1>16. QED
  BY <1>2, <1>14, <1>15, OneScanProgress

\* A record that arrives, or does not, is accounted for.
LEMMA FetchedProgress ==
    ASSUME TypeOK, HonestInv, AskInv, Ttl > 0, [Next]_vars,
           NEW s \in Scans, NEW i \in Ids,
           DownloadsRecord(s, i) \/ StoresGarbled(s, i) \/ RecordFails(s, i)
    PROVE  AskInv'
<1> DEFINE from == scan[s]
           to == [from EXCEPT
                  !.missing = @ \ {i},
                  !.step = IF from.missing = {i} THEN "write" ELSE "records"]
<1>1. /\ Goes(s, to) /\ from.step = "records" /\ i \in from.missing
      /\ UNCHANGED <<published, content, since, cut, file>>
      /\ records'[i].parses \/ i \in lostRecords'
  BY DEF DownloadsRecord, StoresGarbled, RecordFails, Fetched, At, osvVars, diskVars, answerVars, TypeOK
<1>2. /\ from \in ScanState /\ from.now <= time
  BY DEF TypeOK, HonestInv, ClockInv
<1>3. Progress(from, published', content', since', cut', records', lostRecords')
  BY <1>2, ProgressStays DEF AskInv, HonestInv
<1>4. /\ to.cache = from.cache /\ to.missing = from.missing \ {i} /\ to.now = from.now
      /\ to.packages = from.packages /\ to.ids = from.ids
      /\ to.step = IF from.missing = {i} THEN "write" ELSE "records"
  BY <1>2 DEF ScanState
<1>5. ASSUME NEW ids, Accounted(ids, from.missing, records', lostRecords')
      PROVE  Accounted(ids, from.missing \ {i}, records', lostRecords')
  BY <1>1, <1>5 DEF Accounted
<1> HIDE DEF to
<1>6. AccountedCache(to.cache, to.missing, records', lostRecords')
  BY <1>3, <1>4, <1>5 DEF Progress, AccountedCache
<1>7. Accounted(to.ids, to.missing, records', lostRecords')
  BY <1>1, <1>3, <1>4, <1>5 DEF Progress
<1>8. Progress(to, published', content', since', cut', records', lostRecords')
  BY <1>1, <1>3, <1>4, <1>6, <1>7 DEF Progress
<1>9. Ordered(file') /\ AccountedCache(file', {}, records', lostRecords')
  <2>1. file \in Cache
    BY DEF TypeOK
  <2>2. QED
    BY <1>1, <2>1, FileStays DEF AskInv
<1>10. QED
  BY <1>1, <1>8, <1>9, OneScanProgress

\* Writing the cache, or not, keeps what the scan looked at.
LEMMA WritesProgress ==
    ASSUME TypeOK, HonestInv, AskInv, Ttl > 0, [Next]_vars, NEW s \in Scans,
           Writes(s) \/ WriteFails(s)
    PROVE  AskInv'
<1> DEFINE from == scan[s]
           to == [from EXCEPT !.cache = NoCache, !.step = "match"]
<1>1. /\ Goes(s, to) /\ from.step = "write" /\ file' \in {from.cache, file}
      /\ UNCHANGED <<published, content, since, cut, records, lostRecords>>
  BY DEF Writes, WriteFails, At, osvVars, diskVars, answerVars
<1>2. from \in ScanState
  BY DEF TypeOK
<1>3. /\ Progress(from, published, content, since, cut, records, lostRecords)
      /\ from.missing = {}
  BY <1>1 DEF AskInv, Progresses, Progress
<1>4. /\ to.cache = NoCache /\ to.missing = {} /\ to.now = from.now
      /\ to.packages = from.packages /\ to.ids = from.ids /\ to.step = "match"
  BY <1>2, <1>3 DEF ScanState
<1> HIDE DEF to
<1>5. Progress(to, published, content, since, cut, records, lostRecords)
  BY <1>1, <1>3, <1>4, NothingOrdered DEF Progress
<1>6. Progress(to, published', content', since', cut', records', lostRecords')
  BY <1>1, <1>5
<1>7. Ordered(file') /\ AccountedCache(file', {}, records', lostRecords')
  <2>1. CASE file' = from.cache
    BY <1>1, <1>3, <2>1 DEF Progress
  <2>2. CASE file' = file
    BY <1>1, <2>2 DEF AskInv
  <2>3. QED
    BY <1>1, <2>1, <2>2
<1>8. QED
  BY <1>1, <1>6, <1>7, OneScanProgress

\* The other steps: those of osv.dev, and a scan that gives up or is done.
LEMMA AskStep ==
    Ttl > 0 /\ TypeOK /\ HonestInv /\ AskInv /\ [Next]_vars => AskInv'
<1> SUFFICES ASSUME Ttl > 0, TypeOK, HonestInv, AskInv, [Next]_vars PROVE AskInv'
  OBVIOUS
<1>1. Ordered(file) /\ AccountedCache(file, {}, records', lostRecords')
  <2>1. file \in Cache
    BY DEF TypeOK
  <2>2. QED
    BY <2>1, FileStays DEF AskInv
<1>2. CASE UNCHANGED <<file, scan>>
  <2>1. \A t \in Scans : scan[t] \in ScanState /\ scan[t].now <= time
    BY DEF TypeOK, HonestInv, ClockInv
  <2>2. \A t \in Scans : Progress(scan'[t], published', content', since', cut', records',
                                lostRecords')
    BY <1>2, <2>1, ProgressStays DEF AskInv, HonestInv
  <2>3. Ordered(file') /\ AccountedCache(file', {}, records', lostRecords')
    BY <1>1, <1>2
  <2>4. RecordsInv'
    BY RecordsStay DEF AskInv
  <2>5. QED
    BY <2>2, <2>3, <2>4
    DEF AskInv, Progresses, Ordered, OrderedEntry, AccountedCache, Accounted
<1>3. ASSUME NEW s \in Scans, QueryFails(s) \/ Match(s) PROVE AskInv'
  <2>1. Goes(s, Idle) /\ UNCHANGED file
    BY <1>3 DEF QueryFails, Match, diskVars
  <2>2. QED
    BY <1>1, <2>1, IdleProgress, OneScanProgress
<1>4. QED
  BY <1>2, <1>3, ReadsProgress, VersionedProgress, UnversionedProgress, FetchedProgress,
     WritesProgress
  DEF Next, ScanSteps, Tick, Publishes, Revises, Says, diskVars, vars

\* The three invariants hold together, unless answers are kept for no time.
LEMMA AskHolds == ASSUME Ttl > 0 PROVE Spec => [](TypeOK /\ HonestInv /\ AskInv)
<1>1. Init => TypeOK /\ HonestInv /\ AskInv
  <2>1. Init => CacheHonest
    BY DEF Init, CacheHonest, Honest
  <2>2. Init => AskInv
    BY NothingOrdered, IdleProgress DEF Init, AskInv, Progresses, RecordsInv, NoRecord
  <2>3. QED
    BY <2>1, <2>2, WorldInit, ApiTypeInit DEF HonestInv
<1>2. TypeOK /\ HonestInv /\ AskInv /\ [Next]_vars => (TypeOK /\ HonestInv /\ AskInv)'
  BY ApiTypeStep, HonestStep, AskStep
<1>3. QED
  BY <1>1, <1>2, PTL DEF Spec

\* Unless answers are kept for no time at all, a scan looks for every advisory
\* that is as old as the ttl, whatever was answered for other versions and by
\* other scans, for any number of them.
THEOREM NothingMissedHolds == Ttl > 0 => (Spec => []NothingMissed)
<1> SUFFICES ASSUME Ttl > 0 PROVE Spec => []NothingMissed
  OBVIOUS
<1>1. ASSUME TypeOK, HonestInv, AskInv PROVE NothingMissed
  <2> SUFFICES ASSUME NEW s \in Scans, At(s, "match"), NEW p \in scan[s].packages,
                      NEW i \in Ids, Due(s, p, i), p[1] \notin Private \cup cut
               PROVE  i \in scan[s].ids
    BY DEF NothingMissed
  <2>1. Looked(scan[s].ids, scan[s].packages, scan[s].now, published, content, since, cut)
    BY <1>1 DEF AskInv, Progresses, Progress, At
  <2>2. p \in Packages
    BY <1>1 DEF TypeOK, ScanState
  <2>3. p = <<AboutName[i], p[2]>> /\ p \in Sendable(scan[s].packages)
    BY <2>2 DEF Packages, Due, Sendable
  <2>4. QED
    BY <2>1, <2>3 DEF Looked, Due
<1>2. QED
  BY <1>1, AskHolds, PTL

\* For a package with a finding the index holds every advisory as old as the
\* ttl, unless the answer for it was cut short or a record was given up.
THEOREM CompleteOnceAskedHolds == Ttl > 0 => (Spec => []CompleteOnceAsked)
<1> SUFFICES ASSUME Ttl > 0 PROVE Spec => []CompleteOnceAsked
  OBVIOUS
<1>1. ASSUME TypeOK, HonestInv, AskInv PROVE CompleteOnceAsked
  <2> SUFFICES ASSUME NEW s \in Scans, At(s, "match"), NEW f \in Found(s),
                      f[1][1] \notin cut, NEW i \in Lacks(s, f[1][1])
               PROVE  i \in lostRecords
    BY DEF CompleteOnceAsked
  <2> DEFINE n == f[1][1]
  <2>1. /\ Looked(scan[s].ids, scan[s].packages, scan[s].now, published, content, since, cut)
        /\ Accounted(scan[s].ids, {}, records, lostRecords)
    BY <1>1 DEF AskInv, Progresses, Progress, At
  <2>2. f[2] \in scan[s].ids /\ AboutName[f[2]] = n
    BY DEF Found, Indexed
  <2>3. PICK v \in content[i] : Due(s, <<n, v>>, i)
    BY DEF Lacks
  <2>4. i \in published /\ AboutName[i] = n /\ since[i][v] + Ttl <= scan[s].now
    BY <2>3 DEF Due
  <2>5. i \in scan[s].ids
    BY <2>1, <2>2, <2>3, <2>4 DEF Looked
  <2>6. i \notin Indexed(s)
    BY DEF Lacks
  <2>7. QED
    BY <2>1, <2>5, <2>6 DEF Indexed, Accounted
<1>2. QED
  BY <1>1, AskHolds, PTL

-----------------------------------------------------------------------------
(* The installed server.  What has to be known for LaunchesPublished is     *)
(* what every other directory holds while one is being filled, and how far  *)
(* that one is.                                                             *)

Directory == [sums : {"none", "complete", "useless"},
              binary : {"none", "published", "spoilt"}, executable : BOOLEAN]

InstallerTypeOK ==
    /\ pin \in Pins
    /\ held \in [Pins -> Directory]
    /\ step \in {"idle", "look", "release", "sums", "binary", "verify", "permit", "clean"}
    /\ abandoned \subseteq Pins

\* A directory nobody is filling is whole, or was abandoned.
AtRest ==
    \A v \in Pins :
        v # pin \/ step \in {"idle", "look"} => Whole(held[v]) \/ v \in abandoned

\* The directory of the call: empty until the download, then as far as it is.
Underway ==
    /\ step \in {"release", "sums", "binary"} => held[pin].binary = "none"
    /\ step = "permit" => held[pin].binary = "published"
    /\ step = "clean" => held[pin].binary = "published" /\ held[pin].executable

InstallerInv ==
    /\ InstallerTypeOK
    /\ AtRest
    /\ Underway
    /\ step # "idle" => answer = NoAnswer
    /\ LaunchesPublished

\* Nothing is installed or under way at first.
LEMMA InstallerInvInit == InstallerInit => InstallerInv
  BY DEF InstallerInit, InstallerInv, InstallerTypeOK, Directory, AtRest, Underway, Whole,
         LaunchesPublished, Nothing, NoAnswer

\* No step, fault or kill leaves a directory that launches something else.
LEMMA InstallerInvStays == InstallerInv /\ [InstallerNext]_installerVars => InstallerInv'
<1> SUFFICES ASSUME InstallerInv, [InstallerNext]_installerVars PROVE InstallerInv'
    OBVIOUS
<1> USE DEF InstallerInv, InstallerTypeOK, Directory, AtRest, Underway, Whole,
            LaunchesPublished, Runs, NoAnswer, Failed
<1>1. CASE Resolves
    BY <1>1 DEF Resolves, Ends, Sound
<1>2. CASE Looks
    <2>1. CASE held[pin].binary # "none"
        <3>1. Whole(held[pin]) \/ pin \in abandoned
            BY <1>2 DEF Looks
        <3>2. answer' = Installed(pin) /\ step' = "idle"
            BY <1>2, <2>1 DEF Looks, Ends
        <3>3. UNCHANGED <<pin, held, abandoned>>
            BY <1>2, <2>1 DEF Looks, Ends
        <3>4. LaunchesPublished'
            BY <3>1, <3>2, <3>3, <2>1 DEF Installed
        <3> QED BY <1>2, <3>1, <3>2, <3>3, <3>4 DEF Looks
    <2>2. CASE held[pin].binary = "none"
        BY <1>2, <2>2 DEF Looks, Continues
    <2> QED BY <2>1, <2>2
<1>3. CASE FindsRelease
    BY <1>3 DEF FindsRelease, Continues, Ends, Sound, Faulty
<1>4. CASE DownloadsSums
    <2>1. /\ pin' = pin /\ held' \in [Pins -> Directory]
          /\ \A v \in Pins : /\ held'[v].binary = held[v].binary
                             /\ held'[v].executable = held[v].executable
        BY <1>4 DEF DownloadsSums, Leaves
    <2>2. \/ step' = "binary" /\ UNCHANGED <<answer, abandoned>>
          \/ step' = "idle" /\ answer' = Failed /\ UNCHANGED abandoned
        BY <1>4 DEF DownloadsSums, Continues, Ends
    <2> QED BY <1>4, <2>1, <2>2 DEF DownloadsSums
<1>5. CASE DownloadsBinary
    <2>1. /\ pin' = pin /\ held' \in [Pins -> Directory]
          /\ \A v \in Pins \ {pin} : held'[v] = held[v]
        BY <1>5 DEF DownloadsBinary, LeavesBinary
    <2>2. \/ step' = "verify" /\ UNCHANGED <<answer, abandoned>>
          \/ step' = "idle" /\ answer' = Failed /\ UNCHANGED <<abandoned, held>>
          \/ step' = "idle" /\ answer' = Failed /\ abandoned' = abandoned \cup {pin}
        BY <1>5 DEF DownloadsBinary, Continues, Ends, Abandons
    <2> QED BY <1>5, <2>1, <2>2 DEF DownloadsBinary
<1>6. CASE Verifies
    <2>1. CASE UNCHANGED held /\ Abandons(Failed)
        BY <1>6, <2>1 DEF Verifies, Abandons
    <2>2. CASE LeavesBinary("none") /\ Ends(Failed)
        <3>1. /\ pin' = pin /\ held' \in [Pins -> Directory]
              /\ \A v \in Pins \ {pin} : held'[v] = held[v]
              /\ held'[pin].binary = "none"
            BY <1>6, <2>2 DEF Verifies, LeavesBinary
        <3> QED BY <1>6, <2>2, <3>1 DEF Verifies, Ends
    <2>3. CASE held[pin].binary = "published" /\ UNCHANGED held /\ Continues("permit")
        BY <1>6, <2>3 DEF Verifies, Continues
    <2> QED BY <1>6, <2>1, <2>2, <2>3 DEF Verifies
<1>7. CASE Permits
    <2>1. CASE Leaves("executable", TRUE) /\ Continues("clean")
        <3>1. /\ pin' = pin /\ held' \in [Pins -> Directory]
              /\ \A v \in Pins \ {pin} : held'[v] = held[v]
              /\ held'[pin].binary = "published" /\ held'[pin].executable
            BY <1>7, <2>1 DEF Permits, Leaves
        <3> QED BY <1>7, <2>1, <3>1 DEF Permits, Continues
    <2>2. CASE UNCHANGED held /\ Abandons(Failed)
        BY <1>7, <2>2 DEF Permits, Abandons
    <2> QED BY <1>7, <2>1, <2>2 DEF Permits
<1>8. CASE RemovesOthers
    <2>1. /\ pin' = pin /\ held' \in [Pins -> Directory] /\ held'[pin] = held[pin]
          /\ \A v \in Pins : held'[v] = held[v] \/ held'[v] = Nothing
        BY <1>8 DEF RemovesOthers, Nothing
    <2>2. step' = "idle" /\ answer' = Installed(pin) /\ abandoned' = abandoned \ {pin}
        BY <1>8 DEF RemovesOthers
    <2>3. held[pin].binary = "published" /\ held[pin].executable
        BY <1>8 DEF RemovesOthers
    <2>4. AtRest'
        BY <1>8, <2>1, <2>2, <2>3 DEF RemovesOthers, Nothing
    <2>5. LaunchesPublished'
        BY <2>2, <2>3 DEF Installed
    <2> QED BY <2>1, <2>2, <2>4, <2>5
<1>9. CASE Killed
    <2>1. /\ pin' = pin /\ held' \in [Pins -> Directory]
          /\ \A v \in Pins \ {pin} : held'[v] = held[v]
        BY <1>9 DEF Killed, Leaves, LeavesBinary
    <2>2. /\ step' = "idle" /\ answer' = NoAnswer
          /\ \/ Whole(held'[pin]) /\ UNCHANGED abandoned
             \/ abandoned' = abandoned \cup {pin}
        BY <1>9 DEF Killed, Ends, Abandons
    <2>3. AtRest'
        BY <2>1, <2>2
    <2> QED BY <2>1, <2>2, <2>3
<1>10. CASE Repins
    BY <1>10 DEF Repins
<1>11. CASE UNCHANGED installerVars
    BY <1>11 DEF installerVars
<1> QED BY <1>1, <1>2, <1>3, <1>4, <1>5, <1>6, <1>7, <1>8, <1>9, <1>10, <1>11
        DEF InstallerNext

\* Whatever is killed, fails or is cut short, and however often the extension
\* is upgraded or taken back: LaunchesPublished, so what a comparison rejected
\* and removed, and what it never saw and never kept, is not launched.
THEOREM PublishedIsLaunched == InstallerSpec => []LaunchesPublished
<1>1. InstallerInv => LaunchesPublished
    BY DEF InstallerInv
<1> QED BY <1>1, InstallerInvInit, InstallerInvStays, PTL DEF InstallerSpec
=============================================================================
