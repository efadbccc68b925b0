------------------------------ MODULE Findings ------------------------------
(***************************************************************************)
(* What a scan makes of one npm project: the lockfile's entries and the    *)
(* manifest's declarations are reconciled (extract.rs) with the chains     *)
(* Graph found for them; what is left is matched (matcher.rs) against the  *)
(* advisories Ranges decoded, with the upgrade to offer; and action.rs     *)
(* decides whether to offer it as an edit.                                 *)
(*                                                                         *)
(* package.json and package-lock.json sit in one directory.  A declaration *)
(* names the package its entry is published as, and states a version an    *)
(* edit can rewrite.  Dependency groups, severity, the order of the report  *)
(* and wording are left out.                                               *)
(***************************************************************************)
EXTENDS Graph, Ranges

CONSTANTS
    Names,
    Inputs   \* what a project and the advisories about it can be

Package == [name : Names, version : Releases]

ASSUME NoneAssumption ==
    /\ None \notin Package
    /\ None \notin [node : Nodes, line : Nat, paths : Seq(Seq(Nodes))]

ASSUME FindingsAssumption ==
    \A input \in Inputs :
        /\ input.lock \in Lock
        /\ input.entry \in [Nodes -> Package]
        /\ input.about \in [Advisories -> Names]
        /\ input.timeline \in [Advisories -> Seq(Event)]
        /\ input.listed \in [Advisories -> SUBSET Releases]

VARIABLES
    entry,       \* per lock entry, its package
    about,       \* per advisory, the package it is about
    reconciled,  \* lock entries reconcile() has dealt with
    sightings,   \* what survives, per package
    subject,     \* the finding being matched, None before that
    candidates,  \* fixed versions not tried yet
    fix

pairVars == <<entry, about>>
matchVars == <<subject, candidates, fix>>
findingVars == <<graphVars, rangeVars, pairVars, reconciled, sightings, matchVars>>

\* line 0 is the lockfile's own line.  No path: the dependency is direct.
Sighting == [node : Nodes, line : 0..Len(lock.declares), paths : Seq(Seq(Nodes))]

Fix == [is : {"undecided", "none", "partial", "clears"}, to : Releases \cup {None}]
Undecided == [is |-> "undecided", to |-> None]
NoFix     == [is |-> "none", to |-> None]
Partial   == [is |-> "partial", to |-> None]
Clears(v) == [is |-> "clears", to |-> v]

FindingsTypeOK ==
    /\ GraphTypeOK
    /\ RangesTypeOK
    /\ reconciled \in 0..N
    /\ \A p \in Package : sightings[p] = None \/ sightings[p] \in Sighting
    /\ subject = None \/ subject \in Package
    /\ candidates \subseteq Releases
    /\ fix \in Fix

\* Nothing is done yet for a project and the advisories about it.
Unmatched(input) ==
    /\ lock = input.lock /\ entry = input.entry /\ about = input.about
    /\ timeline = input.timeline /\ listed = input.listed
    /\ Unwalked
    /\ Undecoded
    /\ reconciled = 0
    /\ sightings = [p \in Package |-> None]
    /\ subject = None
    /\ candidates = {}
    /\ fix = Undecided

FindingsInit == \E input \in Inputs : Unmatched(input)

Extracts ==
    /\ Walks
    /\ UNCHANGED <<rangeVars, pairVars, reconciled, sightings, matchVars>>

Loads ==
    /\ walked /\ reconciled = N
    /\ Flattens
    /\ UNCHANGED <<graphVars, pairVars, reconciled, sightings, matchVars>>

-----------------------------------------------------------------------------
(* reconcile()                                                             *)

\* A lock entry is declared where the manifest names its package.
Sites(n) == {i \in DOMAIN lock.declares : entry[lock.declares[i]].name = entry[n].name}

First(S) == CHOOSE i \in S : \A j \in S : i <= j

\* Where one lock entry is reported: at what declares it, else at what pulls it
\* in, else at its own line.
Reported(n) ==
    IF Sites(n) # {} THEN [node |-> n, line |-> First(Sites(n)), paths |-> <<>>]
                     ELSE [node |-> n, line |-> found[n].line, paths |-> found[n].paths]

\* Mutant: the first sighting of a package stays.
SupersedesNever(candidate, old) == FALSE

\* A direct dependency outranks a transitive one, a shorter chain a longer one.
Supersedes(candidate, old) ==
    /\ old.paths # <<>>
    /\ candidate.paths # <<>> => Len(candidate.paths[1]) < Len(old.paths[1])

\* One sighting per package and version.
Reconciles ==
    /\ walked
    /\ reconciled < N
    /\ reconciled' = reconciled + 1
    /\ LET n == reconciled + 1
           old == sightings[entry[n]]
       IN sightings' = IF old = None \/ Supersedes(Reported(n), old)
                       THEN [sightings EXCEPT ![entry[n]] = Reported(n)] ELSE sightings
    /\ UNCHANGED <<graphVars, rangeVars, pairVars, matchVars>>

-----------------------------------------------------------------------------
(* Matcher::findings                                                       *)

Loaded == reading \notin Advisories

\* Index::lookup
Lookup(name) == {a \in Advisories : about[a] = name}

AffectedAt(name, v) == \E a \in Lookup(name) : Affects(a, v)

Applicable(p) == {a \in Lookup(p.name) : Affects(a, p.version)}

\* The fixed versions these advisories name.
FixedVersions(hits) ==
    {range.fixed : range \in UNION {ranges[a] : a \in hits}} \ {None}

\* One dependency that is affected, and the versions fix_for() will try.
Matches ==
    /\ walked /\ reconciled = N /\ Loaded
    /\ subject = None
    /\ \E p \in Package :
          /\ sightings[p] # None
          /\ Applicable(p) # {}
          /\ subject' = p
          /\ candidates' = {v \in FixedVersions(Applicable(p)) : p.version.rank < v.rank}
          /\ fix' = IF candidates' = {} THEN NoFix ELSE Undecided
    /\ UNCHANGED <<graphVars, rangeVars, pairVars, reconciled, sightings>>

\* Mutant: a candidate need only clear the advisories that were found.
TriesOnlyHits ==
    /\ subject # None /\ fix = Undecided
    /\ \E v \in candidates :
          /\ \A w \in candidates : v.rank <= w.rank
          /\ candidates' = {w \in candidates : w.rank # v.rank}
          /\ fix' = IF \A a \in Applicable(subject) : ~Affects(a, v) THEN Clears(v)
                    ELSE IF candidates' = {} THEN Partial ELSE Undecided
    /\ UNCHANGED <<graphVars, rangeVars, pairVars, reconciled, sightings, subject>>

\* Mutant: the highest fixed version first.
TriesHighest ==
    /\ subject # None /\ fix = Undecided
    /\ \E v \in candidates :
          /\ \A w \in candidates : v.rank >= w.rank
          /\ candidates' = {w \in candidates : w.rank # v.rank}
          /\ fix' = IF ~AffectedAt(subject.name, v) THEN Clears(v)
                    ELSE IF candidates' = {} THEN Partial ELSE Undecided
    /\ UNCHANGED <<graphVars, rangeVars, pairVars, reconciled, sightings, subject>>

\* The lowest candidate, in one of its spellings, against the whole index.
Tries ==
    /\ subject # None /\ fix = Undecided
    /\ \E v \in candidates :
          /\ \A w \in candidates : v.rank <= w.rank
          /\ candidates' = {w \in candidates : w.rank # v.rank}
          /\ fix' = IF ~AffectedAt(subject.name, v) THEN Clears(v)
                    ELSE IF candidates' = {} THEN Partial ELSE Undecided
    /\ UNCHANGED <<graphVars, rangeVars, pairVars, reconciled, sightings, subject>>

FindingsNext == Extracts \/ Reconciles \/ Loads \/ Matches \/ Tries

FindingsSpec == FindingsInit /\ [][FindingsNext]_findingVars

-----------------------------------------------------------------------------
(* upgrades(): the edit.                                                   *)

\* A direct dependency, anchored where its version is written.
Offered ==
    /\ fix.is = "clears"
    /\ sightings[subject].paths = <<>>
    /\ sightings[subject].line # 0

-----------------------------------------------------------------------------
(* Properties.                                                             *)

\* "Each candidate is checked against the whole index, not just the advisories
\* that produced this finding, because a fix for one can be affected by
\* another" (matcher.rs, fix_for): upgrading to the version a finding names
\* leaves nothing to find, and never goes back.
FixIsClean ==
    fix.is = "clears" =>
        /\ subject.version.rank < fix.to.rank
        /\ Applicable([subject EXCEPT !.version = fix.to]) = {}

\* Some spelling of a release a finding's advisories call fixed is affected.
StillAffected(v) ==
    \E w \in FixedVersions(Applicable(subject)) :
        w.rank = v.rank /\ AffectedAt(subject.name, w)

\* "The lowest published version above the installed one that no advisory on
\* this package still affects" (matcher.rs, fix_for): every lower one was
\* tried and is affected, and when there is no answer all of them are.
FixIsLowest ==
    fix.is # "undecided" =>
        \A v \in FixedVersions(Applicable(subject)) :
            /\ subject.version.rank < v.rank
            /\ fix.is = "clears" => v.rank < fix.to.rank
            => StillAffected(v)

\* "A shorter chain outranks a longer one" (extract.rs, supersedes), whatever
\* the order of the lockfile: a package that is only pulled in is explained by
\* the shortest chain to any copy of that version.
ShortestCopyWins ==
    reconciled = N => \A p \in Package :
        sightings[p] # None /\ sightings[p].paths # <<>> =>
            \A n \in Nodes : entry[n] = p =>
                /\ found[n] # NotFound
                /\ Len(sightings[p].paths[1]) <= Len(found[n].paths[1])

\* "Above the installed one keeps a fix backported to an older release line
\* from being offered as a downgrade" (matcher.rs, fix_for): the version an
\* edit writes on a line of the manifest is above what that line installed.
NoDowngrade ==
    Offered => fix.to.rank > entry[lock.declares[sightings[subject].line]].version.rank
=============================================================================
