------------------------------- MODULE Ranges -------------------------------
(***************************************************************************)
(* osv.rs and matcher.rs: what an advisory says of a version.              *)
(* flatten_ranges() turns a timeline of events into explicit ranges when a *)
(* record is decoded, one event at a time; in_range() and affects() ask    *)
(* them.  Here every advisory is about one package and has one timeline; a *)
(* GIT timeline is an empty one, since it is dropped.                      *)
(*                                                                         *)
(* A version has a rank, which is all Version::compare looks at, and a     *)
(* spelling: "1.0" and "1.0.0" can be the same version.  Rank 0 is OSV's   *)
(* "0", affected since the first release, and below every version.         *)
(***************************************************************************)
EXTENDS Integers, Sequences

CONSTANTS
    A,           \* advisories, in the order they are decoded
    Releases,    \* versions a package may have or an advisory may name
    None         \* no bound

ASSUME RangesAssumption ==
    /\ A \in Nat
    /\ \A r \in Releases : r.rank \in Nat \ {0}
    /\ None \notin Releases

Advisories == 1..A
Beginning == 0
Ranks == {r.rank : r \in Releases} \cup {Beginning}

\* An event of another kind, such as "limit", is read and ignored.
Event ==
    [kind : {"introduced"}, rank : Ranks]
        \cup [kind : {"fixed", "last_affected"}, at : Releases]
        \cup [kind : {"other"}]

\* AffectedRange; `introduced` is empty exactly where it is the beginning.
AffectedRange ==
    [introduced : Ranks, fixed : Releases \cup {None},
     last_affected : Releases \cup {None}]
Unbounded == [introduced |-> Beginning, fixed |-> None, last_affected |-> None]

VARIABLES
    timeline,       \* per advisory, its events as published
    listed,         \* per advisory, the versions it names outright
    reading, event, \* the record being decoded, and its next event
    current, open,  \* the window being built
    ranges          \* per advisory, what was flattened so far

decoding == <<reading, event, current, open, ranges>>
rangeVars == <<timeline, listed, decoding>>

RangesTypeOK ==
    /\ timeline \in [Advisories -> Seq(Event)]
    /\ listed \in [Advisories -> SUBSET Releases]
    /\ reading \in Nat \ {0}
    /\ event \in Nat \ {0}
    /\ current \in AffectedRange
    /\ open \in BOOLEAN
    /\ ranges \in [Advisories -> SUBSET AffectedRange]

\* Every record is still to be decoded.
Undecoded ==
    /\ reading = 1 /\ event = 1
    /\ current = Unbounded /\ open = FALSE
    /\ ranges = [a \in Advisories |-> {}]

RangesInit ==
    /\ timeline \in [Advisories -> Seq(Event)]
    /\ listed \in [Advisories -> SUBSET Releases]
    /\ Undecoded

-----------------------------------------------------------------------------
(* flatten_ranges()                                                        *)

Pushes(range) == ranges' = [ranges EXCEPT ![reading] = @ \cup {range}]

Events == timeline[reading]

AtEvent(kinds) ==
    /\ reading \in Advisories
    /\ event <= Len(Events)
    /\ Events[event].kind \in kinds
    /\ event' = event + 1
    /\ UNCHANGED <<timeline, listed, reading>>

\* Mutant: the next introduction moves the one that is still open.
IntroducedMoves ==
    /\ AtEvent({"introduced"})
    /\ current' = [Unbounded EXCEPT !.introduced = Events[event].rank]
    /\ open' = TRUE
    /\ UNCHANGED ranges

\* An introduction opens a window; one still open stays open-ended.
Introduced ==
    /\ AtEvent({"introduced"})
    /\ IF open THEN Pushes(current) ELSE UNCHANGED ranges
    /\ current' = [Unbounded EXCEPT !.introduced = Events[event].rank]
    /\ open' = TRUE

Closed(range, e) == IF e.kind = "fixed" THEN [range EXCEPT !.fixed = e.at]
                                        ELSE [range EXCEPT !.last_affected = e.at]

\* A fixed or last_affected event closes the window, opened or not.
Closes ==
    /\ AtEvent({"fixed", "last_affected"})
    /\ Pushes(Closed(current, Events[event]))
    /\ current' = Unbounded
    /\ open' = FALSE

Ignores ==
    /\ AtEvent({"other"})
    /\ UNCHANGED <<current, open, ranges>>

\* The timeline is over: what was never closed is still affected.
Ends ==
    /\ reading \in Advisories
    /\ event > Len(Events)
    /\ IF open THEN Pushes(current) ELSE UNCHANGED ranges
    /\ reading' = reading + 1 /\ event' = 1
    /\ current' = Unbounded /\ open' = FALSE
    /\ UNCHANGED <<timeline, listed>>

Flattens == Introduced \/ Closes \/ Ignores \/ Ends

RangesSpec == RangesInit /\ [][Flattens]_rangeVars

Decoded(a) == a < reading

-----------------------------------------------------------------------------
(* in_range(), affects()                                                   *)

\* Mutant: a fixed version is affected still.
InRangeClosed(range, v) ==
    /\ range.introduced <= v.rank
    /\ range.fixed # None => v.rank <= range.fixed.rank
    /\ range.fixed = None /\ range.last_affected # None =>
            v.rank <= range.last_affected.rank

\* Half-open up to a fix, closed up to the last affected version.
InRange(range, v) ==
    /\ range.introduced <= v.rank
    /\ range.fixed # None => v.rank < range.fixed.rank
    /\ range.fixed = None /\ range.last_affected # None =>
            v.rank <= range.last_affected.rank

\* A listed version is affected as it is spelt.
Affects(a, v) == v \in listed[a] \/ \E range \in ranges[a] : InRange(range, v)

-----------------------------------------------------------------------------
(* What a timeline means: going through its events, the last one a version *)
(* has reached says whether it is affected.                                *)

IsIntroduced(e) == e.kind = "introduced"

Begins(e, v) == IsIntroduced(e) /\ e.rank <= v.rank

EndsBefore(e, v) ==
    \/ e.kind = "fixed" /\ e.at.rank <= v.rank
    \/ e.kind = "last_affected" /\ e.at.rank < v.rank

\* An introduction v has reached, and no later event it has reached ends that.
Exposed(events, v) ==
    \E i \in DOMAIN events :
        /\ Begins(events[i], v)
        /\ \A j \in i + 1..Len(events) : ~EndsBefore(events[j], v)

Matched(a, v) == \E range \in ranges[a] : InRange(range, v)

\* "An introduction that is never closed means still affected, and stays
\* open-ended" (osv.rs, flatten_ranges).  However the events of a timeline are
\* ordered, repeated or left unpaired, no version it exposes is lost.
NothingLost ==
    \A a \in Advisories : Decoded(a) =>
        \A v \in Releases : Exposed(timeline[a], v) => Matched(a, v)

RankOf(e) == IF IsIntroduced(e) THEN e.rank ELSE e.at.rank

\* Introductions and what closes them alternate, in the order of versions; a
\* window may be one version wide, but two do not touch.
Regular(events) ==
    \A i \in DOMAIN events :
        /\ events[i].kind # "other"
        /\ IsIntroduced(events[i]) <=> i % 2 = 1
        /\ \A j \in 1..i - 1 :
              /\ RankOf(events[j]) <= RankOf(events[i])
              /\ IsIntroduced(events[i]) => RankOf(events[j]) < RankOf(events[i])

\* "Pairing an event with the wrong introduction makes an advisory match
\* versions it does not affect" (osv.rs, flatten_ranges): of a timeline in
\* order, only the versions it exposes are matched.
NothingAdded ==
    \A a \in Advisories : Decoded(a) /\ Regular(timeline[a]) =>
        \A v \in Releases : Matched(a, v) => Exposed(timeline[a], v)
=============================================================================
