------------------------------ MODULE Database ------------------------------
(***************************************************************************)
(* ensure_one of db.rs for one ecosystem: heal, staleness, the file lock,  *)
(* the conditional request, publication by rename, and the sidecar, run by *)
(* several server processes over one cache directory.  Every read and      *)
(* every write of the directory is a step of its own.                      *)
(*                                                                         *)
(* Other tools and the user share the directory too: they may leave a      *)
(* half-written archive, delete it, or put a whole one there.  A process   *)
(* may be killed between any two steps; its lock goes with it.             *)
(***************************************************************************)
EXTENDS Naturals

CONSTANTS
    Processes,
    MaxVersion,     \* bound: versions the bucket ever offers
    MaxExpiries,    \* bound: how often the freshness window runs out
    MaxFaults,      \* bound: kills, and sidecar writes that fail
    Outside,        \* what others do to the archive: "tear", "delete", "replace"
    MaxOutside,     \* bound: how often they do
    OutsideAnytime  \* FALSE: only while no process is in ensure_one

ASSUME DatabaseAssumption ==
    /\ MaxVersion \in Nat \ {0}
    /\ MaxExpiries \in Nat /\ MaxFaults \in Nat /\ MaxOutside \in Nat
    /\ Outside \subseteq {"tear", "delete", "replace"}
    /\ OutsideAnytime \in BOOLEAN

\* A file at the archive's path.  `stamp` is its modification time.
Archive == [ver : Nat, ok : BOOLEAN, stamp : Nat]
Gone    == [ver |-> 0, ok |-> FALSE, stamp |-> 0]

\* The sidecar; `fresh` is fetched_at within the ttl.  None and an empty one
\* are alike: stale, with no etag to offer.
Meta   == [etag : Nat, fresh : BOOLEAN]
NoMeta == [etag |-> 0, fresh |-> FALSE]

CONSTANT Nobody
ASSUME NobodyAssumption == Nobody \notin Processes

VARIABLES
    archive, meta,
    bucket,      \* version the bucket serves
    lock,        \* who holds the lock file
    at,          \* what each process does next
    validated,   \* per process, the stamp that passed validation
    modified,    \* per process, the stamp heal() read
    sent,        \* per process, the etag it offered, 0 for none
    body,        \* per process, the version it received
    result       \* per process, what its last ensure_one returned

\* Bounds, the clock of the file system, and history.
VARIABLES
    stamp, expiries, faults, outside,
    refreshes    \* sidecars written since the last reason to write one

disk   == <<archive, meta>>
locals == <<validated, modified, sent, body>>
bounds == <<stamp, expiries, faults, outside, refreshes>>
vars   == <<disk, bucket, lock, at, locals, result, bounds>>

Steps == {"idle", "heal", "validate", "remove", "forget", "stale", "age", "lock", "await",
          "recheck", "reage", "request", "offer", "response", "rename", "stat", "write", "renew"}

DbTypeOK ==
    /\ archive \in Archive
    /\ meta \in Meta
    /\ bucket \in Nat
    /\ lock \in Processes \cup {Nobody}
    /\ at \in [Processes -> Steps]
    /\ validated \in [Processes -> Nat]
    /\ modified \in [Processes -> Nat]
    /\ sent \in [Processes -> Nat]
    /\ body \in [Processes -> Nat]
    /\ result \in [Processes -> {"none", "ok", "failed"}]
    /\ stamp \in Nat /\ expiries \in Nat /\ faults \in Nat /\ outside \in Nat
    /\ refreshes \in Nat

\* A first start, or an archive another tool left without our sidecar.
Init ==
    /\ archive \in {Gone, [ver |-> 1, ok |-> TRUE, stamp |-> 1]}
    /\ meta = NoMeta
    /\ bucket = 1
    /\ lock = Nobody
    /\ at = [p \in Processes |-> "idle"]
    /\ validated = [p \in Processes |-> 0]
    /\ modified = [p \in Processes |-> 0]
    /\ sent = [p \in Processes |-> 0]
    /\ body = [p \in Processes |-> 0]
    /\ result = [p \in Processes |-> "none"]
    /\ stamp = 1 /\ expiries = 0 /\ faults = 0 /\ outside = 0
    /\ refreshes = 0

-----------------------------------------------------------------------------
Goes(p, from, to) ==
    /\ at[p] = from
    /\ at' = [at EXCEPT ![p] = to]

\* ensure_one() returns r; its lock, if it had it, is released.
Returns(p, from, r) ==
    /\ Goes(p, from, "idle")
    /\ result' = [result EXCEPT ![p] = r]
    /\ lock' = IF lock = p THEN Nobody ELSE lock

Present == archive # Gone

Ensures(p) ==
    /\ Goes(p, "idle", "heal")
    /\ result' = [result EXCEPT ![p] = "none"]
    /\ UNCHANGED <<disk, bucket, lock, locals, bounds>>

\* The directory cannot be made or the lock file not opened.
OpenFails(p) ==
    /\ Returns(p, "heal", "failed") \/ Returns(p, "lock", "failed")
    /\ UNCHANGED <<disk, bucket, locals, bounds>>

(* heal() *)

\* An archive this process validated before, by its modification time, is not
\* read again.
HealStats(p) ==
    /\ Goes(p, "heal",
            IF ~Present \/ validated[p] = archive.stamp THEN "stale" ELSE "validate")
    /\ modified' = [modified EXCEPT ![p] = archive.stamp]
    /\ UNCHANGED <<disk, bucket, lock, validated, sent, body, result, bounds>>

\* Mutant: the stamp is entered before the archive is opened.
HealTrusts(p) ==
    /\ Goes(p, "validate", IF archive.ok THEN "stale" ELSE "remove")
    /\ validated' = [validated EXCEPT ![p] = modified[p]]
    /\ UNCHANGED <<disk, bucket, lock, modified, sent, body, result, bounds>>

\* validate_zip() of what is at the path now.
HealValidates(p) ==
    /\ Goes(p, "validate", IF archive.ok THEN "stale" ELSE "remove")
    /\ validated' = IF archive.ok THEN [validated EXCEPT ![p] = modified[p]] ELSE validated
    /\ UNCHANGED <<disk, bucket, lock, modified, sent, body, result, bounds>>

\* Whether a file could be removed is not looked at.
HealRemoves(p) ==
    /\ Goes(p, "remove", "forget")
    /\ archive' \in {Gone, archive}
    /\ UNCHANGED <<meta, bucket, lock, locals, result, bounds>>

HealForgets(p) ==
    /\ Goes(p, "forget", "stale")
    /\ meta' \in {NoMeta, meta}
    /\ UNCHANGED <<archive, bucket, lock, locals, result, bounds>>

(* The lock *)

\* stale() looks for the archive, then reads the sidecar.
ChecksStale(p) ==
    /\ Goes(p, "stale", IF Present THEN "age" ELSE "lock")
    /\ UNCHANGED <<disk, bucket, lock, locals, result, bounds>>

ChecksAge(p) ==
    /\ IF meta.fresh
       THEN Returns(p, "age", "ok")
       ELSE Goes(p, "age", "lock") /\ UNCHANGED <<lock, result>>
    /\ UNCHANGED <<disk, bucket, locals, bounds>>

TriesLock(p) ==
    /\ IF lock = Nobody
       THEN /\ Goes(p, "lock", "recheck")
            /\ lock' = p
       ELSE /\ Goes(p, "lock", "await")
            /\ UNCHANGED lock
    /\ UNCHANGED <<disk, bucket, locals, result, bounds>>

\* await_peer() polls until the lock is free ...
SeesLockFree(p) ==
    /\ lock = Nobody
    /\ Returns(p, "await", IF Present THEN "ok" ELSE "failed")
    /\ UNCHANGED <<disk, bucket, locals, bounds>>

\* Mutant: no deadline.
WaitsForever(p) == FALSE

\* ... or PEER_WAIT is over.
GivesUpWaiting(p) ==
    /\ Returns(p, "await", IF Present THEN "ok" ELSE "failed")
    /\ UNCHANGED <<disk, bucket, locals, bounds>>

\* Mutant: the check before the lock was enough.
RechecksNothing(p) ==
    /\ Goes(p, "recheck", "request")
    /\ UNCHANGED <<disk, bucket, lock, locals, result, bounds>>

\* stale() again, under the lock.
Rechecks(p) ==
    /\ Goes(p, "recheck", IF Present THEN "reage" ELSE "request")
    /\ UNCHANGED <<disk, bucket, lock, locals, result, bounds>>

RechecksAge(p) ==
    /\ IF meta.fresh
       THEN Returns(p, "reage", "ok")
       ELSE Goes(p, "reage", "request") /\ UNCHANGED <<lock, result>>
    /\ UNCHANGED <<disk, bucket, locals, bounds>>

(* fetch() *)

\* The sidecar is read for its etag ...
Requests(p) ==
    /\ Goes(p, "request", "offer")
    /\ sent' = [sent EXCEPT ![p] = meta.etag]
    /\ UNCHANGED <<disk, bucket, lock, validated, modified, body, result, bounds>>

\* Mutant: the etag is offered though the archive it describes is gone.
OffersBlindly(p) ==
    /\ Goes(p, "offer", "response")
    /\ UNCHANGED <<disk, bucket, lock, locals, result, bounds>>

\* ... which is offered only when the archive it describes is there.
Offers(p) ==
    /\ Goes(p, "offer", "response")
    /\ sent' = [sent EXCEPT ![p] = IF Present THEN @ ELSE 0]
    /\ UNCHANGED <<disk, bucket, lock, validated, modified, body, result, bounds>>

NotModified(p) ==
    /\ Goes(p, "response", "renew")
    /\ sent[p] = bucket
    /\ UNCHANGED <<disk, bucket, lock, locals, result, bounds>>

\* 200, and the body passes verify_archive() in the temporary file.
Receives(p) ==
    /\ Goes(p, "response", "rename")
    /\ sent[p] # bucket
    /\ body' = [body EXCEPT ![p] = bucket]
    /\ UNCHANGED <<disk, bucket, lock, validated, modified, sent, result, bounds>>

\* Mutant: what a failed fetch cleans up is the archive, not the temporary file.
FetchFailsSweeping(p) ==
    /\ Returns(p, "response", "failed")
    /\ archive' = Gone
    /\ UNCHANGED <<meta, bucket, locals, bounds>>

\* No answer, another status, a body cut short or one that fails verification.
FetchFails(p) ==
    /\ Returns(p, "response", "failed")
    /\ UNCHANGED <<disk, bucket, locals, bounds>>

\* Only what was verified is renamed over the archive.
Renames(p) ==
    /\ Goes(p, "rename", "stat")
    /\ stamp' = stamp + 1
    /\ archive' = [ver |-> body[p], ok |-> TRUE, stamp |-> stamp']
    /\ UNCHANGED <<meta, bucket, lock, locals, result, expiries, faults, outside,
                   refreshes>>

\* The stamp of what is at the path by now counts as validated.
StatsPublished(p) ==
    /\ Goes(p, "stat", "write")
    /\ validated' = IF Present THEN [validated EXCEPT ![p] = archive.stamp] ELSE validated
    /\ UNCHANGED <<disk, bucket, lock, modified, sent, body, result, bounds>>

WritesMeta(p) ==
    /\ Returns(p, "write", "ok")
    /\ meta' = [etag |-> body[p], fresh |-> TRUE]
    /\ refreshes' = refreshes + 1
    /\ UNCHANGED <<archive, bucket, locals, stamp, expiries, faults, outside>>

\* Mutant: after a 304 the sidecar claims what the bucket serves now.
RenewsBlindly(p) ==
    /\ Returns(p, "renew", "ok")
    /\ meta' = [etag |-> bucket, fresh |-> TRUE]
    /\ refreshes' = refreshes + 1
    /\ UNCHANGED <<archive, bucket, locals, stamp, expiries, faults, outside>>

\* 304: the sidecar is read again and only its time changes.
RenewsMeta(p) ==
    /\ Returns(p, "renew", "ok")
    /\ meta' = [meta EXCEPT !.fresh = TRUE]
    /\ refreshes' = refreshes + 1
    /\ UNCHANGED <<archive, bucket, locals, stamp, expiries, faults, outside>>

\* write_meta() fails: the archive stays, the call does not succeed.
MetaWriteFails(p) ==
    /\ faults < MaxFaults
    /\ faults' = faults + 1
    /\ Returns(p, "write", "failed") \/ Returns(p, "renew", "failed")
    /\ refreshes' = 0
    /\ UNCHANGED <<disk, bucket, locals, stamp, expiries, outside>>

-----------------------------------------------------------------------------
(* The world.                                                              *)

\* A process is killed and started again: its memory and its lock are gone.
Killed(p) ==
    /\ faults < MaxFaults
    /\ at[p] # "idle"
    /\ faults' = faults + 1
    /\ at' = [at EXCEPT ![p] = "idle"]
    /\ result' = [result EXCEPT ![p] = "none"]
    /\ lock' = IF lock = p THEN Nobody ELSE lock
    /\ validated' = [validated EXCEPT ![p] = 0]
    /\ refreshes' = 0
    /\ UNCHANGED <<disk, bucket, modified, sent, body, stamp, expiries, outside>>

BucketUpdates ==
    /\ bucket < MaxVersion
    /\ bucket' = bucket + 1
    /\ UNCHANGED <<disk, lock, at, locals, result, bounds>>

WindowEnds ==
    /\ expiries < MaxExpiries
    /\ meta.fresh
    /\ expiries' = expiries + 1
    /\ meta' = [meta EXCEPT !.fresh = FALSE]
    /\ refreshes' = 0
    /\ UNCHANGED <<archive, bucket, lock, at, locals, result, stamp, faults, outside>>

\* Somebody else changes the archive: nobody has vouched for the new one.
OutsideChange(how, new) ==
    /\ how \in Outside
    /\ outside < MaxOutside
    /\ OutsideAnytime \/ \A p \in Processes : at[p] = "idle"
    /\ outside' = outside + 1
    /\ stamp' = stamp + 1
    /\ archive' = new
    /\ result' = [p \in Processes |-> "none"]
    /\ refreshes' = 0
    /\ UNCHANGED <<meta, bucket, lock, at, locals, expiries, faults>>

\* Another tool is interrupted halfway through writing.
Tears ==
    /\ Present
    /\ OutsideChange("tear", [ver |-> archive.ver, ok |-> FALSE, stamp |-> stamp + 1])

\* The user reclaims the space; the sidecar may stay.
Deletes == Present /\ OutsideChange("delete", Gone)

\* Another tool's download, of a version the bucket served once, is done.
Replaces ==
    \E v \in 1..bucket :
        OutsideChange("replace", [ver |-> v, ok |-> TRUE, stamp |-> stamp + 1])

-----------------------------------------------------------------------------
EnsureStep(p) ==
    \/ HealStats(p) \/ HealValidates(p) \/ HealRemoves(p) \/ HealForgets(p)
    \/ OpenFails(p) \/ ChecksStale(p) \/ ChecksAge(p) \/ TriesLock(p)
    \/ SeesLockFree(p) \/ GivesUpWaiting(p)
    \/ Rechecks(p) \/ RechecksAge(p)
    \/ Requests(p) \/ Offers(p) \/ NotModified(p) \/ Receives(p) \/ FetchFails(p)
    \/ Renames(p) \/ StatsPublished(p) \/ WritesMeta(p) \/ RenewsMeta(p)
    \/ MetaWriteFails(p)

Next ==
    \/ \E p \in Processes : Ensures(p) \/ EnsureStep(p) \/ Killed(p)
    \/ BucketUpdates
    \/ WindowEnds
    \/ Tears \/ Deletes \/ Replaces

Spec == Init /\ [][Next]_vars

\* A process that is in ensure_one goes on: the agent and the wait for a peer
\* have timeouts.
Fairness == \A p \in Processes : WF_vars(EnsureStep(p))

FairSpec == Spec /\ Fairness

-----------------------------------------------------------------------------
(* Properties.                                                             *)

\* "An archive is published by an atomic rename, so one that is present is
\* complete and verified" (ready_ecosystems), wherever a download stops and
\* whatever the server sends.
PresentIsReadable == Present => archive.ok

\* The sidecar never credits the archive with a version newer than it is: a
\* 304 would then confirm an old archive until the bucket changes again.  A
\* process may be killed between the two writes, and another tool may delete
\* the archive.
MetaNeverAhead == Present => meta.etag <= archive.ver

\* "Exactly one should download; the rest wait and then succeed" (the test
\* concurrent_ensure_downloads_once): one sidecar is written per freshness
\* window, however many processes found the archive stale.
RefreshedOnce == refreshes <= 1

\* "`landed` is called with each ecosystem as its archive becomes readable"
\* (ensure_each): after ensure_one returned Ok, whichever branch it took, there
\* is an archive and it opens, until somebody outside touches it.
EnsuredIsReadable ==
    \A p \in Processes : result[p] = "ok" => Present /\ archive.ok

\* Processes never put an older archive over a newer one.
NeverOlder == [][Present /\ archive' # Gone => archive'.ver >= archive.ver]_vars

\* "An unchanged modification time means unchanged bytes, and bytes that were
\* readable an hour ago still are" (heal): what a process takes for validated
\* opens.
ValidatedIsReadable ==
    \A p \in Processes : Present /\ validated[p] = archive.stamp => archive.ok

\* ensure_one always returns: the flag that lets the next download start
\* depends on it.
EnsureReturns == \A p \in Processes : (at[p] # "idle") ~> (at[p] = "idle")

Readable == IF Present /\ archive.ok THEN archive.ver ELSE 0
Outcome  == [none |-> "out", ok |-> "landed", failed |-> "failed"]
Calls    == [p \in Processes |-> IF at[p] = "idle" THEN Outcome[result[p]] ELSE "in"]

E == INSTANCE Ensuring WITH Callers <- Processes, held <- Readable, offered <- bucket,
                            call <- Calls

\* "Exactly one should download; the rest wait and then succeed" and "An
\* archive is published by an atomic rename": to those who call it, ensure_one
\* is the simple thing that scan.rs takes it for, whatever its processes do to
\* each other and wherever they are killed.
ImplementsEnsuring == E!Spec
=============================================================================
