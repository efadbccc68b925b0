------------------------------ MODULE Scanner -------------------------------
(***************************************************************************)
(* WorkspaceScanner of scan.rs: the choice between archive, partial        *)
(* archive, API and refusal, the cached index, and the background          *)
(* download that replaces archives under it.                               *)
(*                                                                         *)
(* Several scans overlap: the engine drops the handle of a superseded one  *)
(* but its thread goes on.  The download runs on a thread of its own, with *)
(* one more per ecosystem.  The cache directory is shared with the servers *)
(* of other editor windows.  An archive is its version, which stands for   *)
(* its modification time too: it is only ever replaced by rename.  What    *)
(* ensure_one does inside, and archives that stop being readable, are the  *)
(* subject of Database.                                                    *)
(***************************************************************************)
EXTENDS Naturals

CONSTANTS
    Ecosystems,
    Projects,      \* the ecosystem sets extraction can find
    Scans,         \* scans that can be running at once
    MaxVersion,    \* bound: versions of each archive the bucket ever offers
    MaxFailures,   \* bound: downloads and scans that fail
    Peers,         \* TRUE: another server downloads into the same cache
    Configs,       \* the configurations didChangeConfiguration may store
    MayShutDown    \* TRUE: shutdown() is called

ASSUME ScannerAssumption ==
    /\ Projects \subseteq SUBSET Ecosystems
    /\ MaxVersion \in Nat \ {0}
    /\ MaxFailures \in Nat
    /\ Peers \in BOOLEAN /\ MayShutDown \in BOOLEAN
    /\ Configs \subseteq [online : BOOLEAN, offline : BOOLEAN]

Absent   == 0
Versions == Absent..MaxVersion
NoIndex  == [e \in Ecosystems |-> Absent]

VARIABLES
    archive,    \* version on disk per ecosystem, Absent if none
    bucket,     \* version the bucket serves
    index,      \* version indexed per ecosystem, Absent if not covered
    warming, stopped,
    due,        \* refreshed_at is unset or an hour old
    config,
    before,     \* modification times captured by warm()
    landing,    \* per ecosystem, how far its download thread is
    running,    \* the download thread exists
    shutdown,   \* "no", "waiting", "done" or "timed out"
    scan,       \* the scans on the blocking pool
    latest,     \* the one whose result the engine still wants
    rescan,     \* a request is on its way to the engine
    report      \* the last result the engine took

\* History, read by the properties only.
VARIABLES
    promised,   \* per ecosystem, the version the last on_ready() was about
    ensured,    \* per ecosystem, the version the last ensure_one() vouched for
    failures,
    everOnline  \* a configuration without `offline` was ever in force

threadVars == <<before, landing, running, ensured, failures>>
diskVars   == <<archive, bucket>>
vars == <<diskVars, index, warming, stopped, due, config, threadVars, shutdown, scan,
          latest, rescan, report, promised, everOnline>>

\* Where a scan is, named for what it does next.
Steps == {"idle", "ready", "refresh", "partial", "index", "load", "matched", "config",
          "warm", "claim", "capture", "done"}
Kinds == {"none", "clean", "archive", "partial", "api", "refused", "failed"}

ScanState == [step : Steps, wants : SUBSET Ecosystems, need : SUBSET Ecosystems,
              got : [Ecosystems -> Versions], floor : [Ecosystems -> Versions],
              kind : Kinds, next : {"idle", "index", "done"}]
Idle == [step |-> "idle", wants |-> {}, need |-> {}, got |-> NoIndex,
         floor |-> NoIndex, kind |-> "none", next |-> "idle"]
Report == [kind : Kinds, wants : SUBSET Ecosystems, checked : [Ecosystems -> Versions]]

TypeOK ==
    /\ archive \in [Ecosystems -> Versions]
    /\ bucket \in [Ecosystems -> 1..MaxVersion]
    /\ index \in [Ecosystems -> Versions]
    /\ warming \in BOOLEAN /\ stopped \in BOOLEAN /\ due \in BOOLEAN
    /\ config \in [online : BOOLEAN, offline : BOOLEAN]
    /\ before \in [Ecosystems -> Versions]
    /\ landing \in [Ecosystems -> {"none", "ensuring", "written", "landed", "changed", "cleared"}]
    /\ running \in BOOLEAN
    /\ shutdown \in {"no", "waiting", "done", "timed out"}
    /\ scan \in [Scans -> ScanState]
    /\ latest \in Scans
    /\ rescan \in BOOLEAN
    /\ report \in Report
    /\ promised \in [Ecosystems -> Versions]
    /\ ensured \in [Ecosystems -> Versions]
    /\ failures \in 0..MaxFailures
    /\ everOnline \in BOOLEAN

Init ==
    /\ archive \in [Ecosystems -> {Absent, 1}]
    /\ bucket = [e \in Ecosystems |-> 1]
    /\ index = NoIndex
    /\ warming = FALSE /\ stopped = FALSE /\ due = TRUE
    /\ config \in Configs
    /\ before = NoIndex
    /\ landing = [e \in Ecosystems |-> "none"]
    /\ running = FALSE
    /\ shutdown = "no"
    /\ scan = [s \in Scans |-> Idle]
    /\ latest \in Scans
    /\ rescan = TRUE
    /\ report = [kind |-> "none", wants |-> {}, checked |-> NoIndex]
    /\ promised = NoIndex
    /\ ensured = NoIndex
    /\ failures = 0
    /\ everOnline = ~config.offline

-----------------------------------------------------------------------------
(* The world: the bucket, other servers, the clock, the user.              *)

BucketUpdates(e) ==
    /\ bucket[e] < MaxVersion
    /\ bucket' = [bucket EXCEPT ![e] = @ + 1]
    /\ UNCHANGED <<archive, index, warming, stopped, due, config, threadVars,
                   shutdown, scan, latest, rescan, report, promised, everOnline>>

PeerLands(e) ==
    /\ Peers
    /\ archive[e] < bucket[e]
    /\ archive' = [archive EXCEPT ![e] = bucket[e]]
    /\ UNCHANGED <<bucket, index, warming, stopped, due, config, threadVars,
                   shutdown, scan, latest, rescan, report, promised, everOnline>>

HourPasses ==
    /\ ~due
    /\ due' = TRUE
    /\ UNCHANGED <<diskVars, index, warming, stopped, config, threadVars, shutdown,
                   scan, latest, rescan, report, promised, everOnline>>

\* did_change_configuration: the shared handle is swapped, then a scan asked for.
ConfigChanges(c) ==
    /\ c # config
    /\ config' = c
    /\ rescan' = TRUE
    /\ everOnline' = (everOnline \/ ~c.offline)
    /\ UNCHANGED <<diskVars, index, warming, stopped, due, threadVars, shutdown, scan,
                   latest, report, promised>>

-----------------------------------------------------------------------------
(* scan().  Every step acts on one scan s.                                 *)

At(s, step) == scan[s].step = step

Goes(s, to) == scan' = [scan EXCEPT ![s] = to]

\* The scan is over; its result counts if nothing superseded it.
Ends(s, r) ==
    /\ Goes(s, Idle)
    /\ report' = IF s = latest THEN r ELSE report

\* The engine starts a scan, for a request or because a file changed; also after
\* shutdown(), which stops the background work only.
Begin(s, wants) ==
    /\ At(s, "idle")
    /\ latest' = s
    /\ rescan' = FALSE
    /\ Goes(s, [Idle EXCEPT !.step = "ready", !.wants = wants,
                                               !.floor = promised])
    /\ UNCHANGED <<diskVars, index, warming, stopped, due, config, threadVars,
                   shutdown, report, promised, everOnline>>

\* No packages: an empty report.  Otherwise database.ready().
ChecksReady(s) ==
    /\ At(s, "ready")
    /\ LET wants == scan[s].wants IN
       IF wants = {}
       THEN Ends(s, [kind |-> "clean", wants |-> {}, checked |-> NoIndex])
       ELSE /\ Goes(s, IF \A e \in wants : archive[e] # Absent
                       THEN [scan[s] EXCEPT !.step = "refresh", !.need = wants,
                                         !.kind = "archive"]
                       ELSE [scan[s] EXCEPT !.step = "partial"])
            /\ UNCHANGED report
    /\ UNCHANGED <<diskVars, index, warming, stopped, due, config, threadVars,
                   shutdown, latest, rescan, promised, everOnline>>

\* refresh_if_due(): at most one warm() an hour.
Refreshes(s) ==
    /\ At(s, "refresh")
    /\ due' = FALSE
    /\ Goes(s, IF due THEN [scan[s] EXCEPT !.step = "warm", !.next = "index"]
                      ELSE [scan[s] EXCEPT !.step = "index"])
    /\ UNCHANGED <<diskVars, index, warming, stopped, config, threadVars, shutdown,
                   latest, rescan, report, promised, everOnline>>

\* ready_ecosystems(), a second look at the disk.
ChecksPartial(s) ==
    /\ At(s, "partial")
    /\ LET here == {e \in scan[s].wants : archive[e] # Absent} IN
       Goes(s, IF here # {}
               THEN [scan[s] EXCEPT !.step = "index", !.need = here,
                                 !.kind = "partial"]
               ELSE [scan[s] EXCEPT !.step = "config"])
    /\ UNCHANGED <<diskVars, index, warming, stopped, due, config, threadVars,
                   shutdown, latest, rescan, report, promised, everOnline>>

\* Mutant: any cached index will do.
CoversAnything(need) == index # NoIndex

\* index_for(): the cached index if it covers what is needed.
Covers(need) == \A e \in need : index[e] # Absent

LooksUpIndex(s) ==
    /\ At(s, "index")
    /\ Goes(s, IF Covers(scan[s].need)
               THEN [scan[s] EXCEPT !.step = "matched", !.got = index]
               ELSE [scan[s] EXCEPT !.step = "load"])
    /\ UNCHANGED <<diskVars, index, warming, stopped, due, config, threadVars,
                   shutdown, latest, rescan, report, promised, everOnline>>

\* load(): one archive opened and read.
LoadsArchive(s, e) ==
    /\ At(s, "load")
    /\ e \in scan[s].need
    /\ scan[s].got[e] = Absent
    /\ Goes(s, [scan[s] EXCEPT !.got[e] = archive[e]])
    /\ UNCHANGED <<diskVars, index, warming, stopped, due, config, threadVars,
                   shutdown, latest, rescan, report, promised, everOnline>>

\* extract() or an archive fails, and with it the scan: no index is stored, and
\* what is missing is not asked for.
ScanFails(s) ==
    /\ \/ At(s, "ready")
       \/ At(s, "load") /\ \E e \in scan[s].need : scan[s].got[e] = Absent
    /\ failures < MaxFailures /\ failures' = failures + 1
    /\ Ends(s, [kind |-> "failed", wants |-> scan[s].wants, checked |-> NoIndex])
    /\ UNCHANGED <<diskVars, index, warming, stopped, due, config, before, landing, running,
                   ensured, shutdown, latest, rescan, promised, everOnline>>

\* The index built from what was read becomes the cached one.
StoresIndex(s) ==
    /\ At(s, "load")
    /\ \A e \in scan[s].need : scan[s].got[e] # Absent
    /\ index' = scan[s].got
    /\ Goes(s, [scan[s] EXCEPT !.step = "matched"])
    /\ UNCHANGED <<diskVars, warming, stopped, due, config, threadVars, shutdown,
                   latest, rescan, report, promised, everOnline>>

\* What the report says was checked, at which versions.
Result(s) ==
    [kind |-> scan[s].kind, wants |-> scan[s].wants,
     checked |-> [e \in Ecosystems |->
                    IF e \in scan[s].need THEN scan[s].got[e] ELSE Absent]]

\* The matcher ran: a partial report first asks for what is missing.
Matches(s) ==
    /\ At(s, "matched")
    /\ IF scan[s].kind = "partial"
       THEN /\ Goes(s, [scan[s] EXCEPT !.step = "warm", !.next = "done"])
            /\ UNCHANGED report
       ELSE Ends(s, Result(s))
    /\ UNCHANGED <<diskVars, index, warming, stopped, due, config, threadVars,
                   shutdown, latest, rescan, promised, everOnline>>

\* Nothing on disk: the API if it is allowed and answers, else a download
\* unless offline, and NotReady.
Decides(s) ==
    /\ At(s, "config")
    /\ \/ /\ config.online /\ ~config.offline
          /\ Ends(s, [kind |-> "api", wants |-> scan[s].wants, checked |-> NoIndex])
       \/ /\ ~config.offline
          /\ Goes(s, [scan[s] EXCEPT !.step = "warm", !.next = "done",
                                  !.kind = "refused"])
          /\ UNCHANGED report
       \/ /\ config.offline
          /\ Ends(s, [kind |-> "refused", wants |-> scan[s].wants, checked |-> NoIndex])
    /\ UNCHANGED <<diskVars, index, warming, stopped, due, config, threadVars,
                   shutdown, latest, rescan, promised, everOnline>>

\* warm(): nothing once stopped ...
ChecksStopped(s) ==
    /\ At(s, "warm")
    /\ Goes(s, [scan[s] EXCEPT !.step = IF stopped THEN scan[s].next ELSE "claim"])
    /\ UNCHANGED <<diskVars, index, warming, stopped, due, config, threadVars,
                   shutdown, latest, rescan, report, promised, everOnline>>

\* Mutant: every scan that wants a download starts one.
ClaimsWarmAlways(s) ==
    /\ At(s, "claim")
    /\ warming' = TRUE
    /\ Goes(s, [scan[s] EXCEPT !.step = "capture"])
    /\ UNCHANGED <<diskVars, index, stopped, due, config, threadVars, shutdown, latest,
                   rescan, report, promised, everOnline>>

\* ... and one download at a time.
ClaimsWarm(s) ==
    /\ At(s, "claim")
    /\ warming' = TRUE
    /\ Goes(s, [scan[s] EXCEPT !.step = IF warming THEN scan[s].next ELSE "capture"])
    /\ UNCHANGED <<diskVars, index, stopped, due, config, threadVars, shutdown, latest,
                   rescan, report, promised, everOnline>>

\* The modification times, then the thread.
CapturesBefore(s) ==
    /\ At(s, "capture")
    /\ before' = [e \in Ecosystems |-> IF e \in scan[s].wants THEN archive[e] ELSE Absent]
    /\ landing' = [e \in Ecosystems |->
                     IF e \in scan[s].wants THEN "ensuring" ELSE landing[e]]
    /\ running' = TRUE
    /\ Goes(s, [scan[s] EXCEPT !.step = scan[s].next])
    /\ UNCHANGED <<diskVars, index, warming, stopped, due, config, ensured, failures,
                   shutdown, latest, rescan, report, promised, everOnline>>

Finishes(s) ==
    /\ At(s, "done")
    /\ Ends(s, Result(s))
    /\ UNCHANGED <<diskVars, index, warming, stopped, due, config, threadVars,
                   shutdown, latest, rescan, promised, everOnline>>

-----------------------------------------------------------------------------
(* The download thread.                                                    *)

Step(e, from, to) ==
    /\ landing[e] = from
    /\ landing' = [landing EXCEPT ![e] = to]

\* ensure_one() puts a new archive there, before it is done ...
Renames(e) ==
    /\ Step(e, "ensuring", "written")
    /\ archive' = [archive EXCEPT ![e] = bucket[e]]
    /\ UNCHANGED <<bucket, index, warming, stopped, due, config, before, running,
                   ensured, failures, shutdown, scan, latest, rescan, report, promised,
                   everOnline>>

\* ... and succeeds, with the one it wrote or one that is fresh, confirmed by
\* a 304, or a peer's.
EnsureSucceeds(e) ==
    /\ \E from \in {"ensuring", "written"} : Step(e, from, "landed")
    /\ archive[e] # Absent
    /\ ensured' = [ensured EXCEPT ![e] = archive[e]]
    /\ UNCHANGED <<diskVars, index, warming, stopped, due, config, before, running,
                   failures, shutdown, scan, latest, rescan, report, promised,
                   everOnline>>

\* It fails: before the archive is replaced, or after, writing the sidecar.
EnsureFails(e) ==
    /\ failures < MaxFailures
    /\ \E from \in {"ensuring", "written"} : Step(e, from, "none")
    /\ failures' = failures + 1
    /\ UNCHANGED <<diskVars, index, warming, stopped, due, config, before, running,
                   ensured, shutdown, scan, latest, rescan, report, promised,
                   everOnline>>

\* Mutant: a rescan even though the server is stopping.
LandedThoughStopped(e) ==
    /\ Step(e, "landed", IF archive[e] = before[e] THEN "none" ELSE "changed")
    /\ UNCHANGED <<diskVars, index, warming, stopped, due, config, before, running,
                   ensured, failures, shutdown, scan, latest, rescan, report, promised,
                   everOnline>>

\* landed(): nothing to say once stopped, or when the archive is the same.
Landed(e) ==
    /\ Step(e, "landed",
            IF stopped \/ archive[e] = before[e] THEN "none" ELSE "changed")
    /\ UNCHANGED <<diskVars, index, warming, stopped, due, config, before, running,
                   ensured, failures, shutdown, scan, latest, rescan, report, promised,
                   everOnline>>

\* The index goes first ...
DropsIndex(e) ==
    /\ Step(e, "changed", "cleared")
    /\ index' = NoIndex
    /\ UNCHANGED <<diskVars, warming, stopped, due, config, before, running, ensured,
                   failures, shutdown, scan, latest, rescan, report, promised,
                   everOnline>>

\* Mutant: on_ready() is forgotten.
OnReadyForgotten(e) ==
    /\ Step(e, "cleared", "none")
    /\ promised' = [promised EXCEPT ![e] = archive[e]]
    /\ UNCHANGED <<diskVars, index, warming, stopped, due, config, before, running,
                   ensured, failures, shutdown, scan, latest, rescan, report,
                   everOnline>>

\* ... then the engine is asked for a rescan.
OnReady(e) ==
    /\ Step(e, "cleared", "none")
    /\ rescan' = TRUE
    /\ promised' = [promised EXCEPT ![e] = archive[e]]
    /\ UNCHANGED <<diskVars, index, warming, stopped, due, config, before, running,
                   ensured, failures, shutdown, scan, latest, report, everOnline>>

\* Mutant: a download that changed nothing returns before it clears the flag.
ThreadLeavesFlag ==
    /\ running
    /\ \A e \in Ecosystems : landing[e] = "none"
    /\ running' = FALSE
    /\ warming' = (archive = before)
    /\ UNCHANGED <<diskVars, index, stopped, due, config, before, landing, ensured,
                   failures, shutdown, scan, latest, rescan, report, promised,
                   everOnline>>

\* Cleared last, whatever the downloads came to.
ThreadEnds ==
    /\ running
    /\ \A e \in Ecosystems : landing[e] = "none"
    /\ running' = FALSE
    /\ warming' = FALSE
    /\ UNCHANGED <<diskVars, index, stopped, due, config, before, landing, ensured,
                   failures, shutdown, scan, latest, rescan, report, promised,
                   everOnline>>

-----------------------------------------------------------------------------
(* shutdown(): set the flag, then wait a while for the download.           *)

ShutdownBegins ==
    /\ MayShutDown
    /\ shutdown = "no"
    /\ stopped' = TRUE
    /\ shutdown' = "waiting"
    /\ UNCHANGED <<diskVars, index, warming, due, config, threadVars, scan, latest,
                   rescan, report, promised, everOnline>>

ShutdownReturns ==
    /\ shutdown = "waiting"
    /\ shutdown' = IF warming THEN "timed out" ELSE "done"
    /\ UNCHANGED <<diskVars, index, warming, stopped, due, config, threadVars, scan,
                   latest, rescan, report, promised, everOnline>>

ScanSteps(s) ==
    \/ ChecksReady(s)
    \/ Refreshes(s)
    \/ ChecksPartial(s)
    \/ LooksUpIndex(s)
    \/ \E e \in Ecosystems : LoadsArchive(s, e)
    \/ ScanFails(s)
    \/ StoresIndex(s)
    \/ Matches(s)
    \/ Decides(s)
    \/ ChecksStopped(s)
    \/ ClaimsWarm(s)
    \/ CapturesBefore(s)
    \/ Finishes(s)

Download(e) ==
    \/ Renames(e)
    \/ EnsureSucceeds(e)
    \/ EnsureFails(e)
    \/ Landed(e)
    \/ DropsIndex(e)
    \/ OnReady(e)

Next ==
    \/ \E e \in Ecosystems : BucketUpdates(e) \/ PeerLands(e) \/ Download(e)
    \/ HourPasses
    \/ \E c \in Configs : ConfigChanges(c)
    \/ \E s \in Scans : ScanSteps(s) \/ \E wants \in Projects : Begin(s, wants)
    \/ ThreadEnds
    \/ ShutdownBegins
    \/ ShutdownReturns

Spec == Init /\ [][Next]_vars

\* Threads make progress, a request reaches the engine and starts a scan once
\* the pool has room for one.
Fairness ==
    /\ \A s \in Scans : WF_vars(ScanSteps(s))
    /\ \A e \in Ecosystems : WF_vars(Download(e))
    /\ WF_vars(ThreadEnds)
    /\ WF_vars(rescan /\ \E s \in Scans, wants \in Projects : Begin(s, wants))

FairSpec == Spec /\ Fairness

-----------------------------------------------------------------------------
(* Properties.                                                             *)

\* A report never claims more than was matched: an ecosystem a report does not
\* list as missing was looked up in an index that holds it.  The cached index
\* is shared by scans that need different ecosystems and is replaced and
\* dropped between the steps of each.
CoverageHonest ==
    report.kind = "archive" => \A e \in report.wants : report.checked[e] # Absent

\* One download at a time: while a thread runs or is about to, the flag is up,
\* and it never stays up with nobody to clear it.
WarmingIsOwned ==
    /\ warming <=> (running \/ \E s \in Scans : At(s, "capture"))
    /\ running => \A s \in Scans : ~At(s, "capture")
    /\ \A s, t \in Scans : At(s, "capture") /\ At(t, "capture") => s = t

Settled == ~warming /\ ~rescan /\ \A s \in Scans : At(s, "idle")

\* "So the scan that was refused can be retried without waiting for the user to
\* touch a file" (scan.rs, on_ready): nothing is left to do only if the last
\* result was not short of an archive, or something failed, or nothing may be
\* downloaded.
RefusedIsRetried ==
    Settled /\ ~stopped /\ failures = 0 /\ ~config.offline
        => report.kind \notin {"partial", "refused"}

\* "None that finishes asks for a rescan of an engine that is gone": once
\* shutdown() has returned within its wait, no download asks for anything, one
\* that an earlier scan starts only now neither, whatever is scanned later.
NoRescanAfterShutdown ==
    [][shutdown = "done" => ~\E e \in Ecosystems : OnReady(e)]_vars

\* A download always ends, and its flag with it.
WarmingEnds == warming ~> ~warming

\* A first run with no archive gets its complete report without the user doing
\* anything, if downloads succeed.
FirstRunConverges == <>(report.kind \in {"archive", "api", "clean"})

\* "The index goes first, or the rescan would reuse the old one" (scan.rs,
\* warm): a scan that began after on_ready() announced an archive does not
\* match against an older one.
RescanSeesLanded ==
    \A s \in Scans :
        At(s, "matched") => \A e \in scan[s].need : scan[s].got[e] >= scan[s].floor[e]

\* "Without this [...] an editor left open for a week matched against week-old
\* advisories" (scan.rs, refresh_if_due): once a refresh is over, the cached
\* index is not older than the archive the refresh vouched for.
RefreshReachesIndex ==
    Settled => \A e \in Ecosystems : index[e] # Absent => index[e] >= ensured[e]

\* "Never touch the network at all: no queries, and no archive downloads
\* either" (README, offline).
OfflineNeverDownloads == ~everOnline => ~running

\* "Set by shutdown: no download starts" (scan.rs, stopped).
NoDownloadAfterShutdown == [][shutdown = "done" => (running' => running)]_vars
=============================================================================
