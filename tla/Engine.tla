------------------------------- MODULE Engine -------------------------------
(***************************************************************************)
(* The scan scheduler of engine.rs: one task (the actor) that owns the     *)
(* report, the set of published files, the debounce deadline and the scan  *)
(* in flight, and a bounded channel through which everything else talks to *)
(* it.  The senders (lsp.rs handlers, and the scanner's on_ready callback) *)
(* and the blocking pool that runs scans are part of the model, because    *)
(* what can go wrong is in how they interleave with the actor.             *)
(*                                                                         *)
(* Time is abstracted: an armed deadline may elapse at any moment, and a   *)
(* scan takes any number of steps, reading one manifest per step while the *)
(* workspace changes under it.                                             *)
(***************************************************************************)
EXTENDS Naturals, Sequences

CONSTANTS
    Files,       \* manifests of the workspace
    Findings,    \* non-empty sets of findings one manifest can have
    NoFindings,  \* the empty set of findings: absent from `report`
    Ecosystems,  \* ecosystems a partial report can leave unchecked
    Capacity,    \* slots of the channel (64 in the code)
    Wired,       \* TRUE: the scanner holds a Requester, as main.rs builds it
    MaxEvents    \* bound: edits and unprompted requests in one behaviour

ASSUME EngineAssumption ==
    /\ NoFindings \notin Findings
    /\ Capacity \in Nat \ {0}
    /\ Wired \in BOOLEAN
    /\ MaxEvents \in Nat

View    == [Files -> Findings \cup {NoFindings}]
Nothing == [f \in Files |-> NoFindings]

\* enum Message.  The reason of a Request is only logged.
Request  == [type |-> "request"]
Clear(f) == [type |-> "clear", file |-> f]
Query(f) == [type |-> "query", file |-> f]
Message  == [type : {"request"}] \cup [type : {"clear", "query"}, file : Files]

\* Option<JoinHandle>: `id` is how many requests had been taken at the spawn,
\* `unread` and `found` are the progress of the scan on its own thread.
NoScan == [state |-> "none", id |-> 0, unread |-> {}, found |-> Nothing]
InFlight == [state : {"none", "queued", "running"}, id : Nat,
             unread : SUBSET Files, found : View]

\* Ok(Ok(report)) with its Source, Ok(Err(_)), or a JoinError that is a panic.
Outcome ==
    [kind : {"ok"}, source : {"archive", "api"}, missing : {{}}]
        \cup [kind : {"ok"}, source : {"partial"},
              missing : (SUBSET Ecosystems) \ {{}}]
        \cup [kind : {"failed", "panicked"}, source : {"archive"}, missing : {{}}]

VARIABLES
    tree,        \* what a scan would find on disk now, per manifest
    owed,        \* changed manifests the editor has not reported yet
    deleting,    \* Clears the didChangeWatchedFiles handler still has to send
    requestDue,  \* and whether its Request is still to be sent
    asking,      \* the didOpen / codeAction call waiting on findings()
    queue,       \* the mpsc channel
    handle,      \* the Engine handle is alive
    actor,       \* the run task
    report, published, deadline, in_flight, announced, pending, announced_partial,
    orphans,     \* superseded scans still running on the blocking pool
    client       \* what the Publisher was last told, per manifest

\* History, read by the properties only.
VARIABLES
    events,         \* edits and unprompted requests so far
    taken,          \* Requests the actor has received
    settled,        \* `id` of the last scan that ended
    shown,          \* `id` of the scan the last applied report came from
    lastOutcome,    \* kind of the last scan the actor was told about
    lost,           \* a Request was dropped that no queued one stands for
    missing,        \* what the last applied report left unchecked
    told,           \* ecosystems the user was told are unchecked
    apiNotices,     \* "checked against osv.dev" notices
    streakNotices   \* "not checked yet" notices since the last success

lspVars    == <<tree, owed, deleting, requestDue>>
actorVars  == <<report, published, deadline, in_flight, announced, pending,
                announced_partial, orphans, client>>
ghostVars  == <<taken, settled, shown, lastOutcome, missing, told, apiNotices,
                streakNotices>>
vars == <<lspVars, asking, queue, handle, actor, actorVars, events, lost, ghostVars>>

TypeOK ==
    /\ tree \in View
    /\ owed \subseteq Files
    /\ deleting \subseteq Files
    /\ requestDue \in BOOLEAN
    /\ asking \in [Files -> {"idle", "waiting", "queued"}]
    /\ queue \in Seq(Message)
    /\ Len(queue) <= Capacity
    /\ handle \in BOOLEAN
    /\ actor \in {"running", "stopped"}
    /\ report \in View
    /\ published \subseteq Files
    /\ deadline \in BOOLEAN
    /\ in_flight \in InFlight
    /\ announced \in BOOLEAN
    /\ pending \in BOOLEAN
    /\ announced_partial \in BOOLEAN
    /\ orphans \subseteq Nat
    /\ client \in View
    /\ events \in Nat
    /\ taken \in Nat
    /\ settled \in Nat
    /\ shown \in Nat
    /\ lastOutcome \in {"none", "ok", "failed", "panicked"}
    /\ lost \in BOOLEAN
    /\ missing \subseteq Ecosystems
    /\ told \subseteq Ecosystems
    /\ apiNotices \in Nat
    /\ streakNotices \in Nat

Init ==
    /\ tree \in View
    /\ owed = {}
    /\ deleting = {}
    /\ requestDue = TRUE          \* initialized() asks for the startup scan
    /\ asking = [f \in Files |-> "idle"]
    /\ queue = <<>>
    /\ handle = TRUE
    /\ actor = "running"
    /\ report = Nothing
    /\ published = {}
    /\ deadline = FALSE
    /\ in_flight = NoScan
    /\ announced = FALSE
    /\ pending = FALSE
    /\ announced_partial = FALSE
    /\ orphans = {}
    /\ client = Nothing
    /\ events = 0
    /\ taken = 0
    /\ settled = 0
    /\ shown = 0
    /\ lastOutcome = "none"
    /\ lost = FALSE
    /\ missing = {}
    /\ told = {}
    /\ apiNotices = 0
    /\ streakNotices = 0

-----------------------------------------------------------------------------
(* Senders.                                                                *)

Waiting == {f \in Files : asking[f] = "waiting"}

\* A waiting send() owns the next slot that frees, so try_send fails for it.
Full == Waiting # {} \/ Len(queue) = Capacity

\* A queued Request that no queued Clear comes after.
Covered(q) ==
    \E i \in 1..Len(q) :
        /\ q[i] = Request
        /\ \A j \in i..Len(q) : q[j].type # "clear"

\* Requester::request and Engine::request: try_send, its result ignored.
TryRequest ==
    IF Full
    THEN /\ lost' = (lost \/ ~Covered(queue))
         /\ UNCHANGED queue
    ELSE /\ queue' = Append(queue, Request)
         /\ UNCHANGED lost

\* The workspace or the advisories change: a scan would now find v for f.
Edit(f, v) ==
    /\ events < MaxEvents
    /\ v # tree[f]
    /\ tree' = [tree EXCEPT ![f] = v]
    /\ owed' = owed \cup {f}
    /\ events' = events + 1
    /\ UNCHANGED <<deleting, requestDue, asking, queue, handle, actor, actorVars,
                   lost, ghostVars>>

\* did_change_watched_files begins, with the manifests of D reported deleted.
DidChangeWatchedFiles(D) ==
    /\ handle
    /\ owed # {} /\ deleting = {} /\ ~requestDue
    /\ \A f \in D : tree[f] = NoFindings
    /\ deleting' = D
    /\ requestDue' = TRUE
    /\ owed' = {}
    /\ UNCHANGED <<tree, asking, queue, handle, actor, actorVars, events, lost,
                   ghostVars>>

\* Its loop: one engine.clear per deleted manifest, dropped on a full queue.
SendClear(f) ==
    /\ handle
    /\ f \in deleting
    /\ deleting' = deleting \ {f}
    /\ queue' = IF Full THEN queue ELSE Append(queue, Clear(f))
    /\ UNCHANGED <<tree, owed, requestDue, asking, handle, actor, actorVars,
                   events, lost, ghostVars>>

\* Its last statement; at startup, the last statement of initialized().
SendRequest ==
    /\ handle
    /\ requestDue /\ deleting = {}
    /\ requestDue' = FALSE
    /\ TryRequest
    /\ UNCHANGED <<tree, owed, deleting, asking, handle, actor, actorVars, events,
                   ghostVars>>

\* did_save, did_change_configuration, or the scanner's on_ready callback.
Ask ==
    /\ actor = "running"
    /\ handle \/ Wired
    /\ events < MaxEvents
    /\ events' = events + 1
    /\ TryRequest
    /\ UNCHANGED <<lspVars, asking, handle, actor, actorVars, ghostVars>>

\* Engine::findings, awaited by did_open and code_action.
Find(f) ==
    /\ handle
    /\ asking[f] = "idle"
    /\ IF Full
       THEN /\ asking' = [asking EXCEPT ![f] = "waiting"]
            /\ UNCHANGED queue
       ELSE /\ asking' = [asking EXCEPT ![f] = "queued"]
            /\ queue' = Append(queue, Query(f))
    /\ UNCHANGED <<lspVars, handle, actor, actorVars, events, lost, ghostVars>>

\* A slot freed for a send() that was waiting.
SlotFreed(f) ==
    /\ asking[f] = "waiting"
    /\ Len(queue) < Capacity
    /\ asking' = [asking EXCEPT ![f] = "queued"]
    /\ queue' = Append(queue, Query(f))
    /\ UNCHANGED <<lspVars, handle, actor, actorVars, events, lost, ghostVars>>

\* Engine::shutdown takes the handle by value, so no call can be borrowing it.
DropHandle ==
    /\ handle
    /\ \A f \in Files : asking[f] = "idle"
    /\ deleting = {} /\ ~requestDue
    /\ handle' = FALSE
    /\ UNCHANGED <<lspVars, asking, queue, actor, actorVars, events, lost, ghostVars>>

-----------------------------------------------------------------------------
(* The actor: the arms of the select! in run().                            *)

Received(type) ==
    /\ actor = "running"
    /\ queue # <<>>
    /\ Head(queue).type = type
    /\ queue' = Tail(queue)

\* handle.abort() cancels a scan still queued on the blocking pool; one that
\* is running goes on, with nobody to read its result.
Orphaned == IF in_flight.state = "running" THEN {in_flight.id} ELSE {}

\* Mutant: a request is taken for satisfied by the scan already running.
HandleRequestCoalesces ==
    /\ Received("request")
    /\ deadline' = (in_flight.state = "none")
    /\ taken' = taken + 1
    /\ UNCHANGED <<lspVars, asking, handle, actor, report, published, in_flight,
                   announced, pending, announced_partial, orphans, client, events,
                   lost, settled, shown, lastOutcome, missing, told, apiNotices,
                   streakNotices>>

HandleRequest ==
    /\ Received("request")
    /\ orphans' = orphans \cup Orphaned
    /\ in_flight' = NoScan
    /\ deadline' = TRUE
    /\ taken' = taken + 1
    /\ UNCHANGED <<lspVars, asking, handle, actor, report, published, announced,
                   pending, announced_partial, client, events, lost, settled,
                   shown, lastOutcome, missing, told, apiNotices, streakNotices>>

HandleClear ==
    /\ Received("clear")
    /\ LET f == Head(queue).file IN
       /\ report' = [report EXCEPT ![f] = NoFindings]
       /\ published' = published \ {f}
       /\ client' = IF f \in published THEN [client EXCEPT ![f] = NoFindings]
                                       ELSE client
    /\ UNCHANGED <<lspVars, asking, handle, actor, deadline, in_flight, announced,
                   pending, announced_partial, orphans, events, lost, ghostVars>>

\* Mutant: a file without findings gets no reply.
HandleQueryOnlyKnown ==
    /\ Received("query")
    /\ LET f == Head(queue).file IN
       asking' = IF report[f] = NoFindings THEN asking
                 ELSE [asking EXCEPT ![f] = "idle"]
    /\ UNCHANGED <<lspVars, handle, actor, actorVars, events, lost, ghostVars>>

\* The reply, report[f], goes to the handler that asked.
HandleQuery ==
    /\ Received("query")
    /\ asking' = [asking EXCEPT ![Head(queue).file] = "idle"]
    /\ UNCHANGED <<lspVars, handle, actor, actorVars, events, lost, ghostVars>>

\* Mutant: the deadline is not taken when it fires.
DebounceStaysArmed ==
    /\ actor = "running"
    /\ deadline
    /\ in_flight.state = "none"
    /\ in_flight' = [state |-> "queued", id |-> taken, unread |-> Files,
                     found |-> Nothing]
    /\ UNCHANGED <<lspVars, asking, queue, handle, actor, deadline, report,
                   published, announced, pending, announced_partial, orphans,
                   client, events, lost, ghostVars>>

DebounceElapsed ==
    /\ actor = "running"
    /\ deadline
    /\ deadline' = FALSE
    /\ in_flight' = [state |-> "queued", id |-> taken, unread |-> Files,
                     found |-> Nothing]
    /\ UNCHANGED <<lspVars, asking, queue, handle, actor, report, published,
                   announced, pending, announced_partial, orphans, client, events,
                   lost, ghostVars>>

\* publish(): first clear what the fresh report no longer names, then publish
\* what it names.
Publish(fresh) ==
    LET current == {f \in Files : fresh[f] # NoFindings} IN
    /\ client' = [f \in Files |->
                    IF f \in current THEN fresh[f]
                    ELSE IF f \in published THEN NoFindings ELSE client[f]]
    /\ published' = current
    /\ report' = fresh

ScanSucceeded(o) ==
    /\ o.kind = "ok"
    /\ in_flight.unread = {}
    /\ announced' = (announced \/ o.source = "api")
    /\ apiNotices' = IF o.source = "api" /\ ~announced
                     THEN apiNotices + 1 ELSE apiNotices
    /\ announced_partial' = (announced_partial \/ o.source = "partial")
    /\ told' = IF o.source = "partial" /\ ~announced_partial
               THEN told \cup o.missing ELSE told
    /\ pending' = FALSE
    /\ streakNotices' = 0
    /\ Publish(in_flight.found)
    /\ shown' = in_flight.id
    /\ missing' = o.missing
    /\ lastOutcome' = o.kind

\* Mutant: a notice for every failed scan.
ScanFailedAlwaysSays(o) ==
    /\ o.kind = "failed"
    /\ pending' = TRUE
    /\ streakNotices' = streakNotices + 1
    /\ lastOutcome' = o.kind
    /\ UNCHANGED <<announced, announced_partial, apiNotices, told, report,
                   published, client, shown, missing>>

ScanFailed(o) ==
    /\ o.kind = "failed"
    /\ pending' = TRUE
    /\ streakNotices' = IF pending THEN streakNotices ELSE streakNotices + 1
    /\ lastOutcome' = o.kind
    /\ UNCHANGED <<announced, announced_partial, apiNotices, told, report,
                   published, client, shown, missing>>

\* Err(join): logged, and nothing else.
ScanPanicked(o) ==
    /\ o.kind = "panicked"
    /\ lastOutcome' = o.kind
    /\ UNCHANGED <<announced, announced_partial, apiNotices, told, pending,
                   streakNotices, report, published, client, shown, missing>>

ScanFinished(o) ==
    /\ actor = "running"
    /\ in_flight.state = "running"
    /\ ScanSucceeded(o) \/ ScanFailed(o) \/ ScanPanicked(o)
    /\ in_flight' = NoScan
    /\ settled' = in_flight.id
    /\ UNCHANGED <<lspVars, asking, queue, handle, actor, deadline, orphans,
                   events, lost, taken>>

\* Mutant: `Some(message) = rx.recv()` as the select! arm, which a closed
\* channel disables instead of leaving the loop.
ActorNeverBreaks == FALSE

\* recv() returns None: every Sender is gone and the queue is drained.  The
\* task itself owns the scanner, so a wired scanner keeps one Sender alive.
ActorStops ==
    /\ actor = "running"
    /\ ~handle /\ ~Wired
    /\ queue = <<>>
    /\ actor' = "stopped"
    /\ orphans' = orphans \cup Orphaned
    /\ in_flight' = NoScan
    /\ UNCHANGED <<lspVars, asking, queue, handle, report, published, deadline,
                   announced, pending, announced_partial, client, events, lost,
                   ghostVars>>

-----------------------------------------------------------------------------
(* The blocking pool.                                                      *)

ScanStarts ==
    /\ in_flight.state = "queued"
    /\ in_flight' = [in_flight EXCEPT !.state = "running"]
    /\ UNCHANGED <<lspVars, asking, queue, handle, actor, report, published,
                   deadline, announced, pending, announced_partial, orphans,
                   client, events, lost, ghostVars>>

ReadManifest(f) ==
    /\ in_flight.state = "running"
    /\ f \in in_flight.unread
    /\ in_flight' = [in_flight EXCEPT !.unread = @ \ {f}, !.found[f] = tree[f]]
    /\ UNCHANGED <<lspVars, asking, queue, handle, actor, report, published,
                   deadline, announced, pending, announced_partial, orphans,
                   client, events, lost, ghostVars>>

OrphanEnds(id) ==
    /\ id \in orphans
    /\ orphans' = orphans \ {id}
    /\ UNCHANGED <<lspVars, asking, queue, handle, actor, report, published,
                   deadline, in_flight, announced, pending, announced_partial,
                   client, events, lost, ghostVars>>

-----------------------------------------------------------------------------
\* The steps at which nothing goes to the publisher or to a waiting handler.
Silent ==
    \/ \E f \in Files, v \in Findings \cup {NoFindings} : Edit(f, v)
    \/ \E D \in SUBSET owed : DidChangeWatchedFiles(D)
    \/ \E f \in Files : SendClear(f)
    \/ SendRequest
    \/ Ask
    \/ \E f \in Files : Find(f)
    \/ \E f \in Files : SlotFreed(f)
    \/ DropHandle
    \/ HandleRequest
    \/ DebounceElapsed
    \/ ActorStops
    \/ ScanStarts
    \/ \E f \in Files : ReadManifest(f)
    \/ \E id \in orphans : OrphanEnds(id)

Next ==
    \/ Silent
    \/ HandleClear
    \/ HandleQuery
    \/ \E o \in Outcome : ScanFinished(o)

Spec == Init /\ [][Next]_vars

\* Handlers and tasks that can go on do; scans terminate (every network wait
\* has a timeout).  Edits, saves, opens and the shutdown are up to the user.
Fairness ==
    /\ \A f \in Files : WF_vars(SendClear(f))
    /\ WF_vars(SendRequest)
    /\ \A f \in Files : WF_vars(SlotFreed(f))
    /\ WF_vars(HandleRequest) /\ WF_vars(HandleClear) /\ WF_vars(HandleQuery)
    /\ WF_vars(DebounceElapsed)
    /\ WF_vars(ScanStarts)
    /\ \A f \in Files : WF_vars(ReadManifest(f))
    /\ WF_vars(\E o \in Outcome : ScanFinished(o))
    /\ WF_vars(ActorStops)

FairSpec == Spec /\ Fairness

-----------------------------------------------------------------------------
(* Properties.                                                             *)

\* A newer request supersedes whatever is running (engine.rs, Request arm):
\* while the debounce is armed no scan is in flight, so at most one scan can
\* ever report, and it is the one the last request asked for.
Superseded == /\ deadline => in_flight = NoScan
              /\ in_flight # NoScan => in_flight.id = taken

\* `published`, `report` and what the publisher was told never drift apart:
\* a file has diagnostics on screen exactly when the actor still knows it has
\* to clear them, and didOpen replays what is shown.
ClientAgrees == /\ client = report
                /\ published = {f \in Files : client[f] # NoFindings}

\* Nothing the engine could still be waiting for.
Quiet == /\ owed = {} /\ deleting = {} /\ ~requestDue
         /\ \A i \in 1..Len(queue) : queue[i].type = "query"
         /\ ~deadline /\ in_flight = NoScan
         /\ actor = "running"

\* Once everything is quiet after a successful scan, the diagnostics are those
\* of the files as they are: no edit, deletion or read-while-scanning can leave
\* a stale one behind, however it interleaved with the debounce, the queue and
\* the scan, unless a request was lost to a full queue.
QuietMeansCurrent == Quiet /\ ~lost /\ lastOutcome = "ok" => client = tree

\* "Announced once per streak, not per debounce": one notice for every run of
\* failed scans, however many, and at most one API notice ever.  A scan that
\* panicked leaves the streak as it was.
NoticesOnce == /\ lastOutcome = "failed" => streakNotices = 1
               /\ lastOutcome = "ok" => streakNotices = 0
               /\ streakNotices <= 1
               /\ apiNotices <= 1

\* The engine implements the board: a superseded or late scan never overwrites
\* the result of one asked for later, and each request burst publishes once.
B == INSTANCE Board WITH board <- client, asof <- shown
ImplementsBoard == B!Spec

\* Every request the actor takes leads to the end of a scan that was asked for
\* by it or by a later one: the debounce and the supersession lose nothing.
RequestsSettle ==
    \A n \in 1..(MaxEvents + 1) :
        (taken >= n) ~> (settled >= n \/ actor = "stopped")

\* findings() always returns: no didOpen or codeAction hangs on a full queue
\* or on a busy actor.
QueriesReturn == \A f \in Files : (asking[f] # "idle") ~> (asking[f] = "idle")

\* "Dropping the handle is enough to stop it" (engine.rs, shutdown).
DropStops == (~handle) ~> (actor = "stopped")

\* "A full queue already holds the same instruction" (engine.rs, request): a
\* Request that try_send drops is stood for by one still queued.
FullQueueHoldsRequest == ~lost

\* "Supersession aborts the in-flight scan" (engine.rs, module comment): once
\* superseded, a scan no longer runs.
SupersessionAborts == orphans = {}

\* "An unchecked ecosystem produces a report that looks exactly like a clean
\* one. Say which, once": an ecosystem the report on screen does not cover is
\* one the user was told about.
MissingWasSaid == missing \subseteq told
=============================================================================
