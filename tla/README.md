# Formal models of the Zed package checker

The repository is a language server that reads a workspace's manifests and
lockfiles, matches the packages in them against OSV advisories and publishes the
findings as diagnostics. What is hard to test in it is not the scanning of strings: it is a
scan scheduler fed by editor events, scans that go on after they were superseded,
archives that are downloaded, shared between servers and replaced while they are read,
caches that decide what not to ask again, the reconciliation of what several files say of
one package, the chain of judgements from a lockfile and its advisories to the upgrade that
is offered, and an edit that is computed from one text and applied to another. This
directory models that part in TLA+, checks it with TLC and proves what matters most about
it with TLAPS.

## The system

```
editor --LSP--> lsp.rs handlers --Message--> engine.rs run task --scan()--> scan.rs
   ^                                            |                      /     |     \
   |                                            v                 index.rs api.rs  warm() thread
   +---- publishDiagnostics <---- ClientPublisher.publish         load.rs          |
                                                                          db.rs ensure_one
                     on_ready() --Message--> engine                   (one thread per ecosystem)
```

| Component (`server/src` unless noted) | State | Operations | Interacts with | Hard | Correct when |
|---|---|---|---|---|---|
| `engine.rs` scan scheduler | report, published files, debounce deadline, scan in flight, notice latches; bounded channel | request, clear, findings, shutdown; the four arms of `run` | handlers and `on_ready` through the channel; the scanner on the blocking pool; the Publisher | supersession, debounce, full channel, files that change under a scan, shutdown | only the newest scan reports; nothing stale is left when quiet; each notice once; every request is followed by a scan |
| `lsp.rs` server | open buffers, engine handle, configuration | handlers; `ClientPublisher` | engine (messages, replies), client (diagnostics) | renders race each other; a buffer is newer than the scan, and changes again before an edit is taken | the editor shows what the engine said last; an edit lands on the version it is about |
| `scan.rs` scanner | cached index, warming flag, stopped flag, refresh clock | scan, warm, shutdown | db, api, index; calls back `on_ready` | overlapping scans and a download thread over shared state | a report says what it did not check; one download at a time; a refused scan is retried |
| `db.rs` database | archive, sidecar and lock file per ecosystem; set of validated stamps | ensure_each, ensure_one, heal, fetch | the OSV bucket; other servers and tools on the same directory | file lock, conditional request, crash between two writes, healing | a present archive is whole; the sidecar never runs ahead of it; one refresh per window |
| `api.rs` API source | cache file per ecosystem, record files | advisories, resolve, query, fetch_records | osv.dev; other scans through the files | unlocked read-modify-write, freshness keyed by name and by version, truncated answers | the cache is never ahead of osv.dev; nothing older than the ttl is missed; fixes are verified against complete sets |
| `index.rs`, `load.rs` | the index of one load | build, lookup; parallel decode | scan | workers in any order, torn entries, two passes that must agree | covers what it says it covers; looks up exactly what the records name |
| `osv.rs`, `model.rs` | none | severity, fixed versions, `flatten_ranges`, report | load, matcher | event timelines | ranges match exactly the versions the events mean |
| `matcher.rs` | none | findings, affects, in_range, fix_for | index | several advisories and fixes, one version spelt two ways | the upgrade offered is the lowest that leaves nothing to find |
| `graph.rs` | none | attribute, walk, chain | extract | cycles, peer edges, several shortest ways, workspaces | the chain shown is one npm follows and as short as any |
| `version*` | none | parse, compare | matcher | four ecosystems' orders | a total preorder |
| `extract.rs`, `manifest*`, `read.rs`, `span.rs` | none | walk, parse, reconcile | graph, matcher | one package in many entries and files, in any order; workspaces, links, includes that form cycles | nothing installed goes unreported; what ships is not called a development dependency; the order of the walk decides nothing |
| `diagnostics.rs`, `action.rs` | none | render, quick fixes | lsp | which of several lines names a version | a promise of a fix is kept, and the fix settles the finding |
| `progress.rs` | one sender per ecosystem | start, report, end | db threads, client | order of steps | a bar that is started ends |
| `config.rs`, `main.rs`, `lib.rs`, `alloc.rs` | configuration | parse, wiring | all | swapped under a scan | |
| `src/lib.rs` (Zed extension) | installation directory | find, install, verify | GitHub | a kill or a failure between two steps | what is launched is what was published |

`PROJECT.json` lists the same components with what is modelled, and under
`hazards` each place where this code can go wrong in a way a test would hardly
reach.

## Modules

| Module | Models | State and actions |
|---|---|---|
| `Engine` | `engine.rs`, and the handlers of `lsp.rs` as its senders | One variable per local of `run`, the channel as a bounded sequence, the handler calls that wait (`asking`) or are half done (`deleting`, `requestDue`). One action per `select!` arm (`HandleRequest`, `HandleClear`, `HandleQuery`, `DebounceElapsed`, `ScanFinished`, `ActorStops`); `publish` is `Publish`. A scan on the blocking pool reads one manifest per step. |
| `Board` | what the engine promises its publisher | A board of findings that is only replaced by a scan asked for later, or loses one file's. `Engine` implements it (`ImplementsBoard`). |
| `Publishing` | `ClientPublisher` and didOpen of `lsp.rs`, composed with `Engine` | `renders`: the tasks on their way per file, delivered in any order; `screen`: what the editor shows. |
| `Scanner` | `scan.rs`, the engine as its caller, `ensure_one` as one step | Each scan is a record with a program counter; each read or write of shared state (archives, cached index, flags, configuration) is a step, and so is its failure (`ScanFails`). The engine may begin one at any time, after a shutdown too. The download is a thread with one more per ecosystem. |
| `Database` | `ensure_one` of `db.rs` for one ecosystem, several servers | A program counter per server; each stat, read, write, rename, lock and response is a step (`ChecksStale` is the `exists` of `stale()`, `ChecksAge` its read of the sidecar; `Requests` and `Offers` are the two reads before the request). Kills, a directory or lock file that does not open, failing writes and removals, other tools and the bucket are actions. |
| `Ensuring` | what `ensure_one` is to `scan.rs` | One archive that only its callers put there, in versions that never go back, and that is there when a call succeeds. `Database` refines it. |
| `Api` | `advisories` and `resolve` of `api.rs` for one ecosystem | Each scan has its copy of the cache; queries, record downloads and the write of the cache are steps that may fail (a record may also be a body that does not parse, `StoresGarbled`), osv.dev publishes and revises between them. |
| `Graph` | `reach`, `walk` and `chain` of `graph.rs` | The locals of `walk` as variables; each declaration (`Seeds`), entry (`Visits`), edge (`Follows`) and end of a pass is a step. |
| `Ranges` | `flatten_ranges` of `osv.rs`; `in_range` and `affects` of `matcher.rs` | One event of an advisory's timeline per step; the two questions are operators on the ranges that came out. |
| `Findings` | `reconcile` of `extract.rs`, `findings` and `fix_for` of `matcher.rs`, `upgrades` of `action.rs` | `Graph` and `Ranges` composed: the walk, then one lock entry per `Reconciles`, the records, then one finding with a `Tries` per candidate. |
| `Versions` | `version.rs` and the three modules under it | Three texts of one ecosystem are parsed one after the other (`ParsesSemver`, `ParsesPyPI`); the comparisons are operators, one per function. |
| `Manifests` | `manifest.rs` and `manifest/*.rs` | Operators, one per parser (`PackageJson`, `GoMod`, `CargoToml`, `CargoLock`, `Requirements`): the statements found in a file in, sightings out. |
| `Lockfile` | `Lock` of `manifest/npm.rs`; `resolve_edges`, `nearest_lock_dir`, `roots` and `attribute` of `graph.rs` | Operators: both lockfile formats become one tree (`FromPackages`, `FromTree`), names resolve upwards and through links (`Resolve`, `Follow`), and every manifest a tree answers for is walked (`Attribute`). |
| `Extraction` | `extract.rs` and `read.rs` | The locals of `extract` as variables; `Enters` takes the next file of the walk, in any order, up to the cap; `FollowsInclude` one file named by `-r`; `Reconciles` attributes the lockfiles and makes the report. |
| `Documents` | the buffers and handlers of `lsp.rs`, `diagnostics.rs`, `action.rs`, over `Extraction` | The editor (`doc`, `menu`, `screen`), its messages in order (`inbox`), one action per handler up to where it awaits the engine (`queries`), `Replies` and what follows it (`RepliesToOpen`, `AnswersAction`), one task per publish (`renders`: `RendersFile` reads the disk, `Delivers` tells the editor), `ScanStarts` and `ScanReports` around the steps of `Extraction`. |
| `Loading` | `load.rs` and `index.rs` | `Decodes` is one worker finishing one entry, `Takes` one result going to the records of its archive, in the archive's order, `Extend` the list taking an archive's records; `Counts`, `Lays` (one package) and `Places` (one mention) are the passes of `Index::build`, `Built` their end. |
| `Installer` | `src/lib.rs` of the extension | One action per step of `install`, each succeeding or failing (in `Verifies` also the reading of the binary and its removal); `Killed` and `Repins` between any two. |
| `EngineProofs`, `ScannerProofs`, `DatabaseProofs` (also of `Loading`), `FindingsProofs` (also of `Graph` and `Ranges`), `VersionsProofs`, `KeptProofs`, `ExtractionProofs`, `DocumentsProofs` | theorems | |
| `MCEngine`, `MCPublishing`, `MCScanner`, `MCDatabase`, `MCFindings`, `MCVersions`, `MCLoading`, `MCDocuments` | instances for TLC | model values, symmetry sets, named choices of constants |
| `MCKept`, `MCMatching` | instances of several modules that share no state | `kept` and `part` say which of them a behaviour is of |

`Scanner` sees `Engine` as a flag (`rescan`) and a place for results (`latest`,
`report`); `Engine` sees `Scanner` as manifests that are read one by one and an
outcome. What `Scanner` assumes of `ensure_one` is `Ensuring`, which `Database` implements:
`Publishes` is its `Renames` or a peer's `PeerLands`, `Lands` its `EnsureSucceeds`, `Fails` its
`EnsureFails`, and `Offers` its `BucketUpdates`. The names
of variables and operations are the code's wherever TLA+ allows it. Operators marked
*Mutant* are deliberately wrong variants of the operator after them, used to show
that each property can fail.

Variables under "History" are read by properties only: `taken`, `settled` and
`shown` number the requests, `lost` says a request was dropped that nothing in the
queue stands for, `overtaken` that a render overtook another, `cut` and
`lostRecords` what osv.dev did not deliver or could not be kept, `fixes` the last edit taken with the text
around it, `abandoned` the releases whose last installation left a binary unverified, or not executable.

### Abstractions

- Findings, versions of archives and advisories are values that can only be compared.
- Time: an armed debounce may fire at any moment, a sidecar is fresh or not, the
  hourly refresh is due or not. `Api` has a clock, because entries are compared with it.
- A file that is replaced by rename is replaced in one step. The moment in which
  two writers of one process share a temporary file in `api.rs` is left out.
- `Engine`: reasons of requests are only logged. `DropHandle` needs idle handlers,
  because `shutdown` takes the handle by value.
- `Scanner`: one `Ecosystem` set per scan, as extraction found it when the scan began. A scan that
  fails (a tree that cannot be walked, an archive that does not load) counts against `MaxFailures`,
  like a download that does.
- `Database`: the lock is one the operating system releases when its owner dies. A
  lock call that fails for other reasons counts as held, as in `try_lock`.
- `Graph`, `Findings`: one `package.json` beside one `package-lock.json`. A lockfile is
  what `resolve` makes of it: which entry each dependency of each entry, and each
  declaration, resolves to. Chains are made of entries. Dependency groups, severity and
  the order of the report are left out. (`Lockfile` and `Extraction` have the workspaces,
  the resolution of names and the groups; there a chain is only its length.)
- `Manifests`, `Lockfile`: a file is the sequence of its statements, a line is a place in
  it, and what a constraint spells (`lowest_satisfying`, `specifier`) is already a
  number or none. Versions are only asked which is newer. `Cargo.toml` is reported by the
  requirement as it is written: the number where that is all of it, and otherwise (an operator, a
  wildcard) something that is no version, which `Requirement` places below all of them.
- `Extraction`: directories are sequences of names. A file that cannot be read, is
  too large or is not text is `Unreadable`. The report is a set: it is only sorted
  to be compared.
- `Documents`: the engine is what `Board` promises: a request leads to a scan, and only the
  last one started reports. What the matcher says of a version is a constant
  (`Known`). A span is a line and what is written there; columns and encodings are left out.
  An edit replaces the number on its line and leaves an operator where it is (`Rewritten`).
- `Loading`: what an entry says of versions is left to `Ranges`. The hash map gives
  packages in any order.
- `Installer`: a download writes in place; what is left when it fails or is killed is
  nothing or a spoilt file. One that reports success may be spoilt too: that is what the checksums are for.
- `Ranges`, `Findings`: a version is a rank (all that `compare` looks at) and a spelling
  (all that a list of versions looks at). Every advisory is about one package and has
  one timeline. What a timeline means is read off its events in the order they are
  listed (`Exposed`): a version is affected from an introduction it has reached, unless
  a later event it has reached ends that.
- `Versions`: a text is what the scanner of its grammar finds: numbers are integers (the
  code compares digits of any length), words are their places in ASCII order, and a
  version that PEP 440 rejects is the place of what `legacy_parts` makes of it. What a
  parsed version *means* is read off the text by `SemverKey` and `PyPIKey`, which follow
  the two standards and share nothing with the comparisons.
- `Api`: one ecosystem; several only mean several cache files. A cache that could not be written
  stays as it was; a record that could not be written is as one that could not be had. Answers are matched to
  questions by position and a length mismatch is a `QueryFails`.

## Runs

Run one with `tlc -config <cfg> <module>`. All are listed in `PROJECT.json` with the
properties they check.

| Run | Question | Bounds, and why they suffice |
|---|---|---|
| `engine_safety` | Can any interleaving keep something stale, or say a notice twice? Does the engine implement `Board`, so that a superseded scan never replaces what is shown? | Two manifests (one read before and one after an edit), channel of 2 slots (fills with one Clear and one Query), 3 edits or requests: one under a scan, one under the debounce, one more. |
| `engine_liveness` | Is every request answered by a scan, every query by a reply, and does dropping the handle stop the task? | The engine as `Engine::start` builds it, one extra event. |
| `publishing_order` | When can the editor disagree with the engine? | Two renders per file are enough for one to overtake another. |
| `scanner_two_ecosystems` | Partial archives, failing downloads and scans, a shutdown anywhere with scans before, across and after it, a peer. | Two ecosystems are what "partial" needs; one scan at a time. |
| `scanner_overlap` | Superseded scans beside the new one, a bucket that moves, configuration changes. | Two scans at once share everything; a third adds no kind of step. |
| `scanner_first_run` | Does a first run converge without the user? | No archive, two ecosystems that land in either order. |
| `database_shared` | Two servers, kills, failing writes, deletion, a moving bucket: is the archive there and whole when `ensure_one` says so, was it fetched once, and does the call return? | Two versions and one expiry are a refresh; one fault at each point. |
| `database_heals` | Does `heal` find every archive that does not open? | One server, two changes by others. |
| `kept_on_disk` | Is the API cache ever ahead of osv.dev, is anything due not looked for? Is what Zed launches what was published? | Two scans over one cache file, two advisories (one found, one that completes the set), two versions, ttl of one tick on a clock of two, one fault. Three releases that replace each other and two faults: one may leave a directory half filled, the other meets it. |
| `matching` | Are the chains shown real and shortest, the ranges exact, the fixes clean and lowest? Does the index hold exactly what the archives name? Do any three versions fit one order, and is it the standards' where they speak? | Any shape among four lock entries that the edge sets of `MCFindings` make: cycles, peer and dev edges, three ways into one entry where two are shown, an entry declared twice, two copies of a version. Every order of up to three events (four in part). Two advisories about one package or two, four releases of which one is spelt two ways. Every archive of three entries of ten kinds beside another ecosystem's. Every triple among 19 semantic and 24 PyPI versions: each form that is compared in a way of its own, with a neighbour it must be told from. |
| `workspace` | Does anything a file states or installs go unreported, does what ships get demoted, does the order of the walk matter? Does an edit land on the version it is about, and settle it? Does what is held stand? | Four workspaces walked in every order: npm members under a root lockfile with links, aliases, peers and a member with two lockfiles of its own; Cargo with two versions of a crate and an excluded directory; requirements that include each other in a cycle; Go replacements, an unreadable file and a cap. Four that are edited: requirements with what they include, a `package.json` whose lockfile may be deleted, a `go.mod` whose replacement waits for the version that fixes, and a `Cargo.toml` without a lockfile, with and without an operator. One file written or deleted, a document opened and three versions typed are enough for the text of the scan, the answer and the edit to be three different ones. One publish is on its way when the next is made (`MaxRenders`): none of these properties compares the screens of several files, and how renders overtake each other is the question of `publishing_order`; the theorems have no such bound. |
| `findings_downgrade` (violation) | Can the edit go backwards? | A nested older copy of a declared package. |

`CHECK_DEADLOCK FALSE` everywhere: each instance stops when its bounds are used up,
and a server whose user does nothing rightly does nothing.

### What the violation shows

- **A quick fix can downgrade.** `fix_for` only considers versions "above the installed
  one". `reconcile` reports every lock entry whose package the manifest declares at the
  manifest's line, nested copies of other versions too. An advisory that was fixed
  between the two versions leads to an edit of that line to a version below the one it
  installs. Such a copy is a transitive dependency, for which `docs/PLAN.md` promises
  that no quick fix is offered.

### Further claims of comments that do not hold

These configurations are kept for the reader and are not among the listed runs. Each of
the properties named under INVARIANT or PROPERTY is refuted by TLC; where there are several,
keep one at a time, since TLC stops at the first.

| Configuration | Module | Claim | What happens |
|---|---|---|---|
| `ApiComplete` | `MCKept` | api.rs:21 "the package is reported in Advisories::partial and the caller withholds the fix" | a record that fails to download, or an answer cut short in an earlier scan, leaves a package that is neither complete nor partial. `CompleteOnceAsked` shows that these two are the only causes |
| `PublishingStale` | `MCPublishing` | engine.rs:314 "a file that moved from vulnerable to clean never keeps a stale squiggle, even briefly" | each publish is rendered on a task of its own; the render of the old findings can finish after the clear. `OnlyReorderingDrifts` shows that this is the only way |
| `ScannerNewEcosystem` | `MCScanner` | scan.rs:86 "so the scan that was refused can be retried without waiting for the user to touch a file" | `warm` returns while another download runs, even one for other ecosystems; when that one ends, nothing asks again |
| `EngineClaims`, `FullQueueHoldsRequest` | `MCEngine` | engine.rs:78 "A full queue already holds the same instruction" | it may hold Clears and Queries only |
| `EngineClaims`, `SupersessionAborts` | `MCEngine` | engine.rs:5 "Supersession aborts the in-flight scan" | `abort` does not stop a closure that runs |
| `EngineClaims`, `DropStops` | `MCEngine` | engine.rs:170 "Dropping the handle is enough to stop it" | the task owns the scanner, whose `on_ready` holds a Sender |
| `EngineClaims`, `MissingWasSaid` | `MCEngine` | engine.rs:259 "Say which, once" | an ecosystem missing later is never said |
| `ScannerClaims`, `RescanSeesLanded` | `MCScanner` | scan.rs:229 "The index goes first, or the rescan would reuse the old one" | a superseded scan stores the old one again |
| `ScannerClaims`, `RefreshReachesIndex` | `MCScanner` | scan.rs:169, week-old advisories | an archive a peer replaced before `before` was captured is never reloaded |
| `ScannerClaims`, `OfflineNeverDownloads` | `MCScanner` | README.md:124 "Never touch the network at all" | `offline` is not looked at when some archives are there |
| `ScannerClaims`, `NoDownloadAfterShutdown` | `MCScanner` | scan.rs:81 "no download starts" | `stopped` is read before the flag is claimed |
| `DatabaseOthers`, `EnsuredIsReadable` | `MCDatabase` | db.rs:204 "as its archive becomes readable" | `heal` works outside the lock and removes what a peer has just downloaded |
| `DatabaseOthers`, `MetaNeverAhead` | `MCDatabase` | db.rs:391 "Still current" | another tool puts back an older archive under our etag |
| `LoadingCounted` | `MCLoading` | index.rs:76 "Every advisory that names this package", model.rs:506 "Every advisory that applies" | `Index::build` posts an advisory once for every entry of its `affected` list that names the package, and `applicable` keeps every posting: one with an entry per release line is in the finding, and in the count of the diagnostic, more than once |
| `WorkspaceUnwatched` | `MCDocuments` | lsp.rs:31 "every file a parser reads has to be watched, or editing it changes nothing" | a file named by `-r` is read whatever it is called, and watched only as `requirements*.txt`: what it said before it was edited stays on screen |
| `WorkspaceRanges` | `MCDocuments` | README.md:93 "a constraint is resolved to its lowest satisfying version", manifest.rs:68 "which is what is scanned when there is no lockfile" | `cargo_toml` takes only the place of the number from `lowest_satisfying` and reports the requirement as it is written (cargo.rs:54-59). The quick fix writes its version behind the operator; the next scan reports a requirement again, which compares as older than any version, and the finding stays. `FixSettles` is stated for lines that hold a bare version, and is a theorem of them |
| `InstallerTrusted` | `Installer` | src/lib.rs:120 "An existing download is trusted: it was verified when it was installed" | `install` leaves the binary where it is when the download is cut short, when the checksums or the binary cannot be read, and when one that does not match cannot be removed (src/lib.rs:170); the next start takes it. `LaunchesPublished` is stated up to this, and its theorem says that there is no other way |

Two more properties state what a comment promises without the exception that the code
needs, and fail: `EveryEditLands` of `Documents` (edits of a buffer over the cap, which is not held,
carry no version by which the editor could reject them) and `OncePerFile` of
`Extraction` (extract.rs:217: `visited` compares paths as they are spelt, so an include through
`..` is read again).

### Choices of the code worth knowing

They contradict no comment, and the models have them as they are.

- `nearest_lock` goes by package: a lockfile of a member does not shield what it does not
  pin from one further up, and an exact pin in a root `requirements.txt` governs the ranges
  below it.
- `-r` targets called `requirements*.txt` in a skipped directory, or outside the
  workspace, are left to a walk that never reaches them.
- In `go.mod` the first `replace` that fits wins, also one for every version before one for
  this version.
- The quick fix does not look at `replace`: if one takes over the version that it writes, the
  build uses the replacement, and what was found can be found there again (`FixSettles`
  excepts this, and TLC shows that it must).
- A package that one list pins and a range beside it names is found at the pin and shown at
  the range, where the edit goes; the pin stays. (`FixSettles` is of what is found where it is
  shown.)
- The members of a Cargo workspace are in the root's `Cargo.lock`, and are not dropped there
  as a crate of its own would be; what only its development dependencies need counts
  as shipping, because `Cargo.lock` does not say.
- Of `requirements.txt` and `requirements-dev.txt` that state one version alike, the one the walk met
  first is named.
- `selects` recognises a diagnostic by the worst advisory of a finding, so two
  findings of one file under one advisory are offered together.

## Fairness

- `Engine`: weak fairness of every arm of `select!`, of the handlers that are half way
  through, and of the pool. `select!` polls its branches in random order, so an arm
  that stays ready is taken; tokio's channel is fair to waiting senders; scans
  terminate because every network wait has a timeout. User actions are not fair.
- `Scanner`: threads go on; a request that is due leads to a scan. Edits, the clock and
  peers are not fair.
- `Documents`, `Extraction`, `Loading`, `Installer`, `Api` and the judgements have safety
  properties only, stated of states that are at rest (`Settled`, `Done`), and no fairness.
- `Database`: a server inside `ensure_one` goes on; the agent has a timeout and
  `await_peer` a deadline, so `GivesUpWaiting` is always possible. Kills, deletions and
  the bucket are not fair.

## Proofs

TLC checks the instances above; the theorems hold for every value of the constants.
Each is an induction over the actions of `Next`, from an invariant that TLC
confirmed first.

**Engine.** `TypeCorrect`. `SupersededHolds` needs that the pending deadline and the
scan in flight exclude each other and that ids never exceed `taken` (`SupersedeInv`).
`ClientAgreesHolds` is inductive as it stands, given the types.
`EngineImplementsBoard` is the step simulation: `ScanFinished` of a successful scan is
`Replace` (its id is above `shown`, from `SupersedeInv`), `HandleClear` is `Withdraw`,
all else stutters. `QuietMeansCurrentHolds` is the deepest: a manifest that differs
from what is shown is always one that the editor still owes, or is covered by a
request not yet taken (queued behind every Clear), an armed deadline, or a scan in
flight that has not read it yet or has read it as it is (`CurrentInv`).
`OnlyReorderingDriftsHolds` is of `Publishing`, whose steps are steps of `Engine`, so that its
invariants carry over: what is on the way to a file ends with what the engine last said of it,
unless a render has been overtaken (`DriftInv`).

**Scanner.** `CoverageHonestHolds` carries per scan what its program counter implies:
from "matched" on, every needed ecosystem is in `got`, and a full scan needs all it
wants (`Sane`). `WarmingIsOwnedHolds` counts owners of the flag. `NoRescanHolds`: after
an orderly shutdown no thread has passed the check of `stopped` (`Stopping`), though the engine goes on to
begin scans, and one that read `stopped` before may still claim the flag and start a download.
`RefusedIsRetriedHolds` is for servers without peers and projects whose ecosystems stay the
same; `ScannerNewEcosystem` shows the second to be needed, and a peer that lands an archive
before `before` is captured the first. `RetryInv`: from the look at the disk to its
report, the scan the engine waits for is owed a rescan: one is asked for, or an archive is still
absent, landed where absence was captured, or on its way to `on_ready` (`Open`); from the claim
on a thread has every absent archive in hand (`InHand`), so it cannot end with one open.

**Database.** `LockInv`: only the lock's owner is between "recheck" and the last write.
`AccountInv` relates what the owner has in hand (offered etag, received body) to disk
and bucket: this gives `MetaNeverAheadHolds` and `NeverOlderHolds`, unless another tool
replaces archives. `PromiseInv` says that the archive is there wherever a server counts
on it and that at most one sidecar is written between two reasons to write one; it
needs `PoliteOutside`: others at most delete archives, and not while a server is inside
`ensure_one`. A server that found the archive stale under the lock is in `Found`; only one can be, and
no sidecar has been written since there was reason to. The two properties of `DatabaseOthers` show that neither assumption can go.
`ValidatedIsReadableHolds` rests on modification times that only grow (`ValidInv`): no archive
written later has a stamp that was validated before, and what is at the path between the
rename and the stat is what was renamed, as long as nobody else writes there.
`DatabaseImplementsEnsuring` is the step simulation, under `PoliteOutside`: a rename is
`Publishes` (`AccountInv` has the body at least as new as the archive), every return of Ok is
`Lands` (`PromiseInv` has the archive there), a kill is `Fails`, and what happens to lock,
sidecar and temporary file is invisible.

**Ranges.** `Lossless` is for timelines of any length in any order. `LossInv`: every
introduction read so far has a window, a range that starts with it and ends, if at all,
with the bound that followed; until it is pushed it is the window still open.
`Precise` is for orderly timelines. `AddInv`: in such a timeline introductions and ends
alternate, so a window is open exactly after an odd number of events, and each range
pushed pairs an introduction with the event right after it; the order of the timeline is
what keeps an end from being met before its introduction.

**Graph.** `GraphTypes` says that no step leads outside the lockfile. `Tight` is
breadth-first search proved for every lockfile: the queue is sorted by depth and spans
at most two depths (`FrontierInv`), declarations are exactly the entries of depth one
(`SeedInv`), and every edge of an entry that has been visited leads at most one step further
(`EdgeInv`). `ShortestChains` is what the user sees of it: the chains that are shown are
ways npm follows from a declaration, there is none shorter, and an entry has them exactly if it is not
declared and something reaches it. It takes that the ways kept with an entry come from one step
nearer (`WaysInv`), so that going back along them ends (`BackDescends`), that the depth
an entry was given is its distance (`DepthIsDistance`, against `Within`, which grows by
one step at a time), and what is found before, between and after the two passes (`FoundInv`).

**Findings.** `WalksTheGraph` and `DecodesTheTimelines` show, step by step, that the
pipeline implements the two specifications, so their theorems carry over. `FixInv`: the
candidates left are fixed versions above the installed one; every other such version
has a spelling that is still affected, or is not below the one that was chosen. `FixClean` and
`FixLowest` follow. `ShortestCopy`: of several copies of one version the one with the shortest
chain stays (`SightingInv`: every package with a copy reconciled so far has a sighting, and a chain it
gives is no longer than that of any such copy).

**Versions.** `OrderHolds`: within an ecosystem `compare` is a total preorder, whatever
the versions hold; this is what `Ranges` and `Findings` assume of ranks. Every comparison
is the first that decides among comparisons of parts (`First`), and if the parts fit one
order so does the first that decides (`FirstFits`). Its proof takes the first place
where any of the three differ, by the least-number principle (`Least`), and so is not
bound to a number of components or identifiers. Lists of different lengths are compared as
if the shorter went on with something below everything (`AtFits`, `FirstPadded`).
`ParsedWell` is the invariant: a version parsed has the parts its comparison reads, in
particular a letter wherever a prerelease has a number. `StandardsAgree` is the comparison
against semver.org and PEP 440: the keys that the standards define are flat lists compared member by
member, and each comparison of the code says of its parts what those members say (`Says`,
`FirstSays`, `MembersSaySo`); padding, trimmed zeros, the trick by which PEP 440 sorts a development
release, and local labels are the cases.

**Api.** `HonestInv`: whatever is in a cache, a scan's copy or an answer was said by osv.dev
no earlier than the stamp it carries, and nothing osv.dev says later can be dated back
(`WorldGoesOn`); `CacheHonestHolds` is part of it. `AskInv` is about what a scan owes: each
record named by its answers is on disk and parses, lost, or still to be fetched, and until matching starts each
package is still to be asked about or answered. `NothingMissedHolds` and
`CompleteOnceAskedHolds` follow when `Ttl > 0`; without a time to live an advisory
published at the moment of the query would already be due.

**Installer.** `PublishedIsLaunched`, for any releases and any number of faults. `AtRest`: every
directory that no call is filling is whole or abandoned. `Underway`: how far the call's own
directory is, which is what makes `Verifies` the only way from a download to an answer.

The type invariants of `Engine`, `Scanner` and `Database`, and `Superseded`, `ClientAgrees`,
`PresentIsReadable` and `NeverOlder`, are proved and no run repeats them: they are the parts of
the invariants above that the stronger properties of the runs rest on.

**Extraction.** `ExtractionInv` says what the walk holds at any moment: sightings seen in the file
they name, includes that end in a file's name, one well-formed lockfile per directory; and, once
done, that the report is `Reconcile` of these. `ReconcileHidesNothing` and `ShippingIsReported`
are then of `reconcile` alone, for any sightings and chains, with workspaces nested in each other,
several lockfiles and any number of declarations: the loop over the reports (`KeptIs`) leaves, of those
of one kind (key, version and place), one that merges the groups of all; every sighting or chain is
reported somewhere, and a range that is dropped has its pin in the nearest lockfile above it
(`ReportedBelowItsPin`, by the depth of directories). `WalkOrderDecidesNothing`:
what `Reconcile` makes depends on the set of what was seen, not on its sequence
(`OrderDecidesNothing`), and where the walk itself chooses, between two lockfiles of one directory,
it is the shrinkwrap that stays (`ShrinkwrapsHold`). The last is said of the files as they are on disk, so
it is a theorem of `ExtractionSpec`, where they stand still; the other two also hold of
`DocumentsSpec`, whose files are written during the pass.

**Documents.** `DocumentsInv` carries the version of the buffer from end to end: the messages on
their way, in order, end with the document as it is (`MessagesAgree`), the server's buffer, where it has the
version of the document, has its text (`BuffersAgree`), and an offer of that version was made from that
text (`OfferAgrees`). `EditsLand` is then a fact about `version_span` (`VersionSpanIs`).
`PromisesAreKept`: whatever is on screen, or on its way there, was rendered from one text and one set of findings (`Rendered`),
and diagnostics and code actions ask the same question of them. `WhatIsHeldStands`: as long as no
write or deletion is unheard of (`Quiet`), all that the pass has seen of watched files, and all
that is held when none runs, stands on disk (`Fresh`); a write makes it unquiet, and what it makes due
starts the pass over. What the editor shows of it is up to the order of renders (`OnlyReorderingDriftsHolds`). `FixesSettle` puts these together: the edit went to the
line the finding is shown on, what a parser says of that line now is the version
written there (`ParseWritten`, for each of the five formats, where the line states a version and no more),
what is held stands in the file, and by
`DocumentsAssumption` the matcher knows nothing of a version that it proposes (`FixClean` of
`FindingsProofs` is that fact about `fix_for`).

**Loading.** `LookupsAreExact`: for archives of any size, decoded by any workers in any order, the index
finds for a package exactly the advisories that name it, in the order of the archives. `ReadInv`: the
advisories taken so far are the records kept of the entries before, in that order.
`BuildInv`: slots do not overlap, each has room for what was counted of its package, and holds the
mentions placed so far, in order. The two passes agree because both read the same list.

Induction over data is done where it is needed by the principle of the least number
(`LeastNat`, `Least`, `SetInduction`) and, for recursive functions, by showing that there is a function
that satisfies the recursion step by step (`Iterates`, `PickedByStep`, `FlattenByStep`,
`ListedByStep`, `KeptByStep`): library theorems that take an operator are out of reach of the
provers.

Every assumption on the constants is one that TLC evaluates in the runs. `ExtractionAssumption`: the files of
a project are at normal paths, and hold statements a parser could have found (`IsText`);
`LoadingAssumption` and `FindingsAssumption`: what entries, records and lockfiles are; `NoneAssumption`:
that "none" is not one of the values; `DocumentsAssumption`: that a fix clears its package. The hypotheses of single theorems
(`PoliteOutside`, `Ttl > 0`, orderly timelines) are named with them above.

Only model-checked: liveness under fairness (`RequestsSettle`, `QueriesReturn`, `DropStops`,
`WarmingEnds`, `FirstRunConverges`, `EnsureReturns`), which is out of the prover's reach. Every
safety and action property that a passing run checks is also a theorem.

## Not modelled

- The scanning of strings: JSON, TOML, `go.mod` and requirement lines into statements,
  version strings into parts (`specifier`, `lowest_satisfying`, `legacy_parts`), spans and
  UTF-16 columns. Functions of one string with fixture and differential tests.
- Wording: messages, hover links, related information, CVSS scores.
- `progress.rs`: what it sends the client is read by nobody in the server.
- The HTTP agent, the zip reader and the JSON of a record.
- `details` of `db.rs` and the development tools (`bin`, `testing.rs`); the allocator.
- Configuration beyond `online` and `offline`: it is parsed once per change.

## Plan

1. `Documents` renders and delivers as `Publishing` does; that it implements `Publishing` is not shown, which would
   carry `OnlyReorderingDrifts` over to it.
2. `Documents` takes from the engine that only the last scan started reports, and from the matcher that a fix
   clears; both are theorems of other modules. A refinement mapping between them would make this a
   theorem too.
