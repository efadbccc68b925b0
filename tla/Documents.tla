------------------------------ MODULE Documents ------------------------------
(***************************************************************************)
(* lsp.rs, action.rs and diagnostics.rs over extract.rs: a user edits      *)
(* manifests, the server keeps the text of those that are open, scans what *)
(* is on disk, shows what it found and offers to rewrite a version.        *)
(*                                                                         *)
(* The editor sends its messages in order, and the handlers that keep a    *)
(* buffer do so before they first wait.  didOpen and codeAction then wait  *)
(* for the engine, and go on with the disk and the buffers of later; every *)
(* publish is a task of its own, which reads the disk, then tells the      *)
(* editor.  The engine is here only what it promises: a request is         *)
(* followed by a scan, and only the last scan started reports (Engine).    *)
(***************************************************************************)
EXTENDS Extraction

CONSTANTS
    Known,      \* what the matcher says: per package and version, the finding
    MaxVersion, \* bound: versions of one open document
    MaxInbox,   \* bound: messages on their way to the server
    MaxWrites,  \* bound: how often a file is written or deleted
    MaxOpens,   \* bound: how often a document is opened
    MaxRenders  \* bound: publishes on their way when another is made

ASSUME DocumentsAssumption ==
    /\ {MaxVersion, MaxInbox, MaxWrites, MaxOpens, MaxRenders} \subseteq Nat
    \* A fix clears the package (FixIsClean of Findings).
    /\ \A k, l \in Known : ~(k.key = l.key /\ k.fix = l.version)

VARIABLES
    doc,      \* the editor: open documents, with version and text
    menu,     \* the fixes it offers the user
    awaited,  \* it still wants the answer to its last codeAction
    inbox,    \* what it sent, oldest first
    open,     \* Backend::open
    queries,  \* didOpen and codeAction, waiting for the engine's reply
    asked,    \* the codeAction whose findings have come
    due,      \* a scan was requested and has not started
    found,    \* the findings the engine holds
    renders,  \* publishes on their way to the editor
    screen,   \* per path, the diagnostics shown and what they were made from
    writes,   \* how often a file was written, and a document opened
    opens,
    fixes     \* history: the last fix taken, and the text before and after

editorVars == <<doc, menu, awaited>>
engineVars == <<queries, asked, due, found>>
shownVars  == <<renders, screen>>
serverVars == <<open, engineVars, shownVars>>
countVars == <<writes, opens>>
documentVars == <<extractionVars, editorVars, inbox, serverVars, writes, opens, fixes>>

NoFix       == 0
NoLine      == 0
Unversioned == 0
NotYet      == <<>>  \* what a publish shows before the disk was read for it
SummaryCode == "summary"

\* is_manifest: what is watched, and whose saving leads to a scan.  (Of the
\* names in Projects; the locks of yarn, pnpm and others are watched as well.)
IsManifest(path) == Last(path) \in ManifestNames

-----------------------------------------------------------------------------
(* Findings, and what is said of them                                      *)

FindingsOf(report) ==
    UNION {{[package |-> p, known |-> k] : k \in
               {l \in Known : l.key = p.key /\ l.version = p.version}} : p \in report}

\* Report::by_file
ByFile(findings, path) == {x \in findings : AnchorSite(x.package)[1] = path}

Direct(x) == x.package.depth = 0
Dev(x) == "dev" \in x.package.groups
ResolvedElsewhere(x) == x.package.evidence[1] # AnchorSite(x.package)[1]
Span(s) == IF s.editable THEN s.evidence[2] ELSE NoLine

\* Where a text names the package of a finding.
Named(seen, x) == {i \in DOMAIN seen : seen[i].key = x.package.key}

\* Mutant: the first declaration that has the name will do.
VersionSpanFirst(seen, x) ==
    IF ~Direct(x) \/ Named(seen, x) = {} THEN NoLine ELSE Span(seen[Min(Named(seen, x))])

\* version_span(): the line the finding was anchored on if it still names the
\* package, otherwise the only one that does.
VersionSpan(seen, x) ==
    LET exact == {i \in Named(seen, x) : seen[i].evidence[2] = AnchorSite(x.package)[2]}
    IN IF ~Direct(x) THEN NoLine
       ELSE IF exact # {} THEN Span(seen[Min(exact)])
       ELSE IF Cardinality(Named(seen, x)) = 1 THEN Span(seen[Min(Named(seen, x))])
       ELSE NoLine

\* parser_for(path) on a text, if there is both.
SeenIn(text, path) == IF text = Unreadable THEN <<>> ELSE Parse(text, path)

\* 1 is an error, 2 a warning, 3 an information.
SeverityLevel(severity, dev) ==
    (IF severity \in {"high", "critical"} THEN 1 ELSE 2) + (IF dev THEN 1 ELSE 0)
SeverityFor(x) == IF x.known.malicious THEN 1 ELSE SeverityLevel(x.known.severity, Dev(x))

\* Mutant: whatever could be fixed is promised, and shown on the name.
FindingDiagnosticHopeful(seen, x) ==
    [code |-> x.known.worst, severity |-> SeverityFor(x), fix |-> x.known.fix,
     line |-> AnchorSite(x.package)[2], promise |-> Direct(x) /\ x.known.fix # NoFix,
     resolved |-> IF ResolvedElsewhere(x) THEN x.package.evidence ELSE NoSite]

\* finding_diagnostic(): on the version where the file states it, otherwise on
\* the name; with a fix to press for only in the first case.
FindingDiagnostic(seen, x) ==
    LET version == VersionSpan(seen, x)
    IN [code |-> x.known.worst, severity |-> SeverityFor(x), fix |-> x.known.fix,
        line |-> IF version # NoLine THEN version ELSE AnchorSite(x.package)[2],
        promise |-> version # NoLine /\ x.known.fix # NoFix,
        resolved |-> IF ResolvedElsewhere(x) THEN x.package.evidence ELSE NoSite]

\* summary(): one line on the file, when more than one thing is wrong with it.
Summary(findings) ==
    IF Cardinality(findings) < 2 THEN {}
    ELSE {[code |-> SummaryCode, fix |-> NoFix, line |-> 1, promise |-> FALSE, resolved |-> NoSite,
           severity |-> Min({SeverityLevel(x.known.severity, FALSE) : x \in findings})]}

\* for_file(): the manifest is read again, from disk.
ForFile(path, findings) ==
    LET text == Read(path)
    IN [text |-> text, findings |-> findings, diagnostics |->
            Summary(findings) \cup {FindingDiagnostic(SeenIn(text, path), x) : x \in findings}]

\* The files that show something when all is delivered: `published` of engine.rs.
AnchorPaths(findings) == {AnchorSite(x.package)[1] : x \in findings}

\* One task each, in no order; turn is what tells apart two that are alike.
Render(turn, path, findings) ==
    [turn |-> turn, path |-> path, findings |-> findings, shown |-> NotYet]
Turn == 1 + Max({r.turn : r \in renders} \cup {0})
Publishes(paths, findings) ==
    /\ paths # {} => Cardinality(renders) < MaxRenders
    /\ renders' = renders \cup {Render(Turn, path, ByFile(findings, path)) : path \in paths}

-----------------------------------------------------------------------------
(* Code actions                                                            *)

\* selects(): by the advisory where the editor sent diagnostics of this server,
\* by the line where it sent none.
Selects(request, x) ==
    IF request.codes # {} THEN x.known.worst \in request.codes
                          ELSE AnchorSite(x.package)[2] = request.line

\* upgrades()
Upgrades(path, version, text, findings, request) ==
    LET seen == SeenIn(text, path)
    IN {[path |-> path, version |-> version, line |-> VersionSpan(seen, x), to |-> x.known.fix,
         finding |-> x] :
           x \in {y \in findings : y.known.fix # NoFix /\ Selects(request, y)
                                       /\ VersionSpan(seen, y) # NoLine}}

\* Mutant: the text on disk, under the version of the buffer.
SourceOnDisk(path) ==
    [version |-> IF path \in DOMAIN open THEN open[path].version ELSE Unversioned,
     text |-> Read(path)]

\* source(): the buffer, or what is on disk, which has no version.
Source(path) ==
    IF path \in DOMAIN open THEN open[path] ELSE [version |-> Unversioned, text |-> Read(path)]

-----------------------------------------------------------------------------
(* The editor                                                              *)

Message(is, path) == [is |-> is, path |-> path]
Text(is, path, at) == [is |-> is, path |-> path, version |-> at.version, text |-> at.text]
Sends(message) == Len(inbox) < MaxInbox /\ inbox' = Append(inbox, message)

Writes == writes < MaxWrites /\ writes' = writes + 1 /\ UNCHANGED opens

Opens(path) ==
    /\ path \in DOMAIN Project.texts \ DOMAIN doc
    /\ opens < MaxOpens /\ opens' = opens + 1
    /\ LET at == [version |-> 1, text |-> files[path]] IN
       /\ doc' = With(doc, path, at)
       /\ Sends(Text("open", path, at))
    /\ UNCHANGED <<extractionVars, menu, awaited, serverVars, writes, fixes>>

\* The document gets another text, and its next version.
Becomes(path, text) ==
    /\ doc[path].version < MaxVersion
    /\ LET at == [version |-> doc[path].version + 1, text |-> text] IN
       /\ doc' = [doc EXCEPT ![path] = at]
       /\ Sends(Text("change", path, at))
    /\ UNCHANGED <<extractionVars, awaited, serverVars, countVars>>

Types(path) ==
    /\ path \in DOMAIN doc
    /\ \E text \in Project.texts[path] \ {doc[path].text} : Becomes(path, text)
    /\ UNCHANGED <<menu, fixes>>

Saves(path) ==
    /\ path \in DOMAIN doc /\ files[path] # doc[path].text
    /\ Writes
    /\ files' = [files EXCEPT ![path] = doc[path].text]
    /\ Sends(Message("save", path))
    /\ UNCHANGED <<project, walkVars, visited, phase, packages, editorVars, serverVars, fixes>>

\* What was offered on a document is gone with it.
Closes(path) ==
    /\ path \in DOMAIN doc
    /\ doc' = Restrict(doc, DOMAIN doc \ {path})
    /\ menu' = {} /\ awaited' = FALSE
    /\ Sends(Message("close", path))
    /\ UNCHANGED <<extractionVars, serverVars, countVars, fixes>>

\* The user asks what can be done about a diagnostic or, in an editor that does
\* not send them, about a line.  One request at a time.
AsksAction(path) ==
    /\ path \in DOMAIN doc \cap DOMAIN screen
    /\ asked = {} /\ \A m \in Range(inbox) \cup queries : m.is # "ask"
    /\ \E d \in screen[path].diagnostics :
          \/ Sends([is |-> "ask", path |-> path, codes |-> {d.code}, line |-> NoLine])
          \/ Sends([is |-> "ask", path |-> path, codes |-> {}, line |-> d.line])
    /\ menu' = {} /\ awaited' = TRUE
    /\ UNCHANGED <<extractionVars, doc, serverVars, countVars, fixes>>

\* Where the edit goes, as the buffer is when it is applied: the number alone is
\* replaced, and what else a requirement says stays.
Rewritten(text, line, version) ==
    IF text # Unreadable /\ line \in DOMAIN text
    THEN [text EXCEPT ![line].version = version] ELSE text

\* An edit made for another version of the document is rejected.
Fits(offer) == offer.version \in {Unversioned, doc[offer.path].version}

TakesFix(offer) ==
    /\ offer \in menu
    /\ IF Fits(offer)
       THEN LET text == Rewritten(doc[offer.path].text, offer.line, offer.to) IN
            /\ Becomes(offer.path, text)
            /\ fixes' = {[offer |-> offer, before |-> doc[offer.path].text, after |-> text]}
       ELSE UNCHANGED <<extractionVars, doc, awaited, inbox, serverVars, writes, opens, fixes>>
    /\ menu' = {}

\* Another tool writes a file no document is open on; the editor tells of those
\* the server asked it to watch.
Rewrites(path) ==
    /\ path \in DOMAIN Project.texts \ DOMAIN doc
    /\ Writes
    /\ \E text \in Project.texts[path] \ {files[path]} : files' = [files EXCEPT ![path] = text]
    /\ IF IsManifest(path) THEN Sends(Message("watched", path)) ELSE UNCHANGED inbox
    /\ UNCHANGED <<project, walkVars, visited, phase, packages, editorVars, serverVars, fixes>>

\* It deletes one, for good or until it is written again.
Deletes(path) ==
    /\ path \in DOMAIN Project.texts \ DOMAIN doc /\ files[path] # Unreadable
    /\ Writes
    /\ files' = [files EXCEPT ![path] = Unreadable]
    /\ IF IsManifest(path) THEN Sends(Message("deleted", path)) ELSE UNCHANGED inbox
    /\ UNCHANGED <<project, walkVars, visited, phase, packages, editorVars, serverVars, fixes>>

-----------------------------------------------------------------------------
(* The server: the handlers, up to where they first wait                   *)

\* track(): only what a parser reads, and nothing over the cap.
Track(path, at) ==
    IF Last(path) \notin ManifestNames THEN open
    ELSE IF at.text = Unreadable THEN Restrict(open, DOMAIN open \ {path})
    ELSE With(open, path, at)

Next1 == Head(inbox)
Handles(is) == inbox # <<>> /\ Next1.is = is /\ inbox' = Tail(inbox)
At(m) == [version |-> m.version, text |-> m.text]

DidOpen ==
    /\ Handles("open")
    /\ open' = Track(Next1.path, At(Next1))
    /\ queries' = queries \cup {[is |-> "open", path |-> Next1.path]}
    /\ UNCHANGED <<extractionVars, editorVars, asked, due, found, shownVars, countVars, fixes>>

DidChange ==
    /\ Handles("change")
    /\ open' = Track(Next1.path, At(Next1))
    /\ UNCHANGED <<extractionVars, editorVars, engineVars, shownVars, countVars, fixes>>

DidClose ==
    /\ Handles("close")
    /\ open' = Restrict(open, DOMAIN open \ {Next1.path})
    /\ UNCHANGED <<extractionVars, editorVars, engineVars, shownVars, countVars, fixes>>

\* Mutant: a scan that is running is taken to see what was saved.
DidSaveUnlessScanning ==
    /\ Handles("save")
    /\ due' = (due \/ (IsManifest(Next1.path) /\ phase = "idle"))
    /\ UNCHANGED <<extractionVars, editorVars, open, queries, asked, found, shownVars, countVars,
                   fixes>>

\* A scan is requested.
DidSave ==
    /\ Handles("save")
    /\ due' = (due \/ IsManifest(Next1.path))
    /\ UNCHANGED <<extractionVars, editorVars, open, queries, asked, found, shownVars, countVars,
                   fixes>>

DidChangeWatched ==
    /\ Handles("watched")
    /\ due' = TRUE
    /\ UNCHANGED <<extractionVars, editorVars, open, queries, asked, found, shownVars, countVars,
                   fixes>>

\* "A deleted manifest's diagnostics are wrong the moment it goes": what is held
\* of it is dropped before the scan is requested, and what it shows is cleared.
DidDelete ==
    /\ Handles("deleted")
    /\ found' = found \ ByFile(found, Next1.path)
    /\ Publishes({Next1.path} \cap AnchorPaths(found), {})
    /\ due' = TRUE
    /\ UNCHANGED <<extractionVars, editorVars, open, queries, asked, screen, countVars, fixes>>

CodeAction ==
    /\ Handles("ask")
    /\ queries' = queries \cup {Next1}
    /\ UNCHANGED <<extractionVars, editorVars, open, asked, due, found, shownVars, countVars,
                   fixes>>

-----------------------------------------------------------------------------
(* The engine, and what is done with what it says                          *)

\* did_open goes on with what is known of the file, if anything.
RepliesToOpen(q) ==
    /\ q.is = "open"
    /\ Publishes({q.path} \cap AnchorPaths(found), found)
    /\ UNCHANGED asked

RepliesToAsk(q) ==
    /\ q.is = "ask"
    /\ asked' = {[request |-> q, findings |-> ByFile(found, q.path)]}
    /\ UNCHANGED renders

Replies ==
    /\ \E q \in queries :
          /\ queries' = queries \ {q}
          /\ RepliesToOpen(q) \/ RepliesToAsk(q)
    /\ UNCHANGED <<extractionVars, editorVars, inbox, open, due, found, screen, countVars, fixes>>

\* The rest of code_action, with the buffer of now.
AnswersAction ==
    /\ \E a \in asked :
          LET source == Source(a.request.path)
              offers == Upgrades(a.request.path, source.version, source.text, a.findings, a.request)
          IN menu' = IF awaited THEN offers ELSE menu
    /\ asked' = {} /\ awaited' = FALSE
    /\ UNCHANGED <<extractionVars, doc, inbox, open, queries, due, found, shownVars, countVars,
                   fixes>>

\* The locals of extract(): a pass over these files.
Afresh(paths) ==
    /\ todo' = paths /\ counted' = 0
    /\ sightings' = <<>> /\ cargoSelf' = {} /\ includes' = <<>>
    /\ manifests' = <<>> /\ locks' = <<>> /\ visited' = {} /\ packages' = {}

\* The engine starts the scan that was requested; one that still runs is void.
ScanStarts ==
    /\ due /\ due' = FALSE
    /\ Afresh({path \in DOMAIN files : Walkable(path)}) /\ phase' = "walking"
    /\ UNCHANGED <<project, files, editorVars, inbox, open, queries, asked, found, shownVars,
                   countVars, fixes>>

\* extract() has returned: its packages are matched and the findings published,
\* and nothing for the files that went clean.
ScanReports ==
    /\ phase = "done" /\ phase' = "idle"
    /\ found' = FindingsOf(packages)
    /\ Publishes(AnchorPaths(found) \cup AnchorPaths(found'), found')
    /\ Afresh({})
    /\ UNCHANGED <<project, files, editorVars, inbox, open, queries, asked, due, screen, countVars,
                   fixes>>

\* for_file() reads the disk, unless there is nothing to render.
RendersFile ==
    /\ \E r \in renders :
          /\ r.shown = NotYet /\ r.findings # {}
          /\ renders' = (renders \ {r}) \cup {[r EXCEPT !.shown = ForFile(r.path, r.findings)]}
    /\ UNCHANGED <<extractionVars, editorVars, inbox, open, engineVars, screen, countVars, fixes>>

\* publishDiagnostics reaches the editor.
Delivers ==
    /\ \E r \in renders :
          /\ r.shown # NotYet \/ r.findings = {}
          /\ renders' = renders \ {r}
          /\ screen' = IF r.findings = {} THEN Restrict(screen, DOMAIN screen \ {r.path})
                       ELSE With(screen, r.path, r.shown)
    /\ UNCHANGED <<extractionVars, editorVars, inbox, open, engineVars, countVars, fixes>>

DocumentsInit ==
    /\ ExtractionInit
    /\ doc = <<>> /\ menu = {} /\ awaited = FALSE
    /\ inbox = <<>> /\ open = <<>> /\ queries = {} /\ asked = {}
    /\ due = FALSE /\ found = {} /\ renders = {} /\ screen = <<>>
    /\ writes = 0 /\ opens = 0 /\ fixes = {}

Edits ==
    \/ \E path \in DOMAIN Project.texts :
          \/ Opens(path) \/ Types(path) \/ Saves(path) \/ Closes(path)
          \/ AsksAction(path) \/ Rewrites(path) \/ Deletes(path)
    \/ \E offer \in menu : TakesFix(offer)

Serves ==
    \/ DidOpen \/ DidChange \/ DidClose \/ DidSave \/ DidChangeWatched \/ DidDelete
    \/ CodeAction \/ Replies \/ AnswersAction \/ ScanStarts \/ ScanReports
    \/ RendersFile \/ Delivers

Scans ==
    /\ Extracts
    /\ UNCHANGED <<editorVars, inbox, serverVars, writes, opens, fixes>>

DocumentsNext == Edits \/ Serves \/ Scans

DocumentsSpec == DocumentsInit /\ [][DocumentsNext]_documentVars

-----------------------------------------------------------------------------
(* What the user relies on                                                 *)

\* Nothing is on its way and no scan is running or due.
Settled == inbox = <<>> /\ ~due /\ phase = "idle"

\* "A span computed from disk against a buffer with unsaved edits would rewrite
\* the wrong bytes", and "picking between dependencies and devDependencies by
\* guesswork would edit the wrong one" (lsp.rs, Backend::open; extract.rs,
\* version_span): whatever is typed between the scan, the question, the answer
\* and its use, a versioned edit that is accepted rewrites a version that can be
\* rewritten, of the package that was found, on the line it was found on or on
\* the only one that names it.  An edit without a version is for a text the
\* server does not hold.
EditLandsOnVersion ==
    \A fix \in fixes :
        LET offer == fix.offer
            seen  == SeenIn(fix.before, offer.path)
            named == Named(seen, offer.finding)
        IN offer.version # Unversioned =>
              \E i \in named :
                 /\ seen[i].evidence[2] = offer.line /\ seen[i].editable
                 /\ named = {i} \/ offer.line = AnchorSite(offer.finding.package)[2]

\* The same without the exception: fails for a buffer over the cap, whose edits
\* are made from the disk and carry no version to be rejected by.
EveryEditLands ==
    \A fix \in fixes :
        \E i \in DOMAIN SeenIn(fix.before, fix.offer.path) :
            LET s == SeenIn(fix.before, fix.offer.path)[i]
            IN s.evidence[2] = fix.offer.line /\ s.key = fix.offer.finding.package.key

\* The line states a version, without anything around it.
Bare(d) == "bare" \in DOMAIN d => d.bare

\* A fix does what its title says ("Update x to y", without the "lockfile not
\* updated" of a version found elsewhere; action.rs, title): taken while the line
\* still states what was found there, saved and scanned again, the line has no
\* finding of that package.  Unless the edit carries no version, a replacement in
\* go.mod takes over the version that was written, or the line is of a Cargo.toml
\* and has more than the version in its requirement (FixSettlesRanges).
Current(fix) ==
    LET x == fix.offer.finding.package
        seen == Range(SeenIn(fix.before, fix.offer.path))
        stated == \E s \in seen :
            s.key = x.key /\ s.version = x.version /\ s.evidence = x.evidence
        replaced == \E s \in Range(SeenIn(fix.after, fix.offer.path)) :
            s.evidence[2] = fix.offer.line /\ ~s.editable
    IN /\ fix.offer.version # Unversioned
       /\ x.evidence = AnchorSite(x) /\ stated /\ ~replaced
       /\ files[fix.offer.path] = fix.after

Settles(fix) ==
    LET x == fix.offer.finding.package
    IN \A y \in found : ~(y.package.key = x.key /\ y.package.evidence = x.evidence)

FixSettles ==
    Settled => \A fix \in fixes : Current(fix) /\ Bare(fix.before[fix.offer.line]) => Settles(fix)

\* The same where a requirement has an operator, as its package is "resolved to
\* its lowest satisfying version" (README.md:93), which is the fix once it is
\* written: fails, as what a Cargo.toml is reported at is the requirement itself.
FixSettlesRanges ==
    Settled => \A fix \in fixes : Current(fix) => Settles(fix)

\* "The message only promises one where action would offer it", and "the
\* squiggle shows exactly what pressing the key does" (diagnostics.rs, for_file
\* and finding_diagnostic): on a buffer that is what was rendered, asking about
\* a diagnostic that promises a fix offers it on that very line, and nothing is
\* offered that no diagnostic of this advisory promises there.
PromiseKept ==
    \A path \in DOMAIN screen \cap DOMAIN open :
        LET shown == screen[path]
            Offered(d) == Upgrades(path, open[path].version, open[path].text,
                                   ByFile(found, path), [codes |-> {d.code}])
        IN shown.text = open[path].text /\ shown.findings = ByFile(found, path) =>
               \A d \in shown.diagnostics :
                  /\ d.promise => \E o \in Offered(d) : o.line = d.line /\ o.to = d.fix
                  /\ \A o \in Offered(d) : \E e \in shown.diagnostics :
                        e.promise /\ e.code = d.code /\ e.line = o.line /\ e.fix = o.to

\* What a path says on disk now, an included file as well.
StatedAt(path) ==
    IF Read(path) = Unreadable THEN {}
    ELSE Range(IF IsManifest(path) THEN Parse(Read(path), path)
               ELSE Requirements(Read(path), path))

Stands(x) ==
    \E s \in StatedAt(x.package.evidence[1]) :
        s.key = x.package.key /\ s.version = x.package.version
            /\ s.evidence = x.package.evidence

\* "Scanning still reads from disk" and "didSave and the watcher already cover
\* the real thing" (lsp.rs, Backend::open and did_change): once settled, what is
\* held still stands in the files it was found in, whoever wrote or deleted them,
\* and whenever, while they were scanned too.
FindingsStand ==
    Settled => \A x \in found : IsManifest(x.package.evidence[1]) => Stands(x)

\* "Every file a parser reads has to be watched, or editing it changes nothing"
\* (lsp.rs:31, MANIFESTS): fails for the files requirements name with -r.
ReadIsWatched == Settled => \A x \in found : Stands(x)
=============================================================================
