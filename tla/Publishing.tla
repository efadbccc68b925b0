----------------------------- MODULE Publishing -----------------------------
(***************************************************************************)
(* ClientPublisher of lsp.rs under the engine: every publish() spawns a    *)
(* task that renders the findings on the blocking pool and then tells the  *)
(* editor, and didOpen publishes the reply of its own query.  Neither      *)
(* keeps the order in which the actor decided.  What the editor shows is   *)
(* what it was told last.                                                  *)
(***************************************************************************)
EXTENDS Engine, SequencesExt

CONSTANT MaxRenders  \* bound: renders on their way per file when didOpen adds one

ASSUME PublishingAssumption == MaxRenders \in Nat

VARIABLES
    renders,   \* per manifest, what is on its way to the editor, oldest first
    screen,    \* per manifest, the diagnostics the editor shows
    overtaken  \* history: a publish overtook an older one for the same file

pubVars == <<renders, screen, overtaken>>
allVars == <<vars, pubVars>>

PubInit ==
    /\ Init
    /\ renders = [f \in Files |-> <<>>]
    /\ screen = Nothing
    /\ overtaken = FALSE

\* ClientPublisher::publish for each manifest of S: one task each.
Spawn(S, findings) ==
    renders' = [f \in Files |-> IF f \in S THEN Append(renders[f], findings[f])
                                ELSE renders[f]]

\* Mutant: what went clean is forgotten without telling the editor.
PublishedCurrentOnly == {f \in Files : in_flight.found[f] # NoFindings}

\* The calls of publish() in engine.rs: [] for what went clean, then the rest.
Published ==
    {f \in Files : in_flight.found[f] # NoFindings} \cup published

PublishesClear ==
    /\ HandleClear
    /\ Spawn({Head(queue).file} \cap published, Nothing)
    /\ UNCHANGED <<screen, overtaken>>

PublishesScan ==
    /\ \E o \in Outcome :
          /\ ScanFinished(o)
          /\ Spawn(IF o.kind = "ok" THEN Published ELSE {}, in_flight.found)
    /\ UNCHANGED <<screen, overtaken>>

\* The reply to code_action is only used; didOpen renders and publishes a
\* non-empty one, from its own handler.
Replies ==
    /\ HandleQuery
    /\ LET f == Head(queue).file IN
       \/ UNCHANGED renders
       \/ /\ Len(renders[f]) < MaxRenders
          /\ Spawn({f} \ {g \in Files : report[g] = NoFindings}, report)
    /\ UNCHANGED <<screen, overtaken>>

\* One render is done and its publishDiagnostics reaches the editor.
Deliver(f, i) ==
    /\ i \in 1..Len(renders[f])
    /\ screen' = [screen EXCEPT ![f] = renders[f][i]]
    /\ renders' = [renders EXCEPT ![f] = RemoveAt(@, i)]
    /\ overtaken' = (overtaken \/ i # 1)
    /\ UNCHANGED vars

PubNext ==
    \/ Silent /\ UNCHANGED pubVars
    \/ PublishesClear
    \/ PublishesScan
    \/ Replies
    \/ \E f \in Files : \E i \in 1..Len(renders[f]) : Deliver(f, i)

PubSpec == PubInit /\ [][PubNext]_allVars

-----------------------------------------------------------------------------
Drained == \A f \in Files : renders[f] = <<>>

\* Reordering is the only way for the editor to disagree with the engine: if no
\* publish overtook another, then what is on its way to a file ends with what
\* the engine last said about it, and once all is delivered the editor shows
\* exactly that, whatever didOpen replayed in between.
OnlyReorderingDrifts ==
    ~overtaken =>
        \A f \in Files :
            client[f] = IF renders[f] = <<>> THEN screen[f] ELSE Last(renders[f])

\* "A file that moved from vulnerable to clean never keeps a stale squiggle,
\* even briefly" (engine.rs, publish): once everything the engine published is
\* delivered, a file the engine holds clean shows nothing.
NoStaleSquiggle ==
    Drained => \A f \in Files : client[f] = NoFindings => screen[f] = NoFindings

=============================================================================
