\* Two manifests, a channel that can fill up, three edits or extra requests.  No
\* symmetry: refinement is a temporal property.
SPECIFICATION Spec
CONSTANTS
    Files = {f1, f2}
    Findings = {vulnerable}
    NoFindings = NoFindings
    Ecosystems = {npm}
    Capacity = 2
    Wired = TRUE
    MaxEvents = 3
INVARIANTS QuietMeansCurrent NoticesOnce
PROPERTY ImplementsBoard
CHECK_DEADLOCK FALSE
