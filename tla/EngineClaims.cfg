\* Four claims of comments in engine.rs; each is violated.
SPECIFICATION FairSpec
CONSTANTS
    Files = {f1, f2}
    Findings = {vulnerable}
    NoFindings = NoFindings
    Ecosystems = {npm, cargo}
    Capacity = 1
    Wired = TRUE
    MaxEvents = 2
INVARIANTS FullQueueHoldsRequest SupersessionAborts MissingWasSaid
PROPERTY DropStops
CHECK_DEADLOCK FALSE
