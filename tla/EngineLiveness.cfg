\* The engine as Engine::start builds it: nothing but the handle can ask.
SPECIFICATION FairSpec
CONSTANTS
    Files = {f1, f2}
    Findings = {vulnerable}
    NoFindings = NoFindings
    Ecosystems = {}
    Capacity = 2
    Wired = FALSE
    MaxEvents = 1
PROPERTIES RequestsSettle QueriesReturn DropStops
CHECK_DEADLOCK FALSE
