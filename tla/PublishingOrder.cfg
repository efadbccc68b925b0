SPECIFICATION PubSpec
CONSTANTS
    Files = {f1, f2}
    Findings = {vulnerable}
    NoFindings = NoFindings
    Ecosystems = {}
    Capacity = 1
    Wired = TRUE
    MaxEvents = 2
    MaxRenders = 2
SYMMETRY Symmetry
INVARIANT OnlyReorderingDrifts
CHECK_DEADLOCK FALSE
