SPECIFICATION PubSpec
CONSTANTS
    Files = {f1, f2}
    Findings = {vulnerable}
    NoFindings = NoFindings
    Ecosystems = {}
    Capacity = 2
    Wired = TRUE
    MaxEvents = 2
    MaxRenders = 2
SYMMETRY Symmetry
INVARIANTS NoStaleSquiggle
CHECK_DEADLOCK FALSE
