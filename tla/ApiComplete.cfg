SPECIFICATION KeptSpec
CONSTANTS
    lodash = lodash
    a = a
    b = b
    v1 = v1
    v2 = v2
    Names = {lodash}
    Versions = {v1, v2}
    Private = {}
    Ids = {a, b}
    Contents <- Widening
    AboutName <- AllAboutLodash
    Projects <- Trees
    Scans = {s1}
    Ttl = 1
    MaxTime = 2
    MaxFaults = 1
    Pins = {1}
    MaxFailures = 0
INVARIANT CompleteOrPartial
CHECK_DEADLOCK FALSE
