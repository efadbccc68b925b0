\* Two scans over one cache file; an extension that is upgraded and taken back.
SPECIFICATION KeptSpec
CONSTANTS
    lodash = lodash
    a = a
    b = b
    v1 = v1
    v2 = v2
    Names = {lodash}
    Versions = {v1, v2}
    Private = {}
    Ids = {a, b}
    Contents <- Widening
    AboutName <- AllAboutLodash
    Projects <- Trees
    Scans = {s1, s2}
    Ttl = 1
    MaxTime = 2
    MaxFaults = 1
    Pins = {1, 2, 3}
    MaxFailures = 2
SYMMETRY Symmetry
INVARIANTS
    CacheHonest NothingMissed CompleteOnceAsked
    LaunchesPublished
\* Nothing has to ask, expire or upgrade again.
CHECK_DEADLOCK FALSE
