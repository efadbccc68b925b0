SPECIFICATION Spec
CONSTANTS
    npm = npm
    cargo = cargo
    Ecosystems = {npm}
    Projects <- NpmOnly
    Scans = {s1, s2}
    MaxVersion = 2
    MaxFailures = 0
    Peers = FALSE
    Configs <- OnlineOrNot
    MayShutDown = FALSE
SYMMETRY Symmetry
INVARIANTS WarmingIsOwned RefusedIsRetried
CHECK_DEADLOCK FALSE
