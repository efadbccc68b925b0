SPECIFICATION Spec
CONSTANTS
    npm = npm
    cargo = cargo
    Ecosystems = {npm, cargo}
    Projects <- Changing
    Scans = {s1}
    MaxVersion = 1
    MaxFailures = 1
    Peers = TRUE
    Configs <- Archives
    MayShutDown = TRUE
INVARIANT CoverageHonest
PROPERTY NoRescanAfterShutdown
CHECK_DEADLOCK FALSE
