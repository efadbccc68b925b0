SPECIFICATION Spec
CONSTANTS
    npm = npm
    cargo = cargo
    Ecosystems = {npm, cargo}
    Projects <- Changing
    Scans = {s1}
    MaxVersion = 1
    MaxFailures = 0
    Peers = FALSE
    Configs <- Archives
    MayShutDown = FALSE
INVARIANT RefusedIsRetried
CHECK_DEADLOCK FALSE
