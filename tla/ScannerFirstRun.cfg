SPECIFICATION FairSpec
CONSTANTS
    npm = npm
    cargo = cargo
    Ecosystems = {npm, cargo}
    Projects <- BothOnly
    Scans = {s1}
    MaxVersion = 1
    MaxFailures = 0
    Peers = FALSE
    Configs <- Archives
    MayShutDown = FALSE
PROPERTIES WarmingEnds FirstRunConverges
CHECK_DEADLOCK FALSE
