\* Three claims of comments in scan.rs and one of the README; each is violated.
SPECIFICATION Spec
CONSTANTS
    npm = npm
    cargo = cargo
    Ecosystems = {npm, cargo}
    Projects <- BothOnly
    Scans = {s1}
    MaxVersion = 2
    MaxFailures = 0
    Peers = TRUE
    Configs <- Claimed
    MayShutDown = TRUE
INVARIANTS RescanSeesLanded RefreshReachesIndex OfflineNeverDownloads
PROPERTY NoDownloadAfterShutdown
CHECK_DEADLOCK FALSE
