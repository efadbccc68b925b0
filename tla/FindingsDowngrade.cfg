SPECIFICATION FindingsSpec
CONSTANTS
    left_pad = left_pad
    minimist = minimist
    N = 4
    MaxChains = 2
    A = 2
    Releases <- MCReleases
    None = None
    Names <- MCNames
    Inputs <- Nested
INVARIANT NoDowngrade
CHECK_DEADLOCK FALSE
