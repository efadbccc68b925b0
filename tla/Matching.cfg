\* Lockfiles and advisories, archives and texts, each enumerated on its own.
SPECIFICATION Spec
CONSTANTS
    left_pad = left_pad
    minimist = minimist
    N = 4
    MaxChains = 2
    A = 2
    Releases <- MCReleases
    None = None
    Names <- MCNames
    Inputs <- MCInputs
    npm = npm
    cargo = cargo
    lodash = lodash
    serde = serde
    Unnamed = Unnamed
    Packages <- MCPackages
    Libraries <- MCLibraries
    Grammars = {"semver", "pypi"}
    Semvers <- MCSemvers
    PyPIs <- MCPyPIs
INVARIANTS
    ChainsAreShortest DepthsAreTight NothingLost NothingAdded
    FixIsClean FixIsLowest ShortestCopyWins
    LookupExact
    OrderIsTotal AgreesWithStandard
\* A scan ends.
CHECK_DEADLOCK FALSE
