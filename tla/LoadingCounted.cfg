\* One record about two release lines of a package.
SPECIFICATION LoadSpec
CONSTANTS
    npm = npm
    cargo = cargo
    lodash = lodash
    serde = serde
    Unnamed = Unnamed
    Packages <- MCPackages
    Libraries <- TwoLines
INVARIANT CountedOnce
CHECK_DEADLOCK FALSE
