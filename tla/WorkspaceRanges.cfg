\* A crate without a Cargo.lock: an operator is written to it, then the fix.
SPECIFICATION DocumentsSpec
CONSTANTS
    Projects <- CargoOnly
    Known <- MCKnown
    Unreadable = Unreadable
    MaxSegments = 6
    MaxVersion = 3
    MaxInbox = 1
    MaxWrites = 2
    MaxOpens = 1
    MaxRenders = 1
INVARIANT FixSettlesRanges
CHECK_DEADLOCK FALSE
