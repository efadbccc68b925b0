\* Eight workspaces; four of them are edited, with one file written or deleted,
\* one document opened, and one publish after the other.
SPECIFICATION DocumentsSpec
CONSTANTS
    Projects <- AllProjects
    Known <- MCKnown
    Unreadable = Unreadable
    MaxSegments = 6
    MaxVersion = 3
    MaxInbox = 1
    MaxWrites = 1
    MaxOpens = 1
    MaxRenders = 1
INVARIANTS
    NothingHidden
    ShippingStaysShipping
    OrderFree
    EditLandsOnVersion
    FixSettles
    PromiseKept
    FindingsStand
\* The user may stop, and the bounds let nothing more happen.
CHECK_DEADLOCK FALSE
