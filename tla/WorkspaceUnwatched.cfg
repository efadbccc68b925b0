\* A requirements.txt and the file it includes, which another tool writes.
SPECIFICATION DocumentsSpec
CONSTANTS
    Projects <- IncludeOnly
    Known <- MCKnown
    Unreadable = Unreadable
    MaxSegments = 6
    MaxVersion = 2
    MaxInbox = 1
    MaxWrites = 1
    MaxOpens = 0
    MaxRenders = 1
INVARIANT ReadIsWatched
CHECK_DEADLOCK FALSE
