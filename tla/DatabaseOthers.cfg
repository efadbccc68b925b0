\* As DatabaseShared, but other tools tear archives and put back older ones.
SPECIFICATION Spec
CONSTANTS
    Nobody = Nobody
    Processes = {p1, p2}
    MaxVersion = 2
    MaxExpiries = 1
    MaxFaults = 0
    Outside = {"tear", "replace"}
    MaxOutside = 1
    OutsideAnytime = FALSE
INVARIANTS EnsuredIsReadable MetaNeverAhead
CHECK_DEADLOCK FALSE
