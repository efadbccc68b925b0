SPECIFICATION FairSpec
CONSTANTS
    Nobody = Nobody
    Processes = {p1, p2}
    MaxVersion = 2
    MaxExpiries = 1
    MaxFaults = 1
    Outside = {"delete"}
    MaxOutside = 1
    OutsideAnytime = FALSE
INVARIANTS MetaNeverAhead RefreshedOnce EnsuredIsReadable
PROPERTIES ImplementsEnsuring EnsureReturns
CHECK_DEADLOCK FALSE
