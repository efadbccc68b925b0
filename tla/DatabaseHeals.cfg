\* One server, and other tools that tear, delete or replace the archive between
\* its calls.
SPECIFICATION Spec
CONSTANTS
    Nobody = Nobody
    Processes = {p1}
    MaxVersion = 2
    MaxExpiries = 2
    MaxFaults = 1
    Outside = {"tear", "delete", "replace"}
    MaxOutside = 2
    OutsideAnytime = FALSE
INVARIANT ValidatedIsReadable
CHECK_DEADLOCK FALSE
