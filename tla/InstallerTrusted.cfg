\* One release, one thing that goes wrong.
SPECIFICATION InstallerSpec
CONSTANTS
    Pins = {1}
    MaxFailures = 1
INVARIANT TrustedWasVerified
\* Nothing has to upgrade again.
CHECK_DEADLOCK FALSE
