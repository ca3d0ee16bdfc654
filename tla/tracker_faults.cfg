\* One fault of any kind, at any moment, after any power-up.
CONSTANTS
    NoFix = nofix
    Coordinates = {near, far}
    Outside = {far}
    Faults = {"silent", "refuse", "late", "urc", "early"}
    MaxFaults = 1
    MaxStored = 1
    PowerUps = {"first", "again"}
SPECIFICATION Safety
INVARIANTS MutexOwner AlertConserved AlertJustified
PROPERTIES FirstConfigKept ImplementsAlertCycle
\* Waiting for "SMS Ready" has no timeout: a modem that is silent may stop the tracker.
CHECK_DEADLOCK FALSE
