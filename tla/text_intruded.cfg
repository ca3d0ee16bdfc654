\* The modem makes no mistake.
CONSTANTS
    NoFix = nofix
    Coordinates = {near, far}
    Outside = {far}
    Faults = {}
    MaxFaults = 0
    MaxStored = 1
    PowerUps = {"first"}
SPECIFICATION Safety
INVARIANT TextIsOwn
CHECK_DEADLOCK FALSE
