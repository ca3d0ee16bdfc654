\* The modem makes no mistake, but two messages may be stored in it.
CONSTANTS
    NoFix = nofix
    Coordinates = {near, far}
    Outside = {far}
    Faults = {}
    MaxFaults = 0
    MaxStored = 2
    PowerUps = {"first"}
SPECIFICATION Spec
PROPERTY PositionsKeepComingAlone
CHECK_DEADLOCK FALSE
