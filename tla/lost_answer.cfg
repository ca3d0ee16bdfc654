\* One answer is lost.
CONSTANTS
    NoFix = nofix
    Coordinates = {near, far}
    Outside = {far}
    Faults = {"silent"}
    MaxFaults = 1
    MaxStored = 1
    PowerUps = {"first"}
SPECIFICATION Spec
PROPERTY PositionsKeepComingAlone
CHECK_DEADLOCK FALSE
