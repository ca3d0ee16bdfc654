\* A device that was configured before its reset; the modem makes no mistake.
CONSTANTS
    NoFix = nofix
    Coordinates = {near, far}
    Outside = {far}
    Faults = {}
    MaxFaults = 0
    MaxStored = 1
    PowerUps = {"again"}
SPECIFICATION Spec
PROPERTY OutsideReported
CHECK_DEADLOCK FALSE
