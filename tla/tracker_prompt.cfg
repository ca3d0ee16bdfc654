\* The modem answers every command at once and correctly.
CONSTANTS
    NoFix = nofix
    Coordinates = {near, far}
    Outside = {far}
    Faults = {}
    MaxFaults = 0
    MaxStored = 2
    PowerUps = {"first"}
SPECIFICATION Spec
INVARIANTS TypeOK AnswersBelong ReceiverInPhase
PROPERTIES CompletesAlertCycle FirstConfigApplied PositionsKeepComing OutsideReported
