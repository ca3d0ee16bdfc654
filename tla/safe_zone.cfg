\* Two owners, the number of the second does not fit a long.
CONSTANTS
    Zones <- MCZones
    Owners = {1, 6}
    Fine = 2
    LongMax = 4
    MaxResets = 2
SPECIFICATION Spec
INVARIANTS RegistersWhole ZoneKept ReadsOneZone
PROPERTIES EventuallyApplied
