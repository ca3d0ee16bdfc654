CONSTANTS
    receiver = receiver
    sender = sender
    Idle = Idle
    Marker = Marker
    Tasks <- MCTasks
    Calls <- MCCalls
    TickWrap = 4
    OverflowWrap = 2
    Interrupts = {"send", "receive"}
    Masked = TRUE
    uxLength = 2
    MaxMeanwhile = 1
SPECIFICATION Spec
INVARIANTS TypeOK ListsConsistent OnTime NoEarlyTimeout NoLostWakeup CountsItems
PROPERTIES TurnComes
