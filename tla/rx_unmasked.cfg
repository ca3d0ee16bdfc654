CONSTANTS
    receiver = receiver
    sender = sender
    Idle = Idle
    Marker = Marker
    Tasks <- MCTasks
    Calls <- MCCalls
    TickWrap = 4
    OverflowWrap = 2
    Interrupts = {"send"}
    Masked = FALSE
    uxLength = 2
    MaxMeanwhile = 1
SPECIFICATION Spec
INVARIANTS CountsItems
