\* UART_DEBUG: any task sends at any moment, an empty response too.
CONSTANTS
    Senders = {gsm, coordinates, adc}
    Sizes = {0, 2, 5}
    Capacity = 4
    Exclusive = FALSE
    MaxBytes = 8
SPECIFICATION Safety
INVARIANTS TypeOK KeepsGoing NoByteForgotten RoomWillCome
\* A task may wait in uart_send_data for another task's next byte.
CHECK_DEADLOCK FALSE
