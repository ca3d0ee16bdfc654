\* UART_COMM: task_gsm and task_gps take turns, each waits for an answer.
CONSTANTS
    Senders = {gsm, gps}
    Sizes = {1, 2, 3}
    Capacity = 3
    Exclusive = TRUE
    MaxBytes = 9
SPECIFICATION Spec
INVARIANTS NeverBlocks
PROPERTIES DeliversAll
\* Nobody has to send anything more.
CHECK_DEADLOCK FALSE
