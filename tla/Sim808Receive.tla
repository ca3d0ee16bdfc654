----------------------------- MODULE Sim808Receive -----------------------------
(***************************************************************************)
(* task_sim808_receive (main.c 578-653): it cuts what the modem sends into *)
(* responses and queues them on queue_sim808 for task_gsm and task_gps.    *)
(*                                                                         *)
(* The task's `status' counts 0..3.  A NL token stands for the bytes CR LF *)
(* and they are never separated on this line, so state 1 ("CR seen, LF     *)
(* expected") is passed through inside a step; the CR that ends a line and *)
(* the LF after it are two steps, because the xQueueSend between them may  *)
(* block and because sms_check is read after it.                           *)
(***************************************************************************)
EXTENDS Sim808

VARIABLES
    rx_status,      \* task_sim808_receive's static `status'
    rx_clearing,    \* it has read sms_check and is about to clear it
    last_response,  \* its static response: the text captured last, and its size
    queue_sim808,   \* the responses, xQueueCreate(5, ...)
    sms_check       \* AT+CMGL was sent: its first line is followed by a bare one

rxVars == <<rx_status, rx_clearing, last_response>>

SimLength == 5      \* main.c 122

(* What last_response.size is compared with: nothing, two bytes, or more.  *)
Size(text) == IF text = "OK" THEN 2 ELSE 3

Responses == [text : Texts \cup {None}, fix : Fixes,
              re : Commands \cup {None}, size : {0, 2, 3}]

Capture(token) == [text |-> token.text, fix |-> token.fix,
                   re |-> token.re, size |-> Size(token.text)]

ReceiveTypeOK ==
    /\ rx_status \in {0, 2, 3}
    /\ rx_clearing \in BOOLEAN
    /\ last_response \in Responses
    /\ queue_sim808 \in Seq(Responses)
    /\ Len(queue_sim808) <= SimLength
    /\ sms_check \in {0, 1}

ReceiveInit ==
    /\ rx_status = 0
    /\ rx_clearing = FALSE
    /\ last_response = [text |-> None, fix |-> NoFix, re |-> None, size |-> 0]
    /\ queue_sim808 = <<>>
    /\ sms_check = 0

AtNL   == uart_rx # <<>> /\ Head(uart_rx).text = "NL"
AtText == uart_rx # <<>> /\ Head(uart_rx).text # "NL"
ConsumeToken == uart_rx' = Tail(uart_rx)

(* xQueueSend(queue_sim808, &response, portMAX_DELAY): blocks while full. *)
SimRoom == Len(queue_sim808) < SimLength

(* States 0 and 1: the CR LF that opens a line. *)
RxLineStart ==
    /\ rx_status = 0 /\ AtNL
    /\ ConsumeToken
    /\ rx_status' = 2
    /\ last_response' = [last_response EXCEPT !.size = 0]
    /\ UNCHANGED <<rx_clearing, queue_sim808, sms_check>>

(* State 0: the bytes of a text are dropped until a CR. *)
RxSkip ==
    /\ rx_status = 0 /\ AtText
    /\ ConsumeToken
    /\ UNCHANGED <<rxVars, queue_sim808, sms_check>>

(* State 2: the bytes of a text are stored. *)
RxText ==
    /\ rx_status = 2 /\ AtText /\ Head(uart_rx).text # ">"
    /\ ConsumeToken
    /\ last_response' = Capture(Head(uart_rx))
    /\ UNCHANGED <<rx_status, rx_clearing, queue_sim808, sms_check>>

(* State 2: a '>' is a response of its own; the space after it is dropped. *)
RxPrompt ==
    /\ rx_status = 2 /\ AtText /\ Head(uart_rx).text = ">"
    /\ SimRoom
    /\ ConsumeToken
    /\ last_response' = Capture(Head(uart_rx))
    /\ queue_sim808' = Append(queue_sim808, Capture(Head(uart_rx)))
    /\ rx_status' = 0
    /\ UNCHANGED <<rx_clearing, sms_check>>

(***************************************************************************)
(* State 2: the CR that ends a line queues the response.  When the CR       *)
(* comes at once, size is 0 and data still holds the text captured before. *)
(***************************************************************************)
RxLineEnd ==
    /\ rx_status = 2 /\ AtNL
    /\ SimRoom
    /\ queue_sim808' = Append(queue_sim808, last_response)
    /\ rx_status' = 3
    /\ UNCHANGED <<uart_rx, rx_clearing, last_response, sms_check>>

(* State 3: is the next line a bare one?  Only the line of two bytes, "OK", *)
(* is taken for the end of an AT+CMGL answer.                               *)
MutantBareLine  == sms_check = 1       \* mutation: the size is not looked at
BareLineFollows == sms_check = 1 /\ last_response.size # 2

RxAfterLine ==
    /\ rx_status = 3 /\ AtNL
    /\ ConsumeToken
    /\ IF BareLineFollows
       THEN /\ rx_status' = 2
            /\ last_response' = [last_response EXCEPT !.size = 0]
       ELSE /\ rx_status' = 0
            /\ UNCHANGED last_response
    /\ rx_clearing' = TRUE
    /\ UNCHANGED <<queue_sim808, sms_check>>

(* sms_check = 0, a statement later: task_gsm may have set it in between.   *)
RxClear ==
    /\ rx_clearing
    /\ sms_check' = 0
    /\ rx_clearing' = FALSE
    /\ UNCHANGED <<uart_rx, rx_status, last_response, queue_sim808>>

RxByte == RxLineStart \/ RxSkip \/ RxText \/ RxPrompt \/ RxLineEnd \/ RxAfterLine

Receive ==
    /\ \/ ~rx_clearing /\ RxByte
       \/ RxClear
    /\ UNCHANGED <<command, entry, intruded, inbox, crowded, ready, budget>>

(* The modem has nothing more to say: every answer is in and was framed. *)
Quiet == command = None /\ uart_rx = <<>> /\ ~rx_clearing

(* A vTaskDelay or a timeout of the askers ends: everything under way has   *)
(* arrived by then, unless the modem is late.                              *)
Elapsed == IF Quiet \/ Len(queue_sim808) = SimLength
           THEN UNCHANGED budget
           ELSE Fault("late")
=============================================================================
