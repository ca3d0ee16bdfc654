-------------------------------- MODULE Tracker --------------------------------
(***************************************************************************)
(* The core of the pet tracker: task_gsm and task_gps, which talk to the   *)
(* same modem, task_sim808_receive between them and the modem, and         *)
(* task_coordinates, which raises the alerts (main.c 185-575).             *)
(*                                                                         *)
(* Both big tasks are a switch over a static `status'.  A case that sends  *)
(* a command takes mutex_sim808, waits, empties queue_sim808, sends, and   *)
(* leaves the mutex TAKEN; the following WAIT_ case receives the answer    *)
(* and gives the mutex.  pc says how far a task is inside its case.        *)
(***************************************************************************)
EXTENDS Sim808Receive

CONSTANTS
    Outside,    \* the coordinates farther than sz_radius from the safe zone
    PowerUps    \* the power-ups considered: the first one, or one that finds a
                \* safe zone in the NVM registers

ASSUME TrackerAssumption ==
    /\ Outside \subseteq Coordinates
    /\ PowerUps \subseteq {"first", "again"}

Tasks == {"gsm", "gps"}

VARIABLES
    status,             \* the static `status' of task_gsm and of task_gps
    pc,                 \* where in the case of its switch a task is
    mutex_sim808,       \* the task that holds the mutex, or None
    binary_sim808,      \* 1 once task_gps may start
    queue_coordinates,  \* xQueueCreate(1, ...): from task_gps
    queue_sms,          \* xQueueCreate(1, ...): from task_coordinates
    sms_hold,           \* an alert is under way
    gsm_status, gps_status, device_status, phone_number,
    coord,              \* task_gsm's static coordinate
    fix,                \* parse_frame's new_coordinate
    co_pc, new_coordinate,  \* task_coordinates
    retried             \* auxiliary: AT+CMGS has once been left unanswered

taskVars    == <<status, pc>>
coordVars   == <<co_pc, new_coordinate>>
alertVars   == <<queue_sms, sms_hold, coord>>
gpsVars     == <<queue_coordinates, gps_status, fix>>
configVars  == <<gsm_status, device_status, phone_number>>
vars == <<modemVars, rxVars, queue_sim808, sms_check, taskVars, mutex_sim808,
          binary_sim808, coordVars, alertVars, gpsVars, configVars, retried>>

GsmStatuses == { "DISABLE_ECHO", "WAIT_ECHO", "SMS_READY", "TEXT_MODE",
    "WAIT_TEXT_MODE", "NETWORK_REG", "WAIT_NETWORK_REG", "READ_SMS",
    "WAIT_READ_SMS", "DELETE_SMS", "WAIT_DELETE_SMS", "SEND_SMS_1",
    "WAIT_SEND_SMS_1", "SEND_SMS_2", "WAIT_SEND_SMS_2", "NEXT" }
GpsStatuses == { "WAIT_GSM_INIT", "POWER_ON", "WAIT_POWER_ON", "CHECK_SIGNAL",
    "WAIT_CHECK_SIGNAL", "GET_COORDINATE", "WAIT_COORDINATE" }

PCs == { "case",      \* about to run the case of its status
         "coord",     \* task_gsm: has the alert, about to take the mutex
         "delay",     \* holds the mutex, in vTaskDelay before the command
         "body",      \* task_gsm: waits for the second line of AT+CMGL
         "publish",   \* task_gps: in parse_frame, sends to queue_coordinates
         "give" }     \* has handled the answer, about to give the mutex

TrackerTypeOK ==
    /\ status \in [Tasks -> GsmStatuses \cup GpsStatuses]
    /\ status["gsm"] \in GsmStatuses /\ status["gps"] \in GpsStatuses
    /\ pc \in [Tasks -> PCs]
    /\ mutex_sim808 \in Tasks \cup {None}
    /\ binary_sim808 \in {0, 1}
    /\ queue_coordinates \in Seq(Fixes) /\ Len(queue_coordinates) <= 1
    /\ queue_sms \in Seq(Fixes) /\ Len(queue_sms) <= 1
    /\ sms_hold \in {0, 1}
    /\ gsm_status \in {"OFFLINE", "ONLINE"}
    /\ gps_status \in {"OFFLINE", "ONLINE"}
    /\ device_status \in {"EMPTY", "SZ_DATA_LOADED"}
    /\ phone_number \in {"empty", "raw", "owner"}
    /\ coord \in Fixes /\ fix \in Fixes /\ new_coordinate \in Fixes
    /\ co_pc \in {"receive", "evaluate", "hold", "send"}
    /\ retried \in BOOLEAN

TypeOK == Sim808TypeOK /\ ReceiveTypeOK /\ TrackerTypeOK

(***************************************************************************)
(* Power-up, after nvm_init (NVM.c 42-65): a stored safe zone is loaded.   *)
(* NVM.c declares phone_number a uint32_t, so the four bytes of the stored *)
(* integer, not its digits, land at the front of main.c's phone_number[].  *)
(***************************************************************************)
Init ==
    /\ Sim808Init
    /\ ReceiveInit
    /\ status = [t \in Tasks |-> IF t = "gsm" THEN "DISABLE_ECHO" ELSE "WAIT_GSM_INIT"]
    /\ pc = [t \in Tasks |-> "case"]
    /\ mutex_sim808 = None
    /\ binary_sim808 = 0
    /\ queue_coordinates = <<>> /\ queue_sms = <<>>
    /\ sms_hold = 0
    /\ gsm_status = "OFFLINE" /\ gps_status = "OFFLINE"
    /\ \/ /\ "first" \in PowerUps
          /\ device_status = "EMPTY" /\ phone_number = "empty"
       \/ /\ "again" \in PowerUps
          /\ device_status = "SZ_DATA_LOADED" /\ phone_number = "raw"
    /\ coord = NoFix /\ fix = NoFix /\ new_coordinate = NoFix
    /\ co_pc = "receive"
    /\ retried = FALSE

-----------------------------------------------------------------------------
(* What both tasks do.                                                      *)

At(t, s, p) == status[t] = s /\ pc[t] = p

Goto(t, s, p) == /\ status' = [status EXCEPT ![t] = s]
                 /\ pc' = [pc EXCEPT ![t] = p]

(* xSemaphoreTake(mutex_sim808, portMAX_DELAY). *)
Take(t) == mutex_sim808 = None /\ mutex_sim808' = t

(***************************************************************************)
(* xSemaphoreGive(mutex_sim808): the kernel does not check who gives; the  *)
(* mutex is available afterwards, and giving an available one is a failure *)
(* without effect (queue.c 1408-1456).                                     *)
(***************************************************************************)
MutantGiven(m) == m             \* mutation: the give is forgotten
Given(m) == None

(* xQueueReset(queue_sim808). *)
MutantEmptied(queue) == queue   \* mutation: the reset is forgotten
Emptied(queue) == <<>>

(* The cases that begin with xSemaphoreTake(mutex_sim808). *)
TakingCases == { "TEXT_MODE", "NETWORK_REG", "READ_SMS", "DELETE_SMS", "SEND_SMS_2",
                 "POWER_ON", "CHECK_SIGNAL", "GET_COORDINATE" }

TaskTake(t) ==
    /\ \/ status[t] \in TakingCases /\ pc[t] = "case"
       \/ At(t, "SEND_SMS_1", "coord")
    /\ Take(t)
    /\ pc' = [pc EXCEPT ![t] = "delay"]
    /\ UNCHANGED <<modemVars, rxVars, queue_sim808, sms_check, status, binary_sim808,
                   coordVars, alertVars, gpsVars, configVars, retried>>

(***************************************************************************)
(* The rest of a sending case: vTaskDelay, xQueueReset, uart_send_data.    *)
(***************************************************************************)
Send(t, p, case, c, next) ==
    /\ At(t, case, p)
    /\ Elapsed
    /\ queue_sim808' = Emptied(queue_sim808)
    /\ Accept(c)
    /\ Goto(t, next, "case")
    /\ UNCHANGED <<rxVars, mutex_sim808, binary_sim808, coordVars, alertVars,
                   gpsVars, configVars, retried>>

Ask(t, case, c, next) == Send(t, "delay", case, c, next) /\ UNCHANGED sms_check

(* xQueueReceive(queue_sim808, &last_response, ...) returns a response.     *)
Hears(t, case, p) == /\ At(t, case, p)
                     /\ queue_sim808 # <<>>
                     /\ queue_sim808' = Tail(queue_sim808)
                     /\ UNCHANGED budget

Heard == Head(queue_sim808)

(* It returns pdFALSE: nothing came in 5, 10 or 60 seconds. *)
TimesOut(t, case) == /\ At(t, case, "case")
                     /\ queue_sim808 = <<>>
                     /\ Elapsed
                     /\ UNCHANGED queue_sim808

AnswerFrame == UNCHANGED <<uart_rx, command, entry, intruded, inbox, crowded, ready, rxVars,
                           sms_check, mutex_sim808, coordVars>>

(***************************************************************************)
(* A WAIT_ case whose answer decides nothing but the next status: the good *)
(* text leads to `next', another one to `else', and so does a timeout.     *)
(***************************************************************************)
Await(t, case, good, next, else) ==
    /\ \/ /\ Hears(t, case, "case")
          /\ Goto(t, IF Heard.text = good THEN next ELSE else, "give")
       \/ /\ TimesOut(t, case)
          /\ Goto(t, else, "give")
    /\ AnswerFrame
    /\ UNCHANGED <<binary_sim808, alertVars, gpsVars, configVars, retried>>

TaskGive(t) ==
    /\ pc[t] = "give"
    /\ mutex_sim808' = Given(mutex_sim808)
    /\ pc' = [pc EXCEPT ![t] = "case"]
    /\ UNCHANGED <<modemVars, rxVars, queue_sim808, sms_check, status, binary_sim808,
                   coordVars, alertVars, gpsVars, configVars, retried>>

-----------------------------------------------------------------------------
(* task_gsm, in the order of its switch.                                    *)

GsmDisableEcho == /\ Send("gsm", "case", "DISABLE_ECHO", "ATE0", "WAIT_ECHO")
                  /\ UNCHANGED sms_check

(* Only "OK" leaves this state; any other response is dropped. *)
GsmWaitEcho ==
    /\ \/ /\ Hears("gsm", "WAIT_ECHO", "case")
          /\ Goto("gsm", IF Heard.text = "OK" THEN "SMS_READY" ELSE "WAIT_ECHO", "case")
       \/ /\ TimesOut("gsm", "WAIT_ECHO")
          /\ Goto("gsm", "DISABLE_ECHO", "case")
    /\ AnswerFrame
    /\ UNCHANGED <<binary_sim808, alertVars, gpsVars, configVars, retried>>

(* Waits without a timeout; then lets task_gps start. *)
GsmSmsReady ==
    /\ Hears("gsm", "SMS_READY", "case")
    /\ IF Heard.text = "SMS Ready"
       THEN Goto("gsm", "TEXT_MODE", "case") /\ binary_sim808' = 1
       ELSE UNCHANGED <<taskVars, binary_sim808>>
    /\ AnswerFrame
    /\ UNCHANGED <<alertVars, gpsVars, configVars, retried>>

GsmTextMode     == Ask("gsm", "TEXT_MODE", "AT+CMGF", "WAIT_TEXT_MODE")
GsmWaitTextMode == Await("gsm", "WAIT_TEXT_MODE", "OK", "NETWORK_REG", "TEXT_MODE")
GsmNetworkReg   == Ask("gsm", "NETWORK_REG", "AT+CREG?", "WAIT_NETWORK_REG")

GsmWaitNetworkReg ==
    /\ \/ /\ Hears("gsm", "WAIT_NETWORK_REG", "case")
          /\ IF Heard.text = "+CREG: 0,1"
             THEN gsm_status' = "ONLINE" /\ Goto("gsm", "READ_SMS", "give")
             ELSE UNCHANGED gsm_status /\ Goto("gsm", "NETWORK_REG", "give")
       \/ /\ TimesOut("gsm", "WAIT_NETWORK_REG")
          /\ UNCHANGED gsm_status /\ Goto("gsm", "NETWORK_REG", "give")
    /\ AnswerFrame
    /\ UNCHANGED <<binary_sim808, alertVars, gpsVars, device_status, phone_number, retried>>

GsmReadSms == /\ Send("gsm", "delay", "READ_SMS", "AT+CMGL", "WAIT_READ_SMS")
              /\ sms_check' = 1

MutantAfterNoMessage == "DELETE_SMS"   \* mutation: deletes without having read
AfterNoMessage == "SEND_SMS_1"

(* The header of a message: store_phone_number takes the sender's number. *)
GsmWaitReadSms ==
    /\ \/ /\ Hears("gsm", "WAIT_READ_SMS", "case")
          /\ IF Heard.text = "+CMGL: 1"
             THEN phone_number' = "owner" /\ Goto("gsm", "WAIT_READ_SMS", "body")
             ELSE UNCHANGED phone_number /\ Goto("gsm", AfterNoMessage, "give")
       \/ /\ TimesOut("gsm", "WAIT_READ_SMS")
          /\ UNCHANGED phone_number /\ Goto("gsm", "READ_SMS", "give")
    /\ AnswerFrame
    /\ UNCHANGED <<binary_sim808, alertVars, gpsVars, gsm_status, device_status, retried>>

(* Its body, waited for without a timeout while the mutex is held: whatever *)
(* the next response is, store_sms_data declares the zone loaded.           *)
GsmReadBody ==
    /\ Hears("gsm", "WAIT_READ_SMS", "body")
    /\ device_status' = "SZ_DATA_LOADED"
    /\ Goto("gsm", "DELETE_SMS", "give")
    /\ AnswerFrame
    /\ UNCHANGED <<binary_sim808, alertVars, gpsVars, gsm_status, phone_number, retried>>

GsmDeleteSms     == Ask("gsm", "DELETE_SMS", "AT+CMGDA", "WAIT_DELETE_SMS")
GsmWaitDeleteSms == Await("gsm", "WAIT_DELETE_SMS", "OK", "SEND_SMS_1", "DELETE_SMS")

MutantAfterNoAlert == "SEND_SMS_1"     \* mutation: waits for an alert
AfterNoAlert == "READ_SMS"

(* An alert on queue_sms is taken before the mutex is. *)
GsmTakeAlert ==
    /\ At("gsm", "SEND_SMS_1", "case")
    /\ IF queue_sms # <<>>
       THEN /\ coord' = Head(queue_sms)
            /\ queue_sms' = Tail(queue_sms)
            /\ Goto("gsm", "SEND_SMS_1", "coord")
       ELSE /\ Goto("gsm", AfterNoAlert, "case")
            /\ UNCHANGED <<coord, queue_sms>>
    /\ UNCHANGED <<modemVars, rxVars, queue_sim808, sms_check, mutex_sim808,
                   binary_sim808, coordVars, sms_hold, gpsVars, configVars, retried>>

GsmSendSms1 == Ask("gsm", "SEND_SMS_1", "AT+CMGS", "WAIT_SEND_SMS_1")

(***************************************************************************)
(* Without the prompt the status stays, and the mutex is given all the     *)
(* same: from then on this case runs again and again without the mutex.    *)
(***************************************************************************)
MutantAfterCmgs(prompted) == "WAIT_SEND_SMS_1"   \* mutation: the status is never advanced
AfterCmgs(prompted) == IF prompted THEN "SEND_SMS_2" ELSE "WAIT_SEND_SMS_1"

GsmWaitSendSms1 ==
    /\ \/ /\ Hears("gsm", "WAIT_SEND_SMS_1", "case")
          /\ Goto("gsm", AfterCmgs(Heard.text = ">"), "give")
          /\ retried' = (retried \/ Heard.text # ">")
       \/ /\ TimesOut("gsm", "WAIT_SEND_SMS_1")
          /\ Goto("gsm", AfterCmgs(FALSE), "give")
          /\ retried' = TRUE
    /\ AnswerFrame
    /\ UNCHANGED <<binary_sim808, alertVars, gpsVars, configVars>>

GsmSendSms2     == Ask("gsm", "SEND_SMS_2", "SmsText", "WAIT_SEND_SMS_2")
GsmWaitSendSms2 == Await("gsm", "WAIT_SEND_SMS_2", "+CMGS:", "NEXT", "NEXT")

MutantRearmed == 1                     \* mutation: sms_hold is not reset
Rearmed == 0

(* One minute later alerts are allowed again. *)
GsmNext ==
    /\ At("gsm", "NEXT", "case")
    /\ sms_hold' = Rearmed
    /\ Goto("gsm", "READ_SMS", "case")
    /\ UNCHANGED <<modemVars, rxVars, queue_sim808, sms_check, mutex_sim808,
                   binary_sim808, coordVars, queue_sms, coord, gpsVars, configVars, retried>>

Gsm ==
    \/ GsmDisableEcho \/ GsmWaitEcho \/ GsmSmsReady \/ GsmTextMode \/ GsmWaitTextMode
    \/ GsmNetworkReg \/ GsmWaitNetworkReg \/ GsmReadSms \/ GsmWaitReadSms \/ GsmReadBody
    \/ GsmDeleteSms \/ GsmWaitDeleteSms \/ GsmTakeAlert \/ GsmSendSms1
    \/ GsmWaitSendSms1 \/ GsmSendSms2 \/ GsmWaitSendSms2 \/ GsmNext

-----------------------------------------------------------------------------
(* task_gps, in the order of its switch.                                    *)

(* xSemaphoreTake(binary_sim808, portMAX_DELAY). *)
GpsWaitGsmInit ==
    /\ At("gps", "WAIT_GSM_INIT", "case")
    /\ binary_sim808 = 1
    /\ binary_sim808' = 0
    /\ Goto("gps", "POWER_ON", "case")
    /\ UNCHANGED <<modemVars, rxVars, queue_sim808, sms_check, mutex_sim808,
                   coordVars, alertVars, gpsVars, configVars, retried>>

GpsPowerOn     == Ask("gps", "POWER_ON", "AT+CGPSPWR", "WAIT_POWER_ON")
GpsWaitPowerOn == Await("gps", "WAIT_POWER_ON", "OK", "CHECK_SIGNAL", "POWER_ON")
GpsCheckSignal == Ask("gps", "CHECK_SIGNAL", "AT+CGPSSTATUS?", "WAIT_CHECK_SIGNAL")

GpsWaitCheckSignal ==
    /\ \/ /\ Hears("gps", "WAIT_CHECK_SIGNAL", "case")
          /\ IF Heard.text = "Location 3D Fix"
             THEN gps_status' = "ONLINE" /\ Goto("gps", "GET_COORDINATE", "give")
             ELSE UNCHANGED gps_status /\ Goto("gps", "CHECK_SIGNAL", "give")
       \/ /\ TimesOut("gps", "WAIT_CHECK_SIGNAL")
          /\ UNCHANGED gps_status /\ Goto("gps", "CHECK_SIGNAL", "give")
    /\ AnswerFrame
    /\ UNCHANGED <<binary_sim808, alertVars, queue_coordinates, fix, configVars, retried>>

GpsGetCoordinate == Ask("gps", "GET_COORDINATE", "AT+CGPSINF", "WAIT_COORDINATE")

(* parse_frame: eight commas and at least 4 satellites, or 0.  A response   *)
(* of size 0 has no comma whatever its data still holds.                    *)
MutantParsed(response) == response.size = 0    \* mutation: another count of commas
Parsed(response) == response.size > 0 /\ response.fix # NoFix

GpsWaitCoordinate ==
    /\ \/ /\ Hears("gps", "WAIT_COORDINATE", "case")
          /\ CASE Heard.text # "+CGPSINF:" ->
                     /\ Goto("gps", "GET_COORDINATE", "give")
                     /\ UNCHANGED <<fix, gps_status>>
               [] Heard.text = "+CGPSINF:" /\ Parsed(Heard) ->
                     /\ fix' = Heard.fix
                     /\ Goto("gps", "WAIT_COORDINATE", "publish")
                     /\ UNCHANGED gps_status
               [] OTHER ->
                     /\ gps_status' = "OFFLINE"
                     /\ Goto("gps", "CHECK_SIGNAL", "give")
                     /\ UNCHANGED fix
       \/ /\ TimesOut("gps", "WAIT_COORDINATE")
          /\ Goto("gps", "GET_COORDINATE", "give")
          /\ UNCHANGED <<fix, gps_status>>
    /\ AnswerFrame
    /\ UNCHANGED <<binary_sim808, alertVars, queue_coordinates, configVars, retried>>

MutantCoordinatesRoom == TRUE          \* mutation: no wait for the queue
CoordinatesRoom == queue_coordinates = <<>>

(* xQueueSend(queue_coordinates, &new_coordinate, portMAX_DELAY). *)
GpsPublish ==
    /\ At("gps", "WAIT_COORDINATE", "publish")
    /\ CoordinatesRoom
    /\ queue_coordinates' = Append(queue_coordinates, fix)
    /\ fix' = NoFix        \* parse_frame returns: its local is gone
    /\ Goto("gps", "GET_COORDINATE", "give")
    /\ UNCHANGED <<modemVars, rxVars, queue_sim808, sms_check, mutex_sim808, binary_sim808,
                   coordVars, alertVars, gps_status, configVars, retried>>

Gps == \/ GpsWaitGsmInit \/ GpsPowerOn \/ GpsWaitPowerOn \/ GpsCheckSignal
       \/ GpsWaitCheckSignal \/ GpsGetCoordinate \/ GpsWaitCoordinate \/ GpsPublish

-----------------------------------------------------------------------------
(* task_coordinates.                                                        *)

CoordinatesFrame == UNCHANGED <<modemVars, rxVars, queue_sim808, sms_check, taskVars,
                                mutex_sim808, binary_sim808, coord, gps_status, fix,
                                configVars, retried>>

CoordinatesReceive ==
    /\ co_pc = "receive"
    /\ queue_coordinates # <<>>
    /\ new_coordinate' = Head(queue_coordinates)
    /\ queue_coordinates' = Tail(queue_coordinates)
    /\ co_pc' = "evaluate"
    /\ UNCHANGED <<queue_sms, sms_hold>>
    /\ CoordinatesFrame

MutantUnheld(c) == /\ device_status = "SZ_DATA_LOADED"     \* mutation: sms_hold is
                   /\ c \in Outside                       \* not looked at
                   /\ gsm_status = "ONLINE"
MutantInside(c) == /\ device_status = "SZ_DATA_LOADED"     \* mutation: the comparison
                   /\ c \notin Outside                    \* is the other way round
                   /\ gsm_status = "ONLINE"
                   /\ sms_hold = 0

(* distance > sz_radius && gsm_status == ONLINE && sms_hold == 0 *)
MustAlert(c) == /\ device_status = "SZ_DATA_LOADED"
                /\ c \in Outside
                /\ gsm_status = "ONLINE"
                /\ sms_hold = 0

CoordinatesEvaluate ==
    /\ co_pc = "evaluate"
    /\ co_pc' = IF MustAlert(new_coordinate) THEN "hold" ELSE "receive"
    /\ UNCHANGED <<queue_sms, sms_hold, new_coordinate, queue_coordinates>>
    /\ CoordinatesFrame

CoordinatesHold ==
    /\ co_pc = "hold"
    /\ sms_hold' = 1
    /\ co_pc' = "send"
    /\ UNCHANGED <<queue_sms, new_coordinate, queue_coordinates>>
    /\ CoordinatesFrame

(* xQueueSend(queue_sms, &new_coordinate, 0): lost if the queue is full. *)
CoordinatesSend ==
    /\ co_pc = "send"
    /\ queue_sms' = IF queue_sms = <<>> THEN <<new_coordinate>> ELSE queue_sms
    /\ co_pc' = "receive"
    /\ UNCHANGED <<sms_hold, new_coordinate, queue_coordinates>>
    /\ CoordinatesFrame

CoordinatesTask == \/ CoordinatesReceive \/ CoordinatesEvaluate
                   \/ CoordinatesHold \/ CoordinatesSend

-----------------------------------------------------------------------------
(* The modem.                                                               *)

Modem ==
    \/ ModemAnswer \/ ModemPrompt(phone_number = "owner") \/ ModemSend
    \/ ModemSwallow \/ ModemSilent

ModemOnItsOwn == ModemReady(status["gsm"] = "SMS_READY") \/ ModemUnsolicited \/ ModemMessage

TrackerFrame == UNCHANGED <<taskVars, mutex_sim808, binary_sim808, coordVars,
                            alertVars, gpsVars, configVars, retried>>

Receiving == Receive /\ TrackerFrame
Answering == Modem /\ UNCHANGED <<rxVars, queue_sim808, sms_check>> /\ TrackerFrame
Happening == ModemOnItsOwn /\ UNCHANGED <<rxVars, queue_sim808, sms_check>> /\ TrackerFrame

Next == \/ Gsm \/ Gps \/ CoordinatesTask \/ Receiving \/ Answering \/ Happening
        \/ \E t \in Tasks : TaskTake(t) \/ TaskGive(t)

Safety == Init /\ [][Next]_vars

(***************************************************************************)
(* All tasks have the same priority and share the processor by time slices *)
(* (main.c 129-136, configUSE_PREEMPTION), so a task that can run does.    *)
(* xSemaphoreGive hands the processor to the task that waits for the mutex *)
(* (tasks.c 1995: >=), so a waiting task is not passed over for ever.  The *)
(* modem answers, unless the fault "silent" says otherwise, and starts.    *)
(***************************************************************************)
Fairness ==
    /\ WF_vars(Gsm) /\ WF_vars(Gps) /\ WF_vars(CoordinatesTask) /\ WF_vars(Receiving)
    /\ WF_vars(Answering)
    /\ WF_vars(ModemReady(status["gsm"] = "SMS_READY")
                /\ UNCHANGED <<rxVars, queue_sim808, sms_check>> /\ TrackerFrame)
    /\ \A t \in Tasks : SF_vars(TaskTake(t)) /\ WF_vars(TaskGive(t))

Spec == Safety /\ Fairness

-----------------------------------------------------------------------------
(* Properties: the mutex.                                                   *)

(* The cases entered with the mutex already taken by the case before them. *)
HoldingWaits == { "WAIT_TEXT_MODE", "WAIT_NETWORK_REG", "WAIT_READ_SMS", "WAIT_DELETE_SMS",
                  "WAIT_SEND_SMS_1", "WAIT_SEND_SMS_2", "WAIT_POWER_ON",
                  "WAIT_CHECK_SIGNAL", "WAIT_COORDINATE" }

(* Task t is between the Take and the Give of one exchange with the modem. *)
InExchange(t) == \/ pc[t] \in {"delay", "body", "publish", "give"}
                 \/ pc[t] = "case" /\ status[t] \in HoldingWaits

(***************************************************************************)
(* As long as no AT+CMGS has been left without its prompt, the mutex is    *)
(* held by exactly the task that is in an exchange, although the Take and  *)
(* the Give of an exchange are in different cases of the switch.           *)
(***************************************************************************)
MutexOwner == ~retried => \A t \in Tasks : InExchange(t) <=> mutex_sim808 = t

-----------------------------------------------------------------------------
(* Properties: alerts.                                                      *)

AlertRaised == co_pc = "send"
AlertQueued == queue_sms # <<>>
AlertAtGsm  ==
    \/ status["gsm"] \in {"WAIT_SEND_SMS_1", "SEND_SMS_2", "WAIT_SEND_SMS_2", "NEXT"}
    \/ status["gsm"] = "SEND_SMS_1" /\ pc["gsm"] \in {"coord", "delay"}

(***************************************************************************)
(* sms_hold, written by both tasks without a lock, is 1 exactly while one  *)
(* alert is under way, and that alert is in one place: task_coordinates,   *)
(* queue_sms or task_gsm.  So the xQueueSend with no waiting time never    *)
(* finds queue_sms full, and no alert is dropped or sent twice.            *)
(***************************************************************************)
AlertConserved ==
    /\ (sms_hold = 1) <=> (AlertRaised \/ AlertQueued \/ AlertAtGsm)
    /\ ~(AlertRaised /\ AlertQueued)
    /\ ~(AlertRaised /\ AlertAtGsm)
    /\ ~(AlertQueued /\ AlertAtGsm)

(* The position task_gsm texts is outside the zone, and by then the device *)
(* is registered, configured and has some telephone number to text to.     *)
AlertJustified ==
    AlertAtGsm => /\ coord \in Outside
                  /\ gsm_status = "ONLINE"
                  /\ device_status = "SZ_DATA_LOADED"
                  /\ phone_number # "empty"

(***************************************************************************)
(* The tracker implements the alert cycle.                                 *)
(***************************************************************************)
GsmPaused == status["gsm"] = "NEXT" /\ pc["gsm"] = "case"
GsmTexted == status["gsm"] \in {"WAIT_SEND_SMS_2", "NEXT"}

AlertPhase == IF AlertRaised \/ AlertQueued THEN "raised"
              ELSE IF ~AlertAtGsm THEN "armed"
              ELSE IF GsmPaused THEN "pause"
              ELSE IF GsmTexted THEN "texted" ELSE "taken"

AlertPosition == IF AlertRaised THEN new_coordinate
                 ELSE IF AlertQueued THEN Head(queue_sms)
                 ELSE IF AlertAtGsm THEN coord ELSE NoFix

Cycle == INSTANCE AlertCycle WITH phase <- AlertPhase, position <- AlertPosition

ImplementsAlertCycle == Cycle!AlertCycleSafety

(* AT+CMGL never finds more than one message: with two the receiver gets    *)
(* out of step for good (main.c 606-648).                                   *)
OneAtATime == []~crowded

(* An alert once raised goes all the way round.                             *)
CompletesAlertCycle  == OneAtATime => Cycle!AlertCycleFairness

-----------------------------------------------------------------------------
(* Properties: the dialogue with the modem.                                 *)

Asked(t) == CASE status[t] = "WAIT_ECHO"         -> "ATE0"
              [] status[t] = "WAIT_TEXT_MODE"    -> "AT+CMGF"
              [] status[t] = "WAIT_NETWORK_REG"  -> "AT+CREG?"
              [] status[t] = "WAIT_READ_SMS"     -> "AT+CMGL"
              [] status[t] = "WAIT_DELETE_SMS"   -> "AT+CMGDA"
              [] status[t] = "WAIT_SEND_SMS_1"   -> "AT+CMGS"
              [] status[t] = "WAIT_SEND_SMS_2"   -> "SmsText"
              [] status[t] = "WAIT_POWER_ON"     -> "AT+CGPSPWR"
              [] status[t] = "WAIT_CHECK_SIGNAL" -> "AT+CGPSSTATUS?"
              [] status[t] = "WAIT_COORDINATE"   -> "AT+CGPSINF"
              [] OTHER                           -> None

(***************************************************************************)
(* With a prompt modem, and as long as AT+CMGL has not listed more than one *)
(* message, a task that waits for an answer can only be given a response    *)
(* to the command it sent itself, with its own text: neither what is left   *)
(* of an earlier answer nor what the other task asked for.                  *)
(***************************************************************************)
AnswersBelong ==
    ~crowded =>
        \A t \in Tasks :
            Asked(t) # None /\ pc[t] \in {"case", "body"} =>
                \A i \in DOMAIN queue_sim808 :
                    queue_sim808[i].re = Asked(t) /\ queue_sim808[i].size > 0

(***************************************************************************)
(* So long, the receiver is between two lines whenever the line is silent:  *)
(* it has not lost the pairing of the CR LFs that open and close them.      *)
(***************************************************************************)
ReceiverInPhase == ~crowded /\ Quiet => rx_status = 0

(* No AT command ends up inside the text of an SMS.                         *)
TextIsOwn == ~intruded

(* The messages are not deleted before the first one has been read.         *)
FirstConfigKept ==
    [][inbox > 0 /\ device_status = "EMPTY" => inbox' > 0]_vars

-----------------------------------------------------------------------------
(* Properties: what must eventually happen.                                 *)

(* A configuration message of an unconfigured device is applied, however    *)
(* many there are.                                                          *)
FirstConfigApplied ==
    (inbox > 0 /\ device_status = "EMPTY") ~> (device_status = "SZ_DATA_LOADED")

(* task_gps goes on publishing positions (Informe p. 11: one every 3 s).    *)
GoesOnPublishing    == []<>(pc["gps"] = "publish")
PositionsKeepComing == OneAtATime => GoesOnPublishing

(* Even while no AT+CMGS was left unanswered, so that task_gsm takes none   *)
(* of task_gps's responses.                                                 *)
PositionsKeepComingAlone == []~retried => GoesOnPublishing

(* A configured device that is seen outside the zone, and never again       *)
(* inside it, goes on texting its position (manual p. 8: every minute).     *)
SeenOutside == co_pc = "evaluate" /\ new_coordinate \in Outside
SeenInside  == co_pc = "evaluate" /\ new_coordinate \notin Outside
Configured  == device_status = "SZ_DATA_LOADED"

OutsideReported ==
    (OneAtATime /\ <>[]Configured /\ []<>SeenOutside /\ <>[]~SeenInside)
        => []<>(AlertPhase = "texted")
=============================================================================
