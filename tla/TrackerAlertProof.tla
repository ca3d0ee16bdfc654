--------------------------- MODULE TrackerAlertProof ---------------------------
(***************************************************************************)
(* Alerts: they are conserved and justified, and the tracker implements    *)
(* AlertCycle, whatever the modem does.  The proof uses only the types.    *)
(***************************************************************************)
EXTENDS TrackerProof

(* What a position must satisfy to be alerted, from the check on. *)
Justified(c) == /\ c \in Outside
                /\ gsm_status = "ONLINE"
                /\ device_status = "SZ_DATA_LOADED"
                /\ phone_number # "empty"

(***************************************************************************)
(* The inductive invariant.  Conservation alone is not inductive: sms_hold *)
(* must still be 0 when task_coordinates sets it, although it was read a   *)
(* step earlier; and a position is justified wherever it is on its way.    *)
(***************************************************************************)
HoldIsFree == co_pc = "hold" => sms_hold = 0
AllJustified == /\ co_pc \in {"hold", "send"} => Justified(new_coordinate)
                /\ AlertQueued => Justified(Head(queue_sms))
                /\ AlertAtGsm => Justified(coord)
NumberFirst == /\ device_status = "SZ_DATA_LOADED" => phone_number # "empty"
               /\ pc["gsm"] = "body" => phone_number # "empty"
CoordPlace == pc["gsm"] = "coord" => status["gsm"] = "SEND_SMS_1"

AlertInv == AlertConserved /\ HoldIsFree /\ AllJustified /\ NumberFirst /\ CoordPlace

Stutter == UNCHANGED <<AlertPhase, AlertPosition>>
Simulated == Cycle!AlertCycleNext \/ Stutter

(* The configuration only ever grows. *)
ConfigGrows == /\ gsm_status = "ONLINE" => gsm_status' = "ONLINE"
               /\ device_status = "SZ_DATA_LOADED" => device_status' = "SZ_DATA_LOADED"
               /\ phone_number # "empty" => phone_number' # "empty"

(* A step that neither moves an alert nor changes its stage at task_gsm. *)
LEMMA NoAlertMoves ==
    ASSUME AlertInv, ConfigGrows, UNCHANGED <<coordVars, alertVars>>,
           AlertAtGsm' <=> AlertAtGsm,
           AlertAtGsm => (GsmPaused' <=> GsmPaused) /\ (GsmTexted' <=> GsmTexted),
           NumberFirst', CoordPlace'
    PROVE  AlertInv' /\ Stutter
<1>1. (AlertRaised' <=> AlertRaised) /\ (AlertQueued' <=> AlertQueued)
  BY DEF AlertRaised, AlertQueued, coordVars, alertVars
<1>2. AlertConserved' /\ HoldIsFree'
  BY <1>1 DEF AlertInv, AlertConserved, HoldIsFree, coordVars, alertVars
<1>3. AllJustified'
  BY <1>1 DEF AlertInv, AllJustified, Justified, ConfigGrows, coordVars, alertVars
<1>4. AlertPhase' = AlertPhase
  BY <1>1 DEF AlertPhase
<1>5. AlertPosition' = AlertPosition
  BY <1>1 DEF AlertPosition, coordVars, alertVars
<1> QED
  BY <1>2, <1>3, <1>4, <1>5 DEF AlertInv, Stutter

(* Steps that leave task_gsm where it is. *)
LEMMA GsmStays ==
    ASSUME AlertInv, UNCHANGED <<status["gsm"], pc["gsm"], configVars, coordVars, alertVars>>
    PROVE  AlertInv' /\ Stutter
<1>1. /\ AlertAtGsm' <=> AlertAtGsm
      /\ GsmPaused' <=> GsmPaused
      /\ GsmTexted' <=> GsmTexted
  BY DEF AlertAtGsm, GsmPaused, GsmTexted
<1>2. ConfigGrows /\ NumberFirst' /\ CoordPlace'
  BY DEF AlertInv, ConfigGrows, NumberFirst, CoordPlace, configVars
<1> QED
  BY <1>1, <1>2, NoAlertMoves

(* The modem and task_sim808_receive take no part in the cycle.            *)
LEMMA AirAlert ==
    ASSUME AlertInv, Receiving \/ Answering \/ Happening
    PROVE  AlertInv' /\ Stutter
<1>1. UNCHANGED <<status["gsm"], pc["gsm"], configVars, coordVars, alertVars>>
  BY DEF Receiving, Answering, Happening, TrackerFrame, taskVars
<1> QED
  BY <1>1, GsmStays

(* Nor does task_gps, which only fills queue_coordinates.                  *)
LEMMA GpsAlert ==
    ASSUME TypeOK, AlertInv, Gps
    PROVE  AlertInv' /\ Stutter
<1>1. UNCHANGED <<configVars, coordVars, alertVars>>
  BY DEF Gps, GpsWaitGsmInit, GpsPowerOn, GpsWaitPowerOn, GpsCheckSignal, GpsWaitCheckSignal,
         GpsGetCoordinate, GpsWaitCoordinate, GpsPublish, Ask, Send, Await, AnswerFrame
<1>2. \E s, p : Goto("gps", s, p)
  BY DEF Gps, GpsWaitGsmInit, GpsPowerOn, GpsWaitPowerOn, GpsCheckSignal, GpsWaitCheckSignal,
         GpsGetCoordinate, GpsWaitCoordinate, GpsPublish, Ask, Send, Await
<1>3. UNCHANGED <<status["gsm"], pc["gsm"]>>
  BY <1>2 DEF Goto, TypeOK, TrackerTypeOK, Tasks
<1> QED
  BY <1>1, <1>3, GsmStays

(* Where an alert can be inside task_gsm, told from a status and a pc. *)
HasAlert(s, p) ==
    \/ s \in {"WAIT_SEND_SMS_1", "SEND_SMS_2", "WAIT_SEND_SMS_2", "NEXT"}
    \/ s = "SEND_SMS_1" /\ p \in {"coord", "delay"}

(* A move of task_gsm far from any alert. *)
LEMMA GsmMoves ==
    ASSUME TypeOK, AlertInv, NEW s0, NEW p0, NEW s, NEW p, At("gsm", s0, p0), Goto("gsm", s, p),
           ~HasAlert(s0, p0), ~HasAlert(s, p), p \notin {"coord", "body"},
           UNCHANGED <<configVars, coordVars, alertVars>>
    PROVE  AlertInv' /\ Stutter
<1>1. status'["gsm"] = s /\ pc'["gsm"] = p
  BY DEF Goto, TypeOK, TrackerTypeOK, Tasks
<1>2. ~AlertAtGsm /\ ~AlertAtGsm'
  BY <1>1 DEF AlertAtGsm, HasAlert, At
<1>3. ConfigGrows /\ NumberFirst' /\ CoordPlace'
  BY <1>1 DEF AlertInv, ConfigGrows, NumberFirst, CoordPlace, configVars
<1> QED
  BY <1>2, <1>3, NoAlertMoves

(* A move of task_gsm that carries its alert along inside one stage. *)
LEMMA GsmCarries ==
    ASSUME TypeOK, AlertInv, NEW s0, NEW p0, NEW s, NEW p, At("gsm", s0, p0), Goto("gsm", s, p),
           HasAlert(s0, p0), HasAlert(s, p), p \notin {"coord", "body"},
           (s = "NEXT" /\ p = "case") <=> (s0 = "NEXT" /\ p0 = "case"),
           s \in {"WAIT_SEND_SMS_2", "NEXT"} <=> s0 \in {"WAIT_SEND_SMS_2", "NEXT"},
           UNCHANGED <<configVars, coordVars, alertVars>>
    PROVE  AlertInv' /\ Stutter
<1>1. status'["gsm"] = s /\ pc'["gsm"] = p
  BY DEF Goto, TypeOK, TrackerTypeOK, Tasks
<1>2. AlertAtGsm /\ AlertAtGsm'
  BY <1>1 DEF AlertAtGsm, HasAlert, At
<1>3. (GsmPaused' <=> GsmPaused) /\ (GsmTexted' <=> GsmTexted)
  BY <1>1 DEF GsmPaused, GsmTexted, At
<1>4. ConfigGrows /\ NumberFirst' /\ CoordPlace'
  BY <1>1 DEF AlertInv, ConfigGrows, NumberFirst, CoordPlace, configVars
<1> QED
  BY <1>2, <1>3, <1>4, NoAlertMoves

(* Each case of task_gsm keeps the invariant and is a step of the cycle, or none.*)
LEMMA GsmAlert ==
    ASSUME TypeOK, AlertInv, Gsm
    PROVE  AlertInv' /\ Simulated
<1>c. ASSUME UNCHANGED <<coordVars, alertVars>>, ConfigGrows, NumberFirst', CoordPlace',
             ~AlertAtGsm, ~AlertAtGsm'
      PROVE  AlertInv' /\ Stutter
  BY <1>c, NoAlertMoves
<1> USE DEF Simulated
<1>1. CASE GsmDisableEcho
  <2>1. PICK s \in {"WAIT_ECHO"} : Goto("gsm", s, "case")
    BY <1>1 DEF GsmDisableEcho, Ask, Send, Await
  <2>2. At("gsm", "DISABLE_ECHO", "case") /\ UNCHANGED <<configVars, coordVars, alertVars>>
    BY <1>1 DEF GsmDisableEcho, Ask, Send, Await, Hears, TimesOut, AnswerFrame
  <2> QED
    BY <2>1, <2>2, GsmMoves DEF HasAlert
<1>2. CASE GsmWaitEcho
  <2>1. PICK s \in {"SMS_READY", "WAIT_ECHO", "DISABLE_ECHO"} : Goto("gsm", s, "case")
    BY <1>2 DEF GsmWaitEcho, Ask, Send, Await
  <2>2. At("gsm", "WAIT_ECHO", "case") /\ UNCHANGED <<configVars, coordVars, alertVars>>
    BY <1>2 DEF GsmWaitEcho, Ask, Send, Await, Hears, TimesOut, AnswerFrame
  <2> QED
    BY <2>1, <2>2, GsmMoves DEF HasAlert
<1>3. CASE GsmSmsReady
  <2>1. At("gsm", "SMS_READY", "case") /\ UNCHANGED <<configVars, coordVars, alertVars>>
    BY <1>3 DEF GsmSmsReady, Hears, AnswerFrame
  <2>2. CASE Goto("gsm", "TEXT_MODE", "case")
    BY <2>1, <2>2, GsmMoves DEF HasAlert
  <2>3. CASE UNCHANGED taskVars
    BY <2>1, <2>3, GsmStays DEF taskVars
  <2> QED
    BY <1>3, <2>2, <2>3 DEF GsmSmsReady
<1>4. CASE GsmTextMode
  <2>1. PICK s \in {"WAIT_TEXT_MODE"} : Goto("gsm", s, "case")
    BY <1>4 DEF GsmTextMode, Ask, Send, Await
  <2>2. At("gsm", "TEXT_MODE", "delay") /\ UNCHANGED <<configVars, coordVars, alertVars>>
    BY <1>4 DEF GsmTextMode, Ask, Send, Await, Hears, TimesOut, AnswerFrame
  <2> QED
    BY <2>1, <2>2, GsmMoves DEF HasAlert
<1>5. CASE GsmWaitTextMode
  <2>1. PICK s \in {"NETWORK_REG", "TEXT_MODE"} : Goto("gsm", s, "give")
    BY <1>5 DEF GsmWaitTextMode, Ask, Send, Await
  <2>2. At("gsm", "WAIT_TEXT_MODE", "case") /\ UNCHANGED <<configVars, coordVars, alertVars>>
    BY <1>5 DEF GsmWaitTextMode, Ask, Send, Await, Hears, TimesOut, AnswerFrame
  <2> QED
    BY <2>1, <2>2, GsmMoves DEF HasAlert
<1>6. CASE GsmNetworkReg
  <2>1. PICK s \in {"WAIT_NETWORK_REG"} : Goto("gsm", s, "case")
    BY <1>6 DEF GsmNetworkReg, Ask, Send, Await
  <2>2. At("gsm", "NETWORK_REG", "delay") /\ UNCHANGED <<configVars, coordVars, alertVars>>
    BY <1>6 DEF GsmNetworkReg, Ask, Send, Await, Hears, TimesOut, AnswerFrame
  <2> QED
    BY <2>1, <2>2, GsmMoves DEF HasAlert
<1>7. CASE GsmWaitNetworkReg
  <2>1. PICK s \in {"READ_SMS", "NETWORK_REG"}, p \in {"give"} : Goto("gsm", s, p)
    BY <1>7 DEF GsmWaitNetworkReg
  <2>2. At("gsm", "WAIT_NETWORK_REG", "case") /\ UNCHANGED <<coordVars, alertVars>>
    BY <1>7 DEF GsmWaitNetworkReg, Hears, TimesOut, AnswerFrame
  <2>3. status'["gsm"] = s /\ pc'["gsm"] = p
    BY <2>1 DEF Goto, TypeOK, TrackerTypeOK, Tasks
  <2>4. ~AlertAtGsm /\ ~AlertAtGsm' /\ CoordPlace'
    BY <2>2, <2>3 DEF AlertAtGsm, At, CoordPlace
  <2>5. ConfigGrows /\ NumberFirst'
    BY <1>7, <2>3
      DEF GsmWaitNetworkReg, AlertInv, ConfigGrows, NumberFirst, configVars, Goto, Hears,
          TimesOut, At
  <2> QED
    BY <1>c, <2>2, <2>4, <2>5
<1>8. CASE GsmReadSms
  <2>1. PICK s \in {"WAIT_READ_SMS"} : Goto("gsm", s, "case")
    BY <1>8 DEF GsmReadSms, Ask, Send, Await
  <2>2. At("gsm", "READ_SMS", "delay") /\ UNCHANGED <<configVars, coordVars, alertVars>>
    BY <1>8 DEF GsmReadSms, Ask, Send, Await, Hears, TimesOut, AnswerFrame
  <2> QED
    BY <2>1, <2>2, GsmMoves DEF HasAlert
<1>9. CASE GsmWaitReadSms
  <2>1. PICK s \in {"WAIT_READ_SMS", "SEND_SMS_1", "READ_SMS"}, p \in {"give", "body"} :
          Goto("gsm", s, p)
    BY <1>9 DEF AfterNoMessage, GsmWaitReadSms
  <2>2. At("gsm", "WAIT_READ_SMS", "case") /\ UNCHANGED <<coordVars, alertVars>>
    BY <1>9 DEF AfterNoMessage, GsmWaitReadSms, Hears, TimesOut, AnswerFrame
  <2>3. status'["gsm"] = s /\ pc'["gsm"] = p
    BY <2>1 DEF Goto, TypeOK, TrackerTypeOK, Tasks
  <2>4. ~AlertAtGsm /\ ~AlertAtGsm' /\ CoordPlace'
    BY <2>2, <2>3 DEF AlertAtGsm, At, CoordPlace
  <2>5. UNCHANGED <<gsm_status, device_status>> /\ phone_number' \in {phone_number, "owner"}
    BY <1>9 DEF AfterNoMessage, GsmWaitReadSms
  <2>6. phone_number' = "owner" \/ (\E s2 : Goto("gsm", s2, "give"))
    BY <1>9 DEF AfterNoMessage, GsmWaitReadSms
  <2>7. pc'["gsm"] = "body" => phone_number' = "owner"
    BY <2>6 DEF Goto, TypeOK, TrackerTypeOK, Tasks
  <2>8. ConfigGrows /\ NumberFirst'
    BY <2>5, <2>7 DEF AlertInv, ConfigGrows, NumberFirst
  <2> QED
    BY <1>c, <2>2, <2>4, <2>8
<1>10. CASE GsmReadBody
  <2>1. PICK s \in {"DELETE_SMS"}, p \in {"give"} : Goto("gsm", s, p)
    BY <1>10 DEF GsmReadBody
  <2>2. At("gsm", "WAIT_READ_SMS", "body") /\ UNCHANGED <<coordVars, alertVars>>
    BY <1>10 DEF GsmReadBody, Hears, TimesOut, AnswerFrame
  <2>3. status'["gsm"] = s /\ pc'["gsm"] = p
    BY <2>1 DEF Goto, TypeOK, TrackerTypeOK, Tasks
  <2>4. ~AlertAtGsm /\ ~AlertAtGsm' /\ CoordPlace'
    BY <2>2, <2>3 DEF AlertAtGsm, At, CoordPlace
  <2>5. ConfigGrows /\ NumberFirst'
    BY <1>10, <2>3
      DEF GsmReadBody, AlertInv, ConfigGrows, NumberFirst, configVars, Goto, Hears, TimesOut, At
  <2> QED
    BY <1>c, <2>2, <2>4, <2>5
<1>11. CASE GsmDeleteSms
  <2>1. PICK s \in {"WAIT_DELETE_SMS"} : Goto("gsm", s, "case")
    BY <1>11 DEF GsmDeleteSms, Ask, Send, Await
  <2>2. At("gsm", "DELETE_SMS", "delay") /\ UNCHANGED <<configVars, coordVars, alertVars>>
    BY <1>11 DEF GsmDeleteSms, Ask, Send, Await, Hears, TimesOut, AnswerFrame
  <2> QED
    BY <2>1, <2>2, GsmMoves DEF HasAlert
<1>12. CASE GsmWaitDeleteSms
  <2>1. PICK s \in {"SEND_SMS_1", "DELETE_SMS"} : Goto("gsm", s, "give")
    BY <1>12 DEF GsmWaitDeleteSms, Ask, Send, Await
  <2>2. At("gsm", "WAIT_DELETE_SMS", "case") /\ UNCHANGED <<configVars, coordVars, alertVars>>
    BY <1>12 DEF GsmWaitDeleteSms, Ask, Send, Await, Hears, TimesOut, AnswerFrame
  <2> QED
    BY <2>1, <2>2, GsmMoves DEF HasAlert
<1>13. CASE GsmTakeAlert
  <2>0. /\ At("gsm", "SEND_SMS_1", "case") /\ ~AlertAtGsm
        /\ UNCHANGED <<coordVars, configVars, sms_hold>>
    BY <1>13 DEF AfterNoAlert, GsmTakeAlert, At, AlertAtGsm
  <2>1. CASE queue_sms = << >>
    <3>1. Goto("gsm", "READ_SMS", "case") /\ UNCHANGED alertVars
      BY <1>13, <2>1 DEF AfterNoAlert, GsmTakeAlert, alertVars
    <3> QED
      BY <2>0, <3>1, GsmMoves DEF HasAlert
  <2>2. CASE queue_sms # << >>
    <3>1. /\ Goto("gsm", "SEND_SMS_1", "coord")
          /\ coord' = Head(queue_sms) /\ queue_sms' = Tail(queue_sms)
      BY <1>13, <2>2 DEF AfterNoAlert, GsmTakeAlert
    <3>2. status'["gsm"] = "SEND_SMS_1" /\ pc'["gsm"] = "coord"
      BY <3>1 DEF Goto, TypeOK, TrackerTypeOK, Tasks
    <3>3. queue_sms' = << >>
      BY <2>2, <3>1 DEF TypeOK, TrackerTypeOK
    <3>4. AlertAtGsm' /\ ~AlertQueued' /\ AlertQueued /\ ~AlertRaised /\ ~AlertRaised'
      BY <2>0, <2>2, <3>2, <3>3 DEF AlertAtGsm, AlertQueued, AlertRaised, AlertInv,
                                    AlertConserved, coordVars
    <3>5. AlertConserved' /\ HoldIsFree'
      BY <2>0, <3>4 DEF AlertInv, AlertConserved, HoldIsFree, coordVars
    <3>6. AllJustified' /\ NumberFirst' /\ CoordPlace'
      BY <2>0, <3>1, <3>2, <3>4 DEF AlertInv, AllJustified, Justified, NumberFirst, CoordPlace,
                                    coordVars, configVars
    <3>7. AlertPhase = "raised" /\ AlertPhase' = "taken" /\ UNCHANGED AlertPosition
      BY <2>0, <3>1, <3>2, <3>4 DEF AlertPhase, AlertPosition, GsmPaused, GsmTexted
    <3>8. Cycle!TakeUp
      BY <3>7 DEF Cycle!TakeUp, Cycle!Step
    <3> QED
      BY <3>5, <3>6, <3>8 DEF AlertInv, Cycle!AlertCycleNext
  <2> QED
    BY <2>1, <2>2
<1>14. CASE GsmSendSms1
  <2>1. PICK s \in {"WAIT_SEND_SMS_1"} : Goto("gsm", s, "case")
    BY <1>14 DEF GsmSendSms1, Ask, Send, Await
  <2>2. At("gsm", "SEND_SMS_1", "delay") /\ UNCHANGED <<configVars, coordVars, alertVars>>
    BY <1>14 DEF GsmSendSms1, Ask, Send, Await, Hears, TimesOut, AnswerFrame
  <2> QED
    BY <2>1, <2>2, GsmCarries DEF HasAlert
<1>15. CASE GsmWaitSendSms1
  <2>1. PICK s \in {"SEND_SMS_2", "WAIT_SEND_SMS_1"} : Goto("gsm", s, "give")
    BY <1>15 DEF GsmWaitSendSms1, AfterCmgs
  <2>2. At("gsm", "WAIT_SEND_SMS_1", "case") /\ UNCHANGED <<configVars, coordVars, alertVars>>
    BY <1>15 DEF GsmWaitSendSms1, Hears, TimesOut, AnswerFrame
  <2> QED
    BY <2>1, <2>2, GsmCarries DEF HasAlert
<1>16. CASE GsmSendSms2
  <2>1. /\ At("gsm", "SEND_SMS_2", "delay") /\ Goto("gsm", "WAIT_SEND_SMS_2", "case")
        /\ UNCHANGED <<configVars, coordVars, alertVars>>
    BY <1>16 DEF GsmSendSms2, Ask, Send
  <2>2. status'["gsm"] = "WAIT_SEND_SMS_2" /\ pc'["gsm"] = "case"
    BY <2>1 DEF Goto, TypeOK, TrackerTypeOK, Tasks
  <2>3. AlertAtGsm /\ AlertAtGsm' /\ ~AlertRaised /\ ~AlertRaised' /\ ~AlertQueued /\ ~AlertQueued'
    BY <2>1, <2>2 DEF AlertAtGsm, AlertQueued, AlertRaised, AlertInv, AlertConserved, At,
                      coordVars, alertVars
  <2>4. AlertInv'
    BY <2>1, <2>2, <2>3 DEF AlertInv, AlertConserved, HoldIsFree, AllJustified, Justified,
                            NumberFirst, CoordPlace, coordVars, alertVars, configVars
  <2>5. AlertPhase = "taken" /\ AlertPhase' = "texted" /\ UNCHANGED AlertPosition
    BY <2>1, <2>2, <2>3 DEF AlertPhase, AlertPosition, GsmPaused, GsmTexted, At, alertVars
  <2>6. Cycle!Text
    BY <2>5 DEF Cycle!Text, Cycle!Step
  <2> QED
    BY <2>4, <2>6 DEF Cycle!AlertCycleNext
<1>17. CASE GsmWaitSendSms2
  <2>1. PICK s \in {"NEXT"} : Goto("gsm", s, "give")
    BY <1>17 DEF GsmWaitSendSms2, Ask, Send, Await
  <2>2. At("gsm", "WAIT_SEND_SMS_2", "case") /\ UNCHANGED <<configVars, coordVars, alertVars>>
    BY <1>17 DEF GsmWaitSendSms2, Ask, Send, Await, Hears, TimesOut, AnswerFrame
  <2> QED
    BY <2>1, <2>2, GsmCarries DEF HasAlert
<1>18. CASE GsmNext
  <2>1. /\ At("gsm", "NEXT", "case") /\ Goto("gsm", "READ_SMS", "case") /\ sms_hold' = 0
        /\ UNCHANGED <<configVars, coordVars, queue_sms, coord>>
    BY <1>18 DEF Rearmed, GsmNext
  <2>2. status'["gsm"] = "READ_SMS" /\ pc'["gsm"] = "case"
    BY <2>1 DEF Goto, TypeOK, TrackerTypeOK, Tasks
  <2>3. AlertAtGsm /\ ~AlertAtGsm' /\ ~AlertRaised /\ ~AlertRaised' /\ ~AlertQueued /\ ~AlertQueued'
    BY <2>1, <2>2 DEF AlertAtGsm, AlertQueued, AlertRaised, AlertInv, AlertConserved, At, coordVars
  <2>4. AlertInv'
    BY <2>1, <2>2, <2>3 DEF AlertInv, AlertConserved, HoldIsFree, AllJustified, Justified,
                            NumberFirst, CoordPlace, coordVars, configVars
  <2>5. AlertPhase = "pause" /\ AlertPhase' = "armed" /\ AlertPosition' = NoFix
    BY <2>1, <2>2, <2>3 DEF AlertPhase, AlertPosition, GsmPaused, At
  <2>6. Cycle!Rearm
    BY <2>5 DEF Cycle!Rearm
  <2> QED
    BY <2>4, <2>6 DEF Cycle!AlertCycleNext
<1> QED
  BY <1>1, <1>2, <1>3, <1>4, <1>5, <1>6, <1>7, <1>8, <1>9, <1>10, <1>11, <1>12, <1>13, <1>14,
     <1>15, <1>16, <1>17, <1>18
    DEF Gsm

(* task_coordinates: its check, the hold and the alert are three steps.     *)
LEMMA CoordinatesAlert ==
    ASSUME TypeOK, AlertInv, CoordinatesTask
    PROVE  AlertInv' /\ Simulated
<1> USE DEF Simulated
<1>f. /\ UNCHANGED <<status, pc, coord, configVars>>
      /\ AlertAtGsm' <=> AlertAtGsm
      /\ GsmPaused' <=> GsmPaused
      /\ GsmTexted' <=> GsmTexted
  <2>1. UNCHANGED <<status, pc, coord, configVars>>
    BY DEF CoordinatesTask, CoordinatesReceive, CoordinatesEvaluate, CoordinatesHold,
           CoordinatesSend, CoordinatesFrame, taskVars
  <2> QED
    BY <2>1 DEF AlertAtGsm, GsmPaused, GsmTexted
<1>n. NumberFirst' /\ CoordPlace'
  BY <1>f DEF AlertInv, NumberFirst, CoordPlace, configVars
<1>1. CASE CoordinatesReceive
  <2>1. co_pc = "receive" /\ co_pc' = "evaluate" /\ UNCHANGED <<queue_sms, sms_hold>>
    BY <1>1 DEF CoordinatesReceive
  <2>2. ~AlertRaised /\ ~AlertRaised' /\ (AlertQueued' <=> AlertQueued)
    BY <2>1 DEF AlertRaised, AlertQueued
  <2>3. AlertInv'
    BY <1>f, <1>n, <2>1, <2>2 DEF AlertInv, AlertConserved, HoldIsFree, AllJustified, Justified,
                                  configVars
  <2> QED
    BY <1>f, <2>1, <2>2, <2>3 DEF Stutter, AlertPhase, AlertPosition
<1>2. CASE CoordinatesEvaluate
  <2>1. /\ co_pc = "evaluate" /\ UNCHANGED <<queue_sms, sms_hold, new_coordinate>>
        /\ \/ co_pc' = "hold" /\ MustAlert(new_coordinate)
           \/ co_pc' = "receive"
    BY <1>2 DEF CoordinatesEvaluate
  <2>2. ~AlertRaised /\ ~AlertRaised' /\ (AlertQueued' <=> AlertQueued)
    BY <2>1 DEF AlertRaised, AlertQueued
  <2>3. co_pc' = "hold" => Justified(new_coordinate) /\ sms_hold = 0
    BY <2>1 DEF MustAlert, Justified, AlertInv, NumberFirst
  <2>4. AlertInv'
    BY <1>f, <1>n, <2>1, <2>2, <2>3 DEF AlertInv, AlertConserved, HoldIsFree, AllJustified,
                                        Justified, configVars
  <2> QED
    BY <1>f, <2>1, <2>2, <2>4 DEF Stutter, AlertPhase, AlertPosition
<1>3. CASE CoordinatesHold
  <2>1. /\ co_pc = "hold" /\ co_pc' = "send" /\ sms_hold' = 1
        /\ UNCHANGED <<queue_sms, new_coordinate>>
    BY <1>3 DEF CoordinatesHold
  <2>2. sms_hold = 0 /\ ~AlertRaised /\ AlertRaised' /\ (AlertQueued' <=> AlertQueued)
    BY <2>1 DEF AlertInv, HoldIsFree, AlertRaised, AlertQueued
  <2>3. ~AlertQueued /\ ~AlertAtGsm
    BY <2>2 DEF AlertInv, AlertConserved
  <2>4. AlertInv'
    BY <1>f, <1>n, <2>1, <2>2, <2>3 DEF AlertInv, AlertConserved, HoldIsFree, AllJustified,
                                        Justified, configVars
  <2>5. AlertPhase = "armed" /\ AlertPhase' = "raised" /\ AlertPosition' = new_coordinate
    BY <2>1, <2>2, <2>3 DEF AlertPhase, AlertPosition
  <2>6. new_coordinate \in Outside
    BY <2>1 DEF AlertInv, AllJustified, Justified
  <2>7. Cycle!Raise
    BY <2>5, <2>6 DEF Cycle!Raise
  <2> QED
    BY <2>4, <2>7 DEF Cycle!AlertCycleNext
<1>4. CASE CoordinatesSend
  <2>1. /\ co_pc = "send" /\ co_pc' = "receive" /\ UNCHANGED <<sms_hold, new_coordinate>>
        /\ queue_sms' = IF queue_sms = <<>> THEN <<new_coordinate>> ELSE queue_sms
    BY <1>4 DEF CoordinatesSend
  <2>2. AlertRaised /\ ~AlertRaised' /\ ~AlertQueued /\ ~AlertAtGsm
    BY <2>1 DEF AlertInv, AlertConserved, AlertRaised
  <2>3. queue_sms' = <<new_coordinate>> /\ AlertQueued'
    BY <2>1, <2>2 DEF AlertQueued
  <2>4. Head(queue_sms') = new_coordinate
    BY <2>3
  <2>5. AlertInv'
    BY <1>f, <1>n, <2>1, <2>2, <2>3, <2>4 DEF AlertInv, AlertConserved, HoldIsFree,
                                              AllJustified, Justified, configVars
  <2>6. Stutter
    BY <2>2, <2>3, <2>4 DEF Stutter, AlertPhase, AlertPosition
  <2> QED
    BY <2>5, <2>6
<1> QED
  BY <1>1, <1>2, <1>3, <1>4 DEF CoordinatesTask

(* Taking and giving the mutex: a give ends the stage "texted".             *)
LEMMA MutexAlert ==
    ASSUME TypeOK, AlertInv, NEW t \in Tasks, TaskTake(t) \/ TaskGive(t)
    PROVE  AlertInv' /\ Simulated
<1> USE DEF Simulated
<1>f. UNCHANGED <<status, configVars, coordVars, alertVars>>
  BY DEF TaskTake, TaskGive
<1>1. CASE t = "gps"
  <2>1. UNCHANGED pc["gsm"]
    BY <1>1 DEF TaskTake, TaskGive, TypeOK, TrackerTypeOK, Tasks
  <2> QED
    BY <1>f, <2>1, GsmStays
<1>2. CASE t = "gsm" /\ TaskTake("gsm")
  <2>1. pc'["gsm"] = "delay"
    BY <1>2 DEF TaskTake, TypeOK, TrackerTypeOK
  <2>2. \/ status["gsm"] \in TakingCases
        \/ At("gsm", "SEND_SMS_1", "coord")
    BY <1>2 DEF TaskTake
  <2>3. /\ AlertAtGsm' <=> AlertAtGsm
        /\ GsmPaused' <=> GsmPaused
        /\ GsmTexted' <=> GsmTexted
    BY <1>f, <2>1, <2>2 DEF AlertAtGsm, GsmPaused, GsmTexted, At, TakingCases
  <2>4. ConfigGrows /\ NumberFirst' /\ CoordPlace'
    BY <1>f, <2>1 DEF AlertInv, ConfigGrows, NumberFirst, CoordPlace, configVars
  <2> QED
    BY <1>f, <2>3, <2>4, NoAlertMoves
<1>3. CASE t = "gsm" /\ TaskGive("gsm")
  <2>1. pc["gsm"] = "give" /\ pc'["gsm"] = "case"
    BY <1>3 DEF TaskGive, TypeOK, TrackerTypeOK
  <2>2. ConfigGrows /\ NumberFirst' /\ CoordPlace' /\ (AlertAtGsm' <=> AlertAtGsm)
    BY <1>f, <2>1 DEF AlertInv, ConfigGrows, NumberFirst, CoordPlace, configVars, AlertAtGsm
  <2>3. CASE status["gsm"] # "NEXT"
    <3>1. (GsmPaused' <=> GsmPaused) /\ (GsmTexted' <=> GsmTexted)
      BY <1>f, <2>1, <2>3 DEF GsmPaused, GsmTexted
    <3> QED
      BY <1>f, <2>2, <3>1, NoAlertMoves
  <2>4. CASE status["gsm"] = "NEXT"
    <3>1. AlertAtGsm /\ ~AlertRaised /\ ~AlertQueued
      BY <2>4 DEF AlertAtGsm, AlertInv, AlertConserved
    <3>2. AlertAtGsm' /\ ~AlertRaised' /\ ~AlertQueued'
      BY <1>f, <2>2, <3>1 DEF AlertRaised, AlertQueued, coordVars, alertVars
    <3>3. AlertInv'
      BY <1>f, <2>2, <3>1, <3>2 DEF AlertInv, AlertConserved, HoldIsFree, AllJustified,
                                    Justified, coordVars, alertVars, configVars
    <3>4. AlertPhase = "texted" /\ AlertPhase' = "pause" /\ UNCHANGED AlertPosition
      BY <1>f, <2>1, <2>4, <3>1, <3>2 DEF AlertPhase, AlertPosition, GsmPaused, GsmTexted,
                                          alertVars
    <3>5. Cycle!Pause
      BY <3>4 DEF Cycle!Pause, Cycle!Step
    <3> QED
      BY <3>3, <3>5 DEF Cycle!AlertCycleNext
  <2> QED
    BY <2>3, <2>4
<1> QED
  BY <1>1, <1>2, <1>3 DEF Tasks

(* The initial states satisfy the invariant, and map to an armed cycle.     *)
LEMMA InitAlert == Init => AlertInv /\ Cycle!AlertCycleInit
<1> SUFFICES ASSUME Init PROVE AlertInv /\ Cycle!AlertCycleInit
  OBVIOUS
<1>1. status["gsm"] = "DISABLE_ECHO" /\ pc["gsm"] = "case"
  BY DEF Init, Tasks
<1>2. ~AlertRaised /\ ~AlertQueued /\ ~AlertAtGsm
  BY <1>1 DEF Init, AlertRaised, AlertQueued, AlertAtGsm
<1>3. AlertInv
  BY <1>1, <1>2 DEF Init, AlertInv, AlertConserved, HoldIsFree, AllJustified, NumberFirst,
                    CoordPlace
<1> QED
  BY <1>2, <1>3 DEF AlertPhase, AlertPosition, Cycle!AlertCycleInit

(* Every step keeps the invariant and is a step of the cycle or none.       *)
LEMMA NextAlert ==
    ASSUME TypeOK, AlertInv, [Next]_vars
    PROVE  AlertInv' /\ [Cycle!AlertCycleNext]_<<AlertPhase, AlertPosition>>
<1>1. CASE UNCHANGED vars
  <2>1. UNCHANGED <<status["gsm"], pc["gsm"], configVars, coordVars, alertVars>>
    BY <1>1 DEF vars, taskVars
  <2> QED
    BY <2>1, GsmStays DEF Stutter
<1>2. CASE Next
  BY <1>2, GsmAlert, GpsAlert, CoordinatesAlert, AirAlert, MutexAlert
     DEF Next, Simulated, Stutter
<1> QED
  BY <1>1, <1>2

(***************************************************************************)
(* However the modem, the line and the scheduler behave, sms_hold is 1     *)
(* exactly while one alert is on its way through task_coordinates,         *)
(* queue_sms or task_gsm: none is lost to a full queue, none is doubled.   *)
(***************************************************************************)
THEOREM AlertsConserved == Safety => []AlertConserved
<1>1. AlertInv => AlertConserved
  BY DEF AlertInv
<1> QED
  BY <1>1, InitAlert, NextAlert, TypeCorrect, PTL DEF Safety

(***************************************************************************)
(* No text message is started without a position outside the zone, a       *)
(* registered modem, a loaded configuration and a telephone number.        *)
(***************************************************************************)
THEOREM AlertsJustified == Safety => []AlertJustified
<1>1. AlertInv => AlertJustified
  BY DEF AlertInv, AllJustified, Justified, AlertJustified
<1> QED
  BY <1>1, InitAlert, NextAlert, TypeCorrect, PTL DEF Safety

(***************************************************************************)
(* The four tasks, their queues and their mutex implement the alert cycle: *)
(* one alert at a time, for one position, raised, taken, texted, paused.   *)
(***************************************************************************)
THEOREM Refinement == Safety => ImplementsAlertCycle
<1> USE DEF Cycle!alertCycleVars
<1> QED
  BY InitAlert, NextAlert, TypeCorrect, PTL
     DEF Safety, ImplementsAlertCycle, Cycle!AlertCycleSafety
=============================================================================
