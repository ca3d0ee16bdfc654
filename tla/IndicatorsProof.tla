---------------------------- MODULE IndicatorsProof ----------------------------
(***************************************************************************)
(* Proofs about Indicators: the types, and that task_led, which reads the  *)
(* flags one after the other while their owners write them, never decides  *)
(* for a colour that was wrong all along, unless the fix was lost in the   *)
(* meantime.                                                               *)
(***************************************************************************)
EXTENDS Indicators, TLAPS

(* The colour meant is one of the colours.                                  *)
LEMMA MeantType == Meant \in Colours
  BY DEF Meant, Colours

(* The types, for the flags and for each of the tasks.                      *)
FlagTypes ==
    /\ gps_status \in {"ONLINE", "OFFLINE"} /\ gsm_status \in {"ONLINE", "OFFLINE"}
    /\ device_status \in BOOLEAN

LedTypes ==
    /\ led \in {"delay", "gps 1", "gsm 1", "gps 2", "gsm 2", "device", "set"}
    /\ colour \in Colours /\ queue_rgb \in Colours \cup {None} /\ shown \in Colours
    /\ allowed \subseteq Colours

AdcTypes ==
    /\ low \in BOOLEAN /\ converting \in BOOLEAN /\ queue_adc \in {None, "low", "good"}
    /\ adc \in {"soc", "receive", "alarm"}

BuzzerTypes ==
    /\ queue_buzzer \in {None, "BUZZER_OFF", "LOW_BAT"}
    /\ buzzer \in 0..4 /\ buzzer_pin \in {0, 1}

LEMMA TypeParts ==
    /\ TypeOK <=> FlagTypes /\ LedTypes /\ AdcTypes /\ BuzzerTypes
    /\ TypeOK' <=> FlagTypes' /\ LedTypes' /\ AdcTypes' /\ BuzzerTypes'
  BY Zenon DEF TypeOK, FlagTypes, LedTypes, AdcTypes, BuzzerTypes

(* What a step leaves alone keeps its types.                                *)
LEMMA TypesKept ==
    /\ FlagTypes /\ UNCHANGED flags => FlagTypes'
    /\ LedTypes /\ UNCHANGED <<ledVars, allowed>> => LedTypes'
    /\ AdcTypes /\ UNCHANGED <<low, converting, queue_adc, adc>> => AdcTypes'
    /\ BuzzerTypes /\ UNCHANGED <<queue_buzzer, buzzer, buzzer_pin>> => BuzzerTypes'
<1>1. FlagTypes /\ UNCHANGED flags => FlagTypes'
  BY DEF FlagTypes, flags
<1>2. LedTypes /\ UNCHANGED <<ledVars, allowed>> => LedTypes'
  BY DEF LedTypes, ledVars
<1>3. AdcTypes /\ UNCHANGED <<low, converting, queue_adc, adc>> => AdcTypes'
  BY DEF AdcTypes
<1>4. BuzzerTypes /\ UNCHANGED <<queue_buzzer, buzzer, buzzer_pin>> => BuzzerTypes'
  BY DEF BuzzerTypes
<1> QED
  BY <1>1, <1>2, <1>3, <1>4

(* Every step keeps the variables in their ranges.                          *)
LEMMA TypeStep ==
    ASSUME FlagTypes, LedTypes, AdcTypes, BuzzerTypes, [Next]_vars
    PROVE  FlagTypes' /\ LedTypes' /\ AdcTypes' /\ BuzzerTypes'
<1> USE DEF flags, ledVars, alarmVars
<1>1. CASE UNCHANGED vars
  BY <1>1, TypesKept DEF vars
<1>2. CASE Flags
  <2>1. Meant' \in Colours
    BY DEF Meant, Colours
  <2>2. LedTypes'
    BY <1>2, <2>1 DEF Flags, LedTypes
  <2>3. FlagTypes'
    BY <1>2 DEF Flags, FlagTypes
  <2> QED
    BY <1>2, <2>2, <2>3, TypesKept DEF Flags
<1>3. CASE Task_led
  <2>1. LedTypes'
    <3>1. CASE WakeLed
      BY <3>1, MeantType DEF WakeLed, Look, LedTypes
    <3>2. CASE ReadFlag
      <4>1. led' \in {"gsm 1", "gps 2", "gsm 2", "device", "set"} /\ colour' \in Colours
        BY <3>2 DEF ReadFlag, Look, Decide, Compare, Colours, LedTypes
      <4> QED
        BY <3>2, <4>1 DEF ReadFlag, LedTypes
    <3>3. CASE SetLed
      BY <3>3 DEF SetLed, Offered, Colours, LedTypes
    <3> QED
      BY <1>3, <3>1, <3>2, <3>3 DEF Task_led
  <2>2. UNCHANGED <<flags, alarmVars>>
    BY <1>3 DEF Task_led, WakeLed, ReadFlag, SetLed
  <2> QED
    BY <2>1, <2>2, TypesKept
<1>4. CASE Task_rgb
  <2>1. LedTypes'
    BY <1>4 DEF Task_rgb, Lit, LedTypes
  <2> QED
    BY <1>4, <2>1, TypesKept DEF Task_rgb
<1>5. CASE Battery
  <2>1. AdcTypes'
    BY <1>5 DEF Battery, AdcTypes
  <2> QED
    BY <1>5, <2>1, TypesKept DEF Battery
<1>6. CASE ADC_IRQHandler
  <2>1. AdcTypes'
    BY <1>6 DEF ADC_IRQHandler, Offered, AdcTypes
  <2> QED
    BY <1>6, <2>1, TypesKept DEF ADC_IRQHandler
<1>7. CASE Task_adc
  <2>1. AdcTypes'
    BY <1>7 DEF Task_adc, AdcTypes
  <2>2. BuzzerTypes'
    BY <1>7 DEF Task_adc, Offered, BuzzerTypes
  <2> QED
    BY <1>7, <2>1, <2>2, TypesKept DEF Task_adc
<1>8. CASE Task_buzzer
  <2>1. buzzer > 0 => (Beeps - buzzer) % 2 \in {0, 1} /\ buzzer - 1 \in 0..4
    BY SMTT(30) DEF Beeps, BuzzerTypes
  <2>2. BuzzerTypes'
    BY <1>8, <2>1 DEF Task_buzzer, Beeps, BuzzerTypes
  <2> QED
    BY <1>8, <2>2, TypesKept DEF Task_buzzer
<1> QED
  BY <1>1, <1>2, <1>3, <1>4, <1>5, <1>6, <1>7, <1>8 DEF Next

(***************************************************************************)
(* The tasks of the LED, the ADC and the buzzer keep their types, their    *)
(* queues of one place and the count of the beeps among them.              *)
(***************************************************************************)
THEOREM IndicatorsTypeCorrect == Spec => []TypeOK
<1>1. Init => TypeOK
  <2> SUFFICES ASSUME Init PROVE FlagTypes /\ LedTypes /\ AdcTypes /\ BuzzerTypes
    BY TypeParts
  <2>1. FlagTypes /\ BuzzerTypes
    BY DEF Init, FlagTypes, BuzzerTypes, AtBoot
  <2>2. LedTypes
    BY DEF Init, LedTypes, Colours
  <2>3. AdcTypes
    BY DEF Init, AdcTypes
  <2> QED
    BY <2>1, <2>2, <2>3
<1>2. TypeOK /\ [Next]_vars => TypeOK'
  BY TypeStep, TypeParts
<1> QED
  BY <1>1, <1>2, PTL DEF Spec

-----------------------------------------------------------------------------
(* What task_led has learnt, at each of its reads.                          *)

FixLost == Colours \ {"RED", "YELLOW"}      \* what a fix lost in the round allows

(* The colour meant now is allowed; a flag read before and not to be read   *)
(* again either is as it was read or allows what will be decided from it.   *)
(* (gsm_status never goes back to "OFFLINE".)                               *)
LedInv ==
    /\ led # "delay" => Meant \in allowed
    /\ led = "gsm 1" /\ gsm_status = "OFFLINE" => "RED" \in allowed
    /\ led = "gps 2" /\ gps_status = "OFFLINE" => "BLUE" \in allowed
    /\ led = "gsm 2" /\ gsm_status = "OFFLINE" => "YELLOW" \in allowed
    /\ led \in {"gsm 2", "device"} /\ gps_status = "OFFLINE" => FixLost \subseteq allowed
    /\ led = "device" => gsm_status = "ONLINE"
    /\ led = "set" => colour \in allowed

(* No flag that changes and no read of task_led breaks it.                  *)
LEMMA LedStep ==
    ASSUME TypeOK, LedInv, [Next]_vars
    PROVE  LedInv'
<1> USE DEF flags, ledVars
<1>1. ASSUME UNCHANGED <<flags, led, colour, allowed>>
      PROVE  LedInv'
  BY <1>1 DEF LedInv, Meant
<1>2. CASE Flags
  <2>1. led' = led /\ colour' = colour
    BY <1>2 DEF Flags
  <2>2. CASE led = "delay"
    BY <2>1, <2>2 DEF LedInv
  <2>3. CASE led # "delay"
    <3>1. /\ allowed \subseteq allowed' /\ Meant' \in allowed'
          /\ gps_status = "ONLINE" /\ gps_status' = "OFFLINE" => FixLost \subseteq allowed'
      BY <1>2, <2>3 DEF Flags, FixLost
    <3>2. /\ gsm_status' = "OFFLINE" => gsm_status = "OFFLINE"
          /\ gps_status \in {"ONLINE", "OFFLINE"}
      BY <1>2 DEF Flags, TypeOK
    <3>3. "BLUE" \in FixLost
      BY DEF FixLost, Colours
    <3>4. gsm_status = "ONLINE" => gsm_status' = "ONLINE"
      BY <1>2 DEF Flags
    <3> QED
      BY <2>1, <2>3, <3>1, <3>2, <3>3, <3>4 DEF LedInv
  <2> QED
    BY <2>2, <2>3
<1>3. CASE WakeLed
  BY <1>3 DEF WakeLed, Look, LedInv, Meant
<1>4. CASE ReadFlag
  <2>0. /\ UNCHANGED <<gps_status, gsm_status, device_status, allowed>>
        /\ Meant' = Meant /\ led # "delay" /\ led' # "delay" /\ Meant \in allowed
    BY <1>4 DEF ReadFlag, Look, Decide, Compare, LedInv, Meant
  <2>1. CASE led = "gps 1"
    BY <1>4, <2>0, <2>1 DEF ReadFlag, Look, Decide, Compare, LedInv, Meant, TypeOK
  <2>2. CASE led = "gsm 1"
    BY <1>4, <2>0, <2>2 DEF ReadFlag, Look, Decide, Compare, LedInv, Meant, TypeOK
  <2>3. CASE led = "gps 2"
    BY <1>4, <2>0, <2>3 DEF ReadFlag, Look, Decide, Compare, LedInv, Meant, TypeOK
  <2>4. CASE led = "gsm 2"
    BY <1>4, <2>0, <2>4 DEF ReadFlag, Look, Decide, Compare, LedInv, Meant, TypeOK
  <2>5. CASE led = "device"
    <3>1. led' = "set" /\ colour' = IF device_status THEN "GREEN" ELSE "MAGENTA"
      BY <1>4, <2>5 DEF ReadFlag, Decide
    <3>2. {"GREEN", "MAGENTA"} \subseteq FixLost
      BY DEF FixLost, Colours
    <3>3. gps_status = "ONLINE" => Meant = IF device_status THEN "GREEN" ELSE "MAGENTA"
      BY <2>5 DEF LedInv, Meant
    <3> QED
      BY <2>0, <2>5, <3>1, <3>2, <3>3 DEF LedInv, TypeOK
  <2> QED
    BY <1>4, <2>1, <2>2, <2>3, <2>4, <2>5 DEF ReadFlag
<1>5. CASE SetLed
  BY <1>5 DEF SetLed, LedInv
<1>6. CASE \/ Task_rgb \/ Battery \/ ADC_IRQHandler \/ Task_adc \/ Task_buzzer
           \/ UNCHANGED vars
  BY <1>1, <1>6 DEF Task_rgb, Battery, ADC_IRQHandler, Task_adc, Task_buzzer, vars
<1> QED
  BY <1>2, <1>3, <1>4, <1>5, <1>6 DEF Next, Task_led

(***************************************************************************)
(* However the flags change between the reads of task_led, the colour it   *)
(* chooses was right at some moment of the round, or the fix was lost in   *)
(* it and the colour is neither red nor yellow.                            *)
(***************************************************************************)
THEOREM WrongOnlyIfLostCorrect == Spec => []WrongOnlyIfLost
<1>1. Init => LedInv
  BY DEF Init, LedInv
<1>2. TypeOK /\ LedInv /\ [Next]_vars => LedInv'
  BY LedStep
<1>3. LedInv => WrongOnlyIfLost
  BY DEF LedInv, WrongOnlyIfLost
<1> QED
  BY <1>1, <1>2, <1>3, IndicatorsTypeCorrect, PTL DEF Spec
=============================================================================
