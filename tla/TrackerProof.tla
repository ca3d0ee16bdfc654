----------------------------- MODULE TrackerProof -----------------------------
(***************************************************************************)
(* Type correctness of Tracker, for any sets of positions, any faults and  *)
(* any number of them, and the ownership of mutex_sim808: until an AT+CMGS *)
(* is left without its prompt, each Give ends the exchange that a Take of  *)
(* the same task began.                                                    *)
(*                                                                         *)
(* The lemmas about types follow the modules: what the modem says is made  *)
(* of tokens, what task_sim808_receive queues is a response, and each case *)
(* of a task's switch leads to a status of the same switch.                *)
(***************************************************************************)
EXTENDS Tracker, SequenceTheorems, TLAPS

(* Concatenation stays in the set of sequences.                            *)
LEMMA ConcatType ==
    ASSUME NEW S, NEW s \in Seq(S), NEW t \in Seq(S)
    PROVE  s \o t \in Seq(S)
  OBVIOUS

(* Tokens built by the operators of Sim808 are tokens.                     *)
LEMMA TokenType ==
    /\ NL \in Tokens
    /\ \A t \in Texts, f \in Fixes, c \in Commands \cup {None} : Token(t, f, c) \in Tokens
    /\ NoFix \in Fixes
  BY DEF NL, Token, Tokens, Fixes

(* A line is a sequence of tokens.                                         *)
LEMMA LineType ==
    ASSUME NEW t \in Texts, NEW c \in Commands \cup {None}
    PROVE  Line(t, c) \in Seq(Tokens)
<1> DEFINE x == Token(t, NoFix, c)
<1>1. x \in Tokens /\ NL \in Tokens
  BY TokenType
<1>2. <<NL, x, NL>> \in Seq(Tokens)
  <2> HIDE DEF x
  <2> QED BY <1>1
<1> QED
  BY <1>2 DEF Line

(* So is a frame with a position.                                          *)
LEMMA FrameType ==
    ASSUME NEW f \in Fixes
    PROVE  Frame(f) \in Seq(Tokens)
<1> DEFINE x == Token("+CGPSINF:", f, "AT+CGPSINF")
<1>1. x \in Tokens /\ NL \in Tokens
  BY TokenType DEF Texts, Commands, Queries
<1>2. <<NL, x, NL>> \in Seq(Tokens)
  <2> HIDE DEF x
  <2> QED BY <1>1
<1> QED
  BY <1>2 DEF Frame

(* The messages AT+CMGL lists, however many, are made of tokens.            *)
LEMMA ListingType ==
    ASSUME NEW n \in Nat
    PROVE  Listing(n) \in Seq(Tokens)
<1>1. "AT+CMGL" \in Commands \cup {None} /\ NoFix \in Fixes
  BY TokenType DEF Commands, Queries
<1>2. \A i : Header(i) \in Texts
  BY DEF Header, Texts
<1>3. \A i : Token(Header(i), NoFix, "AT+CMGL") \in Tokens
  BY <1>1, <1>2, TokenType
<1>4. Token("zone", NoFix, "AT+CMGL") \in Tokens /\ NL \in Tokens
  BY <1>1, TokenType DEF Texts
<1> DEFINE tok(k) == CASE k % 5 = 2 -> Token(Header((k + 3) \div 5), NoFix, "AT+CMGL")
                       [] k % 5 = 4 -> Token("zone", NoFix, "AT+CMGL")
                       [] OTHER     -> NL
<1>5. \A k : tok(k) \in Tokens
  BY <1>3, <1>4
<1>6. Listing(n) = [k \in 1..5 * n |-> tok(k)]
  BY DEF Listing
<1> HIDE DEF tok
<1>7. 5 * n \in Nat
  OBVIOUS
<1> QED
  BY <1>5, <1>6, <1>7

(* What the modem says is made of tokens.                                   *)
LEMMA AnswersType ==
    ASSUME Sim808TypeOK, NEW c \in Commands, NEW a \in Answers(c)
    PROVE  a \in Seq(Tokens)
<1>1. \A t \in Texts : Line(t, c) \in Seq(Tokens)
  BY LineType
<1>2. \A t \in {"OK", "+CREG: 0,1", "Location 3D Fix"} : Line(t, c) \in Seq(Tokens)
  BY <1>1 DEF Texts
<1>3. Listing(inbox) \in Seq(Tokens)
  BY ListingType, Sim808Assumption DEF Sim808TypeOK
<1>4. \A f \in Coordinates : Frame(f) \o Line("OK", c) \in Seq(Tokens)
  BY <1>2, FrameType, ConcatType DEF Fixes
<1>5. /\ Line("+CREG: 0,1", c) \o Line("OK", c) \in Seq(Tokens)
      /\ Line("Location 3D Fix", c) \o Line("OK", c) \in Seq(Tokens)
  BY <1>2, ConcatType
<1>6. Listing(inbox) \o Line("OK", c) \in Seq(Tokens)
  BY <1>2, <1>3, ConcatType
<1> QED
  BY <1>2, <1>4, <1>5, <1>6, Zenon DEF Answers

(* The disappointing answers are made of tokens too.                       *)
LEMMA RefusalsType ==
    ASSUME NEW c \in Commands, NEW a \in Refusals(c)
    PROVE  a \in Seq(Tokens)
<1>1. Line("other", c) \in Seq(Tokens) /\ Line("OK", c) \in Seq(Tokens)
  BY LineType DEF Texts
<1>2. Frame(NoFix) \in Seq(Tokens)
  BY FrameType, TokenType
<1>3. /\ Line("other", c) \o Line("OK", c) \in Seq(Tokens)
      /\ Frame(NoFix) \o Line("OK", c) \in Seq(Tokens)
  BY <1>1, <1>2, ConcatType
<1> QED
  BY <1>1, <1>3 DEF Refusals

(* The budget of faults stays in its range. *)
LEMMA FaultType ==
    ASSUME budget \in 0..MaxFaults, NEW kind, Fault(kind) \/ UNCHANGED budget
    PROVE  budget' \in 0..MaxFaults
  BY Sim808Assumption DEF Fault

(* The end of a delay spends at most what is left of the budget.           *)
LEMMA ElapsedType ==
    ASSUME budget \in 0..MaxFaults, Elapsed
    PROVE  budget' \in 0..MaxFaults
  BY FaultType DEF Elapsed

ModemStep == \/ Modem \/ ModemOnItsOwn

(* A step of the modem keeps the modem's variables well typed. *)
LEMMA ModemType ==
    ASSUME Sim808TypeOK, ModemStep
    PROVE  Sim808TypeOK'
<1>1. CASE ModemAnswer
  <2>1. command \in Commands
    BY <1>1 DEF ModemAnswer, Sim808TypeOK
  <2>2. uart_rx' \in Seq(Tokens)
    BY <1>1, <2>1, AnswersType, RefusalsType, ConcatType DEF ModemAnswer, Say, Sim808TypeOK
  <2>3. budget' \in 0..MaxFaults
    BY <1>1, FaultType DEF ModemAnswer, Sim808TypeOK
  <2>4. inbox' \in 0..MaxStored
    BY <1>1, Sim808Assumption DEF ModemAnswer, Sim808TypeOK
  <2>5. crowded' \in BOOLEAN
    BY <1>1 DEF ModemAnswer, Sim808TypeOK
  <2> QED
    BY <1>1, <2>2, <2>3, <2>4, <2>5 DEF ModemAnswer, Sim808TypeOK
<1>2. CASE ModemPrompt(phone_number = "owner")
  <2> DEFINE x == Token(">", NoFix, command)
  <2>1. command \in Commands \cup {None}
    BY DEF Sim808TypeOK
  <2>2. <<NL, x>> \in Seq(Tokens)
    <3>1. x \in Tokens /\ NL \in Tokens
      BY <2>1, TokenType DEF Texts
    <3> HIDE DEF x
    <3> QED BY <3>1
  <2>3. Line("other", command) \in Seq(Tokens)
    BY <2>1, LineType DEF Texts
  <2>4. uart_rx' \in Seq(Tokens)
    BY <1>2, <2>2, <2>3, ConcatType DEF ModemPrompt, Say, Sim808TypeOK
  <2>5. budget' \in 0..MaxFaults
    BY <1>2, FaultType DEF ModemPrompt, Sim808TypeOK
  <2> QED
    BY <1>2, <2>4, <2>5 DEF ModemPrompt, Sim808TypeOK
<1>3. CASE ModemSend
  <2>1. command \in Commands \cup {None}
    BY DEF Sim808TypeOK
  <2>2. /\ Line("+CMGS:", command) \in Seq(Tokens)
        /\ Line("OK", command) \in Seq(Tokens)
        /\ Line("other", command) \in Seq(Tokens)
    BY <2>1, LineType DEF Texts
  <2>3. Line("+CMGS:", command) \o Line("OK", command) \in Seq(Tokens)
    BY <2>2, ConcatType
  <2>4. uart_rx' \in Seq(Tokens)
    BY <1>3, <2>2, <2>3, ConcatType, ZenonT(60) DEF ModemSend, Say, Sim808TypeOK
  <2>5. budget' \in 0..MaxFaults
    BY <1>3, FaultType DEF ModemSend, Sim808TypeOK
  <2> QED
    BY <1>3, <2>4, <2>5 DEF ModemSend, Sim808TypeOK
<1>4. CASE ModemSwallow
  <2> DEFINE x == Token(">", NoFix, command)
  <2>1. command \in Commands \cup {None}
    BY DEF Sim808TypeOK
  <2>2. <<NL, x>> \in Seq(Tokens) /\ << >> \in Seq(Tokens)
    <3>1. x \in Tokens /\ NL \in Tokens
      BY <2>1, TokenType DEF Texts
    <3> HIDE DEF x
    <3> QED BY <3>1
  <2>3. uart_rx' \in Seq(Tokens)
    BY <1>4, <2>2, ConcatType, ZenonT(120) DEF ModemSwallow, Say, Sim808TypeOK
  <2> QED
    BY <1>4, <2>3 DEF ModemSwallow, Sim808TypeOK
<1>5. CASE ModemSilent
  <2>1. budget' \in 0..MaxFaults
    BY <1>5, FaultType DEF ModemSilent, Sim808TypeOK
  <2> QED
    BY <1>5, <2>1 DEF ModemSilent, Sim808TypeOK
<1>6. CASE ModemReady(status["gsm"] = "SMS_READY")
  <2>1. Line("SMS Ready", None) \in Seq(Tokens)
    BY LineType DEF Texts
  <2>2. uart_rx' \in Seq(Tokens)
    BY <1>6, <2>1, ConcatType DEF ModemReady, Say, Sim808TypeOK
  <2>3. budget' \in 0..MaxFaults
    BY <1>6, FaultType DEF ModemReady, Sim808TypeOK
  <2> QED
    BY <1>6, <2>2, <2>3 DEF ModemReady, Sim808TypeOK
<1>7. CASE ModemUnsolicited
  <2>1. Line("other", None) \in Seq(Tokens)
    BY LineType DEF Texts
  <2>2. uart_rx' \in Seq(Tokens)
    BY <1>7, <2>1, ConcatType DEF ModemUnsolicited, Say, Sim808TypeOK
  <2>3. budget' \in 0..MaxFaults
    BY <1>7, FaultType DEF ModemUnsolicited, Sim808TypeOK
  <2> QED
    BY <1>7, <2>2, <2>3 DEF ModemUnsolicited, Sim808TypeOK
<1>8. CASE ModemMessage
  BY <1>8, Sim808Assumption DEF ModemMessage, Sim808TypeOK
<1> QED
  BY <1>1, <1>2, <1>3, <1>4, <1>5, <1>6, <1>7, <1>8 DEF ModemStep, Modem, ModemOnItsOwn

(* A step of task_sim808_receive keeps every variable well typed. *)
LEMMA ReceiveType ==
    ASSUME Sim808TypeOK, ReceiveTypeOK, Receive
    PROVE  Sim808TypeOK' /\ ReceiveTypeOK'
<1> USE DEF Sim808TypeOK, ReceiveTypeOK, Receive, RxByte, rxVars, AtNL, AtText, ConsumeToken
<1>1. uart_rx # <<>> => Head(uart_rx) \in Tokens /\ Tail(uart_rx) \in Seq(Tokens)
  OBVIOUS
<1>2. ASSUME AtText
      PROVE  Capture(Head(uart_rx)) \in Responses
  BY <1>1, <1>2 DEF Capture, Size, Responses, Tokens
<1>3. last_response \in Responses /\ [last_response EXCEPT !.size = 0] \in Responses
  BY DEF Responses
<1>4. CASE RxLineStart
  BY <1>1, <1>3, <1>4 DEF RxLineStart
<1>5. CASE RxSkip
  BY <1>1, <1>5 DEF RxSkip
<1>6. CASE RxText
  BY <1>1, <1>2, <1>6 DEF RxText
<1>7. CASE RxPrompt
  <2> DEFINE x == Capture(Head(uart_rx))
  <2>1. x \in Responses
    BY <1>2, <1>7 DEF RxPrompt
  <2>2. queue_sim808' = Append(queue_sim808, x) /\ Len(queue_sim808) < SimLength
    BY <1>7 DEF RxPrompt, SimRoom
  <2> HIDE DEF x
  <2>3. queue_sim808' \in Seq(Responses) /\ Len(queue_sim808') <= SimLength
    BY <2>1, <2>2 DEF SimLength
  <2> QED
    BY <1>1, <1>7, <2>1, <2>3 DEF RxPrompt, x
<1>8. CASE RxLineEnd
  <2>1. queue_sim808' \in Seq(Responses) /\ Len(queue_sim808') <= SimLength
    BY <1>3, <1>8 DEF RxLineEnd, SimRoom, SimLength
  <2> QED
    BY <1>8, <2>1 DEF RxLineEnd
<1>9. CASE RxAfterLine
  BY <1>1, <1>3, <1>9 DEF RxAfterLine
<1>10. CASE RxClear
  BY <1>10 DEF RxClear
<1> QED
  BY <1>4, <1>5, <1>6, <1>7, <1>8, <1>9, <1>10

-----------------------------------------------------------------------------
(* The building blocks of the two big tasks.                                *)

StatusesOf(t) == IF t = "gsm" THEN GsmStatuses ELSE GpsStatuses

TaskTypeOK == /\ status \in [Tasks -> GsmStatuses \cup GpsStatuses]
              /\ status["gsm"] \in GsmStatuses /\ status["gps"] \in GpsStatuses
              /\ pc \in [Tasks -> PCs]

(* A jump of a task stays in its statuses.                                 *)
LEMMA GotoType ==
    ASSUME TaskTypeOK, NEW t \in Tasks, NEW s \in StatusesOf(t), NEW p \in PCs, Goto(t, s, p)
    PROVE  TaskTypeOK'
<1>1. s \in GsmStatuses \cup GpsStatuses
  BY DEF StatusesOf
<1>2. /\ status' \in [Tasks -> GsmStatuses \cup GpsStatuses]
      /\ pc' \in [Tasks -> PCs]
  BY <1>1 DEF TaskTypeOK, Goto
<1>3. status'["gsm"] \in GsmStatuses /\ status'["gps"] \in GpsStatuses
  BY DEF TaskTypeOK, Goto, StatusesOf, Tasks
<1> QED
  BY <1>2, <1>3 DEF TaskTypeOK

(* A command sent keeps the types of the modem and of the two big tasks.   *)
LEMMA SendType ==
    ASSUME TypeOK, NEW t \in Tasks, NEW p, NEW case, NEW c \in Commands,
           NEW next \in StatusesOf(t), Send(t, p, case, c, next), sms_check' \in {0, 1}
    PROVE  TypeOK'
<1>1. Sim808TypeOK'
  <2>1. budget' \in 0..MaxFaults
    BY ElapsedType DEF TypeOK, Sim808TypeOK, Send
  <2> QED
    BY <2>1 DEF TypeOK, Sim808TypeOK, Send, Accept
<1>2. ReceiveTypeOK'
  BY DEF TypeOK, ReceiveTypeOK, Send, Emptied, rxVars, SimLength
<1>3. TaskTypeOK'
  <2>1. TaskTypeOK /\ Goto(t, next, "case")
    BY DEF TypeOK, TrackerTypeOK, TaskTypeOK, Send
  <2> QED
    BY <2>1, GotoType DEF PCs
<1>4. TrackerTypeOK'
  BY <1>3 DEF TypeOK, TrackerTypeOK, TaskTypeOK, Send, coordVars, alertVars, gpsVars, configVars
<1> QED
  BY <1>1, <1>2, <1>4 DEF TypeOK

(* What a task receives is a response, and the queue is a shorter one.     *)
LEMMA HearsType ==
    ASSUME TypeOK, NEW t, NEW case, NEW p, Hears(t, case, p), AnswerFrame
    PROVE  Sim808TypeOK' /\ ReceiveTypeOK' /\ Heard \in Responses
<1>1. /\ queue_sim808' \in Seq(Responses) /\ Len(queue_sim808') <= SimLength
      /\ Heard \in Responses
  BY DEF TypeOK, ReceiveTypeOK, Hears, Heard, SimLength
<1> QED
  BY <1>1 DEF TypeOK, Sim808TypeOK, ReceiveTypeOK, Hears, AnswerFrame, rxVars

(* A timeout changes the budget only.                                      *)
LEMMA TimesOutType ==
    ASSUME TypeOK, NEW t, NEW case, TimesOut(t, case), AnswerFrame
    PROVE  Sim808TypeOK' /\ ReceiveTypeOK'
<1>1. budget' \in 0..MaxFaults
  BY ElapsedType DEF TypeOK, Sim808TypeOK, TimesOut
<1> QED
  BY <1>1 DEF TypeOK, Sim808TypeOK, ReceiveTypeOK, TimesOut, AnswerFrame, rxVars

(* The variables of TrackerTypeOK that are not the tasks' status and pc. *)
OtherTypeOK ==
    /\ mutex_sim808 \in Tasks \cup {None}
    /\ binary_sim808 \in {0, 1}
    /\ queue_coordinates \in Seq(Fixes) /\ Len(queue_coordinates) <= 1
    /\ queue_sms \in Seq(Fixes) /\ Len(queue_sms) <= 1
    /\ sms_hold \in {0, 1}
    /\ gsm_status \in {"OFFLINE", "ONLINE"}
    /\ gps_status \in {"OFFLINE", "ONLINE"}
    /\ device_status \in {"EMPTY", "SZ_DATA_LOADED"}
    /\ phone_number \in {"empty", "raw", "owner"}
    /\ coord \in Fixes /\ fix \in Fixes /\ new_coordinate \in Fixes
    /\ co_pc \in {"receive", "evaluate", "hold", "send"}
    /\ retried \in BOOLEAN

(* TypeOK, regrouped by what changes together.                             *)
LEMMA TypeParts == TypeOK <=> Sim808TypeOK /\ ReceiveTypeOK /\ TaskTypeOK /\ OtherTypeOK
  BY DEF TypeOK, TrackerTypeOK, TaskTypeOK, OtherTypeOK

(* A WAIT_ case that only selects the next status keeps the types.         *)
LEMMA AwaitType ==
    ASSUME TypeOK, NEW t \in Tasks, NEW case, NEW good, NEW next \in StatusesOf(t),
           NEW else \in StatusesOf(t), Await(t, case, good, next, else)
    PROVE  TypeOK'
<1>1. Sim808TypeOK' /\ ReceiveTypeOK'
  BY HearsType, TimesOutType DEF Await
<1>2. TaskTypeOK'
  <2>1. TaskTypeOK
    BY TypeParts
  <2>2. \E s \in StatusesOf(t) : Goto(t, s, "give")
    BY DEF Await
  <2> QED
    BY <2>1, <2>2, GotoType DEF PCs
<1>3. OtherTypeOK'
  BY TypeParts DEF OtherTypeOK, Await, AnswerFrame, coordVars, alertVars, gpsVars, configVars
<1>4. (Sim808TypeOK /\ ReceiveTypeOK /\ TaskTypeOK /\ OtherTypeOK)'
  BY <1>1, <1>2, <1>3
<1> QED
  BY <1>4 DEF TypeOK, TrackerTypeOK, TaskTypeOK, OtherTypeOK

-----------------------------------------------------------------------------
(* The type invariant: one step per action.                                 *)

(* So does a sending case.                                                 *)
LEMMA AskType ==
    ASSUME TypeOK, NEW t \in Tasks, NEW case, NEW c \in Commands,
           NEW next \in StatusesOf(t), Ask(t, case, c, next)
    PROVE  TypeOK'
<1>1. sms_check' \in {0, 1}
  BY DEF Ask, TypeOK, ReceiveTypeOK
<1> QED
  BY <1>1, SendType DEF Ask

(* Every case of task_gsm keeps the types.                                 *)
LEMMA GsmType ==
    ASSUME TypeOK, Gsm
    PROVE  TypeOK'
<1> USE TypeParts
<1>s. /\ "gsm" \in Tasks /\ GsmStatuses = StatusesOf("gsm")
      /\ TaskTypeOK /\ OtherTypeOK
  BY DEF Tasks, StatusesOf
<1>j. (Sim808TypeOK /\ ReceiveTypeOK /\ TaskTypeOK /\ OtherTypeOK)' => TypeOK'
  BY DEF TypeOK, TrackerTypeOK, TaskTypeOK, OtherTypeOK
<1>1. CASE GsmDisableEcho
  <2>1. "ATE0" \in Commands /\ "WAIT_ECHO" \in StatusesOf("gsm") /\ sms_check' \in {0, 1}
    BY <1>s, <1>1 DEF Commands, GsmStatuses, GsmDisableEcho, TypeOK, ReceiveTypeOK
  <2> QED
    BY <1>s, <1>1, <2>1, SendType DEF GsmDisableEcho
<1>2. CASE GsmWaitEcho
  <2>1. Sim808TypeOK' /\ ReceiveTypeOK'
    BY <1>2, HearsType, TimesOutType DEF GsmWaitEcho
  <2>2. \E s \in StatusesOf("gsm") : Goto("gsm", s, "case")
    BY <1>s, <1>2 DEF GsmWaitEcho, GsmStatuses
  <2>3. TaskTypeOK'
    BY <1>s, <2>2, GotoType DEF PCs
  <2>4. OtherTypeOK'
    BY <1>s, <1>2
      DEF GsmWaitEcho, AnswerFrame, OtherTypeOK, coordVars, alertVars, gpsVars, configVars
  <2> QED
    BY <1>j, <2>1, <2>3, <2>4
<1>3. CASE GsmSmsReady
  <2>1. Sim808TypeOK' /\ ReceiveTypeOK'
    BY <1>3, HearsType DEF GsmSmsReady
  <2>2. TaskTypeOK'
    <3>1. (\E s \in StatusesOf("gsm") : Goto("gsm", s, "case")) \/ UNCHANGED taskVars
      BY <1>s, <1>3 DEF GsmSmsReady, GsmStatuses
    <3>2. CASE UNCHANGED taskVars
      BY <1>s, <3>2 DEF taskVars, TaskTypeOK
    <3> QED
      BY <1>s, <3>1, <3>2, GotoType DEF PCs
  <2>3. OtherTypeOK'
    BY <1>s, <1>3, ZenonT(60)
      DEF GsmSmsReady, AnswerFrame, OtherTypeOK, coordVars, alertVars, gpsVars, configVars
  <2> QED
    BY <1>j, <2>1, <2>2, <2>3
<1>4. CASE GsmTextMode
  BY <1>s, <1>4, AskType DEF GsmTextMode, Commands, Queries, GsmStatuses
<1>5. CASE GsmNetworkReg
  BY <1>s, <1>5, AskType DEF GsmNetworkReg, Commands, Queries, GsmStatuses
<1>6. CASE GsmDeleteSms
  BY <1>s, <1>6, AskType DEF GsmDeleteSms, Commands, Queries, GsmStatuses
<1>7. CASE GsmSendSms1
  BY <1>s, <1>7, AskType DEF GsmSendSms1, Commands, Queries, GsmStatuses
<1>8. CASE GsmSendSms2
  BY <1>s, <1>8, AskType DEF GsmSendSms2, Commands, Queries, GsmStatuses
<1>9. CASE GsmWaitTextMode
  BY <1>s, <1>9, AwaitType DEF GsmWaitTextMode, GsmStatuses
<1>10. CASE GsmWaitDeleteSms
  BY <1>s, <1>10, AwaitType DEF GsmWaitDeleteSms, GsmStatuses
<1>11. CASE GsmWaitSendSms2
  BY <1>s, <1>11, AwaitType DEF GsmWaitSendSms2, GsmStatuses
<1>12. CASE GsmWaitNetworkReg
  <2>1. /\ Sim808TypeOK' /\ ReceiveTypeOK'
        /\ (Hears("gsm", status["gsm"], pc["gsm"]) => Heard \in Responses)
    BY <1>12, HearsType, TimesOutType DEF GsmWaitNetworkReg, At, Hears
  <2>2. \E s \in StatusesOf("gsm"), p \in PCs : Goto("gsm", s, p)
    BY <1>s, <1>12 DEF GsmWaitNetworkReg, GsmStatuses, PCs
  <2>3. TaskTypeOK'
    BY <1>s, <2>2, GotoType
  <2>4. OtherTypeOK'
    BY <1>s, <1>12, <2>1, ZenonT(120)
      DEF GsmWaitNetworkReg, AnswerFrame, OtherTypeOK, coordVars, alertVars, gpsVars, configVars
  <2> QED
    BY <1>j, <2>1, <2>3, <2>4
<1>13. CASE GsmWaitReadSms
  <2>1. /\ Sim808TypeOK' /\ ReceiveTypeOK'
        /\ (Hears("gsm", status["gsm"], pc["gsm"]) => Heard \in Responses)
    BY <1>13, HearsType, TimesOutType DEF AfterNoMessage, GsmWaitReadSms, At, Hears
  <2>2. \E s \in StatusesOf("gsm"), p \in PCs : Goto("gsm", s, p)
    BY <1>s, <1>13 DEF AfterNoMessage, GsmWaitReadSms, GsmStatuses, PCs
  <2>3. TaskTypeOK'
    BY <1>s, <2>2, GotoType
  <2>4. OtherTypeOK'
    BY <1>s, <1>13, <2>1, ZenonT(120)
      DEF AfterNoMessage, GsmWaitReadSms, AnswerFrame, OtherTypeOK, coordVars, alertVars,
          gpsVars, configVars
  <2> QED
    BY <1>j, <2>1, <2>3, <2>4
<1>14. CASE GsmWaitSendSms1
  <2>1. /\ Sim808TypeOK' /\ ReceiveTypeOK'
        /\ (Hears("gsm", status["gsm"], pc["gsm"]) => Heard \in Responses)
    BY <1>14, HearsType, TimesOutType DEF GsmWaitSendSms1, At, Hears
  <2>2. \E s \in StatusesOf("gsm"), p \in PCs : Goto("gsm", s, p)
    BY <1>s, <1>14 DEF GsmWaitSendSms1, GsmStatuses, PCs, AfterCmgs
  <2>3. TaskTypeOK'
    BY <1>s, <2>2, GotoType
  <2>4. OtherTypeOK'
    BY <1>s, <1>14, <2>1, ZenonT(120)
      DEF GsmWaitSendSms1, AnswerFrame, OtherTypeOK, coordVars, alertVars, gpsVars, configVars
  <2> QED
    BY <1>j, <2>1, <2>3, <2>4
<1>15. CASE GsmReadBody
  <2>1. /\ Sim808TypeOK' /\ ReceiveTypeOK'
        /\ (Hears("gsm", status["gsm"], pc["gsm"]) => Heard \in Responses)
    BY <1>15, HearsType DEF GsmReadBody, At, Hears
  <2>2. \E s \in StatusesOf("gsm"), p \in PCs : Goto("gsm", s, p)
    BY <1>s, <1>15 DEF GsmReadBody, GsmStatuses, PCs
  <2>3. TaskTypeOK'
    BY <1>s, <2>2, GotoType
  <2>4. OtherTypeOK'
    BY <1>s, <1>15, <2>1
      DEF GsmReadBody, AnswerFrame, OtherTypeOK, coordVars, alertVars, gpsVars, configVars
  <2> QED
    BY <1>j, <2>1, <2>3, <2>4
<1>16. CASE GsmReadSms
  <2>1. /\ "AT+CMGL" \in Commands /\ "WAIT_READ_SMS" \in StatusesOf("gsm")
        /\ sms_check' \in {0, 1}
    BY <1>s, <1>16 DEF GsmReadSms, Commands, Queries, GsmStatuses
  <2> QED
    BY <1>s, <1>16, <2>1, SendType DEF GsmReadSms
<1>17. CASE GsmTakeAlert
  <2>1. Sim808TypeOK' /\ ReceiveTypeOK'
    BY <1>17 DEF AfterNoAlert, GsmTakeAlert, TypeOK, Sim808TypeOK, ReceiveTypeOK, modemVars, rxVars
  <2>2. \E s \in StatusesOf("gsm"), p \in PCs : Goto("gsm", s, p)
    BY <1>s, <1>17 DEF AfterNoAlert, GsmTakeAlert, GsmStatuses, PCs
  <2>3. TaskTypeOK'
    BY <1>s, <2>2, GotoType
  <2>4. OtherTypeOK'
    BY <1>s, <1>17
      DEF AfterNoAlert, GsmTakeAlert, OtherTypeOK, coordVars, alertVars, gpsVars, configVars,
          Fixes
  <2> QED
    BY <1>j, <2>1, <2>3, <2>4
<1>18. CASE GsmNext
  <2>1. Sim808TypeOK' /\ ReceiveTypeOK'
    BY <1>18 DEF Rearmed, GsmNext, TypeOK, Sim808TypeOK, ReceiveTypeOK, modemVars, rxVars
  <2>2. \E s \in StatusesOf("gsm"), p \in PCs : Goto("gsm", s, p)
    BY <1>s, <1>18 DEF Rearmed, GsmNext, GsmStatuses, PCs
  <2>3. TaskTypeOK'
    BY <1>s, <2>2, GotoType
  <2>4. OtherTypeOK'
    BY <1>s, <1>18
      DEF Rearmed, GsmNext, OtherTypeOK, coordVars, alertVars, gpsVars, configVars, Fixes
  <2> QED
    BY <1>j, <2>1, <2>3, <2>4
<1> QED
  BY <1>1, <1>2, <1>3, <1>4, <1>5, <1>6, <1>7, <1>8, <1>9, <1>10, <1>11, <1>12, <1>13, <1>14,
     <1>15, <1>16, <1>17, <1>18
    DEF Gsm

(* Every case of task_gps does.                                            *)
LEMMA GpsType ==
    ASSUME TypeOK, Gps
    PROVE  TypeOK'
<1> USE TypeParts
<1>s. /\ "gps" \in Tasks /\ GpsStatuses = StatusesOf("gps")
      /\ TaskTypeOK /\ OtherTypeOK
  BY DEF Tasks, StatusesOf
<1>j. (Sim808TypeOK /\ ReceiveTypeOK /\ TaskTypeOK /\ OtherTypeOK)' => TypeOK'
  BY DEF TypeOK, TrackerTypeOK, TaskTypeOK, OtherTypeOK
<1>1. CASE GpsPowerOn
  BY <1>s, <1>1, AskType DEF GpsPowerOn, Commands, Queries, GpsStatuses
<1>2. CASE GpsCheckSignal
  BY <1>s, <1>2, AskType DEF GpsCheckSignal, Commands, Queries, GpsStatuses
<1>3. CASE GpsGetCoordinate
  BY <1>s, <1>3, AskType DEF GpsGetCoordinate, Commands, Queries, GpsStatuses
<1>4. CASE GpsWaitPowerOn
  BY <1>s, <1>4, AwaitType DEF GpsWaitPowerOn, GpsStatuses
<1>5. CASE GpsWaitCheckSignal
  <2>1. /\ Sim808TypeOK' /\ ReceiveTypeOK'
        /\ (Hears("gps", status["gps"], pc["gps"]) => Heard \in Responses)
    BY <1>5, HearsType, TimesOutType DEF GpsWaitCheckSignal, At, Hears
  <2>2. \E s \in StatusesOf("gps"), p \in PCs : Goto("gps", s, p)
    BY <1>s, <1>5 DEF GpsWaitCheckSignal, GpsStatuses, PCs
  <2>3. TaskTypeOK'
    BY <1>s, <2>2, GotoType
  <2>4. OtherTypeOK'
    BY <1>s, <1>5, <2>1, ZenonT(120)
      DEF GpsWaitCheckSignal, AnswerFrame, OtherTypeOK, coordVars, alertVars, gpsVars,
          configVars
  <2> QED
    BY <1>j, <2>1, <2>3, <2>4
<1>6. CASE GpsWaitCoordinate
  <2>1. /\ Sim808TypeOK' /\ ReceiveTypeOK'
        /\ (Hears("gps", status["gps"], pc["gps"]) => Heard \in Responses)
    BY <1>6, HearsType, TimesOutType DEF GpsWaitCoordinate, At, Hears
  <2>2. \E s \in StatusesOf("gps"), p \in PCs : Goto("gps", s, p)
    BY <1>s, <1>6 DEF GpsWaitCoordinate, GpsStatuses, PCs
  <2>3. TaskTypeOK'
    BY <1>s, <2>2, GotoType
  <2>4. OtherTypeOK'
    BY <1>s, <1>6, <2>1
      DEF GpsWaitCoordinate, AnswerFrame, OtherTypeOK, coordVars, alertVars, gpsVars,
          configVars, Responses, Hears, At
  <2> QED
    BY <1>j, <2>1, <2>3, <2>4
<1>7. CASE GpsWaitGsmInit
  <2>1. Sim808TypeOK' /\ ReceiveTypeOK'
    BY <1>7 DEF GpsWaitGsmInit, TypeOK, Sim808TypeOK, ReceiveTypeOK, modemVars, rxVars
  <2>2. \E s \in StatusesOf("gps"), p \in PCs : Goto("gps", s, p)
    BY <1>s, <1>7 DEF GpsWaitGsmInit, GpsStatuses, PCs
  <2>3. TaskTypeOK'
    BY <1>s, <2>2, GotoType
  <2>4. OtherTypeOK'
    BY <1>s, <1>7 DEF GpsWaitGsmInit, OtherTypeOK, coordVars, alertVars, gpsVars, configVars, Fixes
  <2> QED
    BY <1>j, <2>1, <2>3, <2>4
<1>8. CASE GpsPublish
  <2>1. Sim808TypeOK' /\ ReceiveTypeOK'
    BY <1>8 DEF CoordinatesRoom, GpsPublish, TypeOK, Sim808TypeOK, ReceiveTypeOK, modemVars, rxVars
  <2>2. \E s \in StatusesOf("gps"), p \in PCs : Goto("gps", s, p)
    BY <1>s, <1>8 DEF CoordinatesRoom, GpsPublish, GpsStatuses, PCs
  <2>3. TaskTypeOK'
    BY <1>s, <2>2, GotoType
  <2>4. OtherTypeOK'
    BY <1>s, <1>8
      DEF CoordinatesRoom, GpsPublish, OtherTypeOK, coordVars, alertVars, gpsVars, configVars,
          Fixes
  <2> QED
    BY <1>j, <2>1, <2>3, <2>4
<1> QED
  BY <1>1, <1>2, <1>3, <1>4, <1>5, <1>6, <1>7, <1>8 DEF Gps

(* task_coordinates does.                                                  *)
LEMMA CoordinatesType ==
    ASSUME TypeOK, CoordinatesTask
    PROVE  TypeOK'
<1> USE TypeParts
<1>1. Sim808TypeOK' /\ ReceiveTypeOK' /\ TaskTypeOK'
  BY DEF CoordinatesTask, CoordinatesReceive, CoordinatesEvaluate, CoordinatesHold, CoordinatesSend,
         CoordinatesFrame, Sim808TypeOK, ReceiveTypeOK, TaskTypeOK, modemVars, rxVars, taskVars
<1>2. OtherTypeOK'
  <2> USE DEF OtherTypeOK, CoordinatesFrame, configVars
  <2>1. CASE CoordinatesReceive
    BY <2>1 DEF CoordinatesReceive
  <2>2. CASE CoordinatesEvaluate
    BY <2>2 DEF CoordinatesEvaluate
  <2>3. CASE CoordinatesHold
    BY <2>3 DEF CoordinatesHold
  <2>4. CASE CoordinatesSend
    BY <2>4 DEF CoordinatesSend
  <2> QED
    BY <2>1, <2>2, <2>3, <2>4 DEF CoordinatesTask
<1> QED
  BY <1>1, <1>2 DEF TypeOK, TrackerTypeOK, TaskTypeOK, OtherTypeOK

(* The modem and task_sim808_receive do.                                   *)
LEMMA AirType ==
    ASSUME TypeOK, Receiving \/ Answering \/ Happening
    PROVE  TypeOK'
<1>1. TrackerTypeOK'
  BY DEF TypeOK, TrackerTypeOK, Receiving, Answering, Happening, TrackerFrame,
         taskVars, coordVars, alertVars, gpsVars, configVars
<1>2. Sim808TypeOK' /\ ReceiveTypeOK'
  <2>1. CASE Receiving
    BY <2>1, ReceiveType DEF TypeOK, Receiving
  <2>2. CASE Answering \/ Happening
    <3>1. Sim808TypeOK'
      BY <2>2, ModemType DEF TypeOK, Answering, Happening, ModemStep
    <3> QED
      BY <2>2, <3>1 DEF TypeOK, ReceiveTypeOK, Answering, Happening, rxVars
  <2> QED
    BY <2>1, <2>2
<1> QED
  BY <1>1, <1>2 DEF TypeOK

(* Taking and giving the mutex does.                                       *)
LEMMA MutexType ==
    ASSUME TypeOK, NEW t \in Tasks, TaskTake(t) \/ TaskGive(t)
    PROVE  TypeOK'
<1>1. Sim808TypeOK' /\ ReceiveTypeOK'
  BY DEF TypeOK, Sim808TypeOK, ReceiveTypeOK, TaskTake, TaskGive, modemVars, rxVars
<1>2. TrackerTypeOK'
  BY DEF TypeOK, TrackerTypeOK, TaskTake, TaskGive, Take, Given, PCs,
         coordVars, alertVars, gpsVars, configVars
<1> QED
  BY <1>1, <1>2 DEF TypeOK

(***************************************************************************)
(* Every reachable state is well typed, whatever the coordinates, the      *)
(* faults and their number: no response, token, position or status outside *)
(* its range, and no queue longer than main.c 113-124 creates it.          *)
(***************************************************************************)
THEOREM TypeCorrect == Safety => []TypeOK
<1>1. Init => TypeOK
  <2> SUFFICES ASSUME Init PROVE TypeOK
    OBVIOUS
  <2>1. Sim808TypeOK
    <3>1. uart_rx \in Seq(Tokens)
      BY DEF Init, Sim808Init
    <3>2. budget \in 0..MaxFaults
      BY Sim808Assumption DEF Init, Sim808Init
    <3> QED
      BY <3>1, <3>2 DEF Init, Sim808Init, Sim808TypeOK
  <2>2. ReceiveTypeOK
    <3>1. last_response \in Responses
      BY DEF Init, ReceiveInit, Responses, Fixes
    <3>2. queue_sim808 \in Seq(Responses) /\ Len(queue_sim808) <= SimLength
      BY DEF Init, ReceiveInit, SimLength
    <3> QED
      BY <3>1, <3>2 DEF Init, ReceiveInit, ReceiveTypeOK
  <2>3. TrackerTypeOK
    <3>1. /\ status \in [Tasks -> GsmStatuses \cup GpsStatuses] /\ pc \in [Tasks -> PCs]
          /\ status["gsm"] \in GsmStatuses /\ status["gps"] \in GpsStatuses
      BY DEF Init, GsmStatuses, GpsStatuses, PCs, Tasks
    <3>2. /\ queue_coordinates \in Seq(Fixes) /\ Len(queue_coordinates) <= 1
          /\ queue_sms \in Seq(Fixes) /\ Len(queue_sms) <= 1
      BY DEF Init
    <3> QED
      BY <3>1, <3>2, TrackerAssumption DEF Init, TrackerTypeOK, Fixes
  <2> QED
    BY <2>1, <2>2, <2>3 DEF TypeOK
<1>2. TypeOK /\ [Next]_vars => TypeOK'
  <2> SUFFICES ASSUME TypeOK, [Next]_vars PROVE TypeOK'
    OBVIOUS
  <2>1. CASE UNCHANGED vars
    BY <2>1 DEF vars, modemVars, rxVars, taskVars, coordVars, alertVars, gpsVars, configVars,
                TypeOK, Sim808TypeOK, ReceiveTypeOK, TrackerTypeOK
  <2> QED
    BY <2>1, GsmType, GpsType, CoordinatesType, AirType, MutexType DEF Next
<1> QED
  BY <1>1, <1>2, PTL DEF Safety

-----------------------------------------------------------------------------
(* The mutex.                                                               *)

(***************************************************************************)
(* MutexOwner is not inductive: a Give must also END the exchange, that is *)
(* the status it leaves must not be one that expects the mutex.  Only the  *)
(* repetition of WAIT_SEND_SMS_1 leaves such a status.                     *)
(***************************************************************************)
GiveEndsExchange == \A t \in Tasks : pc[t] = "give" => retried \/ status[t] \notin HoldingWaits

MutexInv == MutexOwner /\ GiveEndsExchange

(* A step of t that stays in its exchange, or outside one, is harmless. *)
LEMMA StayInExchange ==
    ASSUME TaskTypeOK, MutexInv, NEW t \in Tasks, NEW s, NEW p, Goto(t, s, p),
           UNCHANGED <<mutex_sim808, retried>>,
           InExchange(t)' <=> InExchange(t),
           p = "give" => s \notin HoldingWaits
    PROVE  MutexInv'
<1>1. \A u \in Tasks : u # t => status'[u] = status[u] /\ pc'[u] = pc[u]
  BY DEF Goto, TaskTypeOK
<1>2. status'[t] = s /\ pc'[t] = p
  BY DEF Goto, TaskTypeOK
<1>3. GiveEndsExchange'
  BY <1>1, <1>2 DEF MutexInv, GiveEndsExchange
<1>4. MutexOwner'
  BY <1>1 DEF MutexInv, MutexOwner, InExchange
<1> QED
  BY <1>3, <1>4 DEF MutexInv

(* The invariant is about five variables only.                             *)
LEMMA SameTasks ==
    ASSUME MutexInv, UNCHANGED <<taskVars, mutex_sim808, retried>>
    PROVE  MutexInv'
  BY DEF MutexInv, MutexOwner, GiveEndsExchange, InExchange, taskVars

(* Sending a command ends in the WAIT_ case that still holds the mutex.    *)
LEMMA AskMutex ==
    ASSUME TaskTypeOK, MutexInv, NEW t \in Tasks, NEW case, NEW c,
           NEW next \in HoldingWaits, Ask(t, case, c, next)
    PROVE  MutexInv'
<1>1. /\ pc[t] = "delay" /\ Goto(t, next, "case")
      /\ UNCHANGED <<mutex_sim808, retried>>
  BY DEF Ask, Send, At
<1>2. InExchange(t) /\ InExchange(t)'
  BY <1>1 DEF InExchange, Goto, TaskTypeOK
<1> QED
  BY <1>1, <1>2, StayInExchange

(* An answer and a timeout end in "give", with the mutex still held.       *)
LEMMA AwaitMutex ==
    ASSUME TaskTypeOK, MutexInv, NEW t \in Tasks, NEW case \in HoldingWaits, NEW good,
           NEW next, next \notin HoldingWaits, NEW else, else \notin HoldingWaits,
           Await(t, case, good, next, else)
    PROVE  MutexInv'
<1>1. PICK s \in {next, else} : Goto(t, s, "give")
  BY DEF Await
<1>2. At(t, case, "case") /\ UNCHANGED <<mutex_sim808, retried>>
  BY DEF Await, Hears, TimesOut, AnswerFrame
<1>3. InExchange(t) /\ InExchange(t)'
  BY <1>1, <1>2 DEF InExchange, At, Goto, TaskTypeOK
<1> QED
  BY <1>1, <1>2, <1>3, StayInExchange

(* Every case of task_gsm keeps the invariant.                             *)
LEMMA GsmMutex ==
    ASSUME TypeOK, MutexInv, Gsm
    PROVE  MutexInv'
<1>t. TaskTypeOK /\ "gsm" \in Tasks
  BY TypeParts DEF Tasks
<1>1. CASE GsmDisableEcho
  <2>1. PICK s \in {"WAIT_ECHO"}, p \in {"case"} :
          Goto("gsm", s, p) /\ (p = "give" => s \notin HoldingWaits)
    BY <1>1 DEF GsmDisableEcho, HoldingWaits, Send
  <2>2. InExchange("gsm")' <=> InExchange("gsm")
    BY <1>t, <1>1
      DEF GsmDisableEcho, At, Hears, TimesOut, Send, InExchange, Goto, TaskTypeOK, HoldingWaits,
          Send
  <2>3. UNCHANGED <<mutex_sim808, retried>>
    BY <1>1 DEF GsmDisableEcho, Send, AnswerFrame
  <2> QED
    BY <1>t, <2>1, <2>2, <2>3, StayInExchange
<1>2. CASE GsmWaitEcho
  <2>1. PICK s \in GsmStatuses, p \in {"case"} :
          Goto("gsm", s, p) /\ (p = "give" => s \notin HoldingWaits)
    BY <1>2 DEF GsmWaitEcho, HoldingWaits, GsmStatuses
  <2>2. InExchange("gsm")' <=> InExchange("gsm")
    BY <1>t, <1>2
      DEF GsmWaitEcho, At, Hears, TimesOut, Send, InExchange, Goto, TaskTypeOK, HoldingWaits,
          GsmStatuses
  <2>3. UNCHANGED <<mutex_sim808, retried>>
    BY <1>2 DEF GsmWaitEcho, Send, AnswerFrame
  <2> QED
    BY <1>t, <2>1, <2>2, <2>3, StayInExchange
<1>3. CASE GsmSmsReady
  <2>1. UNCHANGED taskVars \/ Goto("gsm", "TEXT_MODE", "case")
    BY <1>3 DEF GsmSmsReady
  <2>2. UNCHANGED <<mutex_sim808, retried>> /\ At("gsm", "SMS_READY", "case")
    BY <1>3 DEF GsmSmsReady, AnswerFrame, Hears
  <2>3. CASE UNCHANGED taskVars
    BY <2>2, <2>3, SameTasks
  <2>4. CASE Goto("gsm", "TEXT_MODE", "case")
    <3>1. ~InExchange("gsm") /\ ~InExchange("gsm")'
      BY <1>t, <2>2, <2>4 DEF InExchange, At, Goto, TaskTypeOK, HoldingWaits
    <3> QED
      BY <1>t, <2>2, <2>4, <3>1, StayInExchange
  <2> QED
    BY <2>1, <2>3, <2>4
<1>4. CASE GsmTextMode
  BY <1>t, <1>4, AskMutex DEF GsmTextMode, HoldingWaits
<1>5. CASE GsmWaitTextMode
  BY <1>t, <1>5, AwaitMutex DEF GsmWaitTextMode, HoldingWaits
<1>6. CASE GsmNetworkReg
  BY <1>t, <1>6, AskMutex DEF GsmNetworkReg, HoldingWaits
<1>7. CASE GsmWaitNetworkReg
  <2>1. PICK s \in GsmStatuses, p \in {"give"} :
          Goto("gsm", s, p) /\ (p = "give" => s \notin HoldingWaits)
    BY <1>7 DEF GsmWaitNetworkReg, HoldingWaits, GsmStatuses
  <2>2. InExchange("gsm")' <=> InExchange("gsm")
    BY <1>t, <1>7
      DEF GsmWaitNetworkReg, At, Hears, TimesOut, Send, InExchange, Goto, TaskTypeOK,
          HoldingWaits, GsmStatuses
  <2>3. UNCHANGED <<mutex_sim808, retried>>
    BY <1>7 DEF GsmWaitNetworkReg, Send, AnswerFrame
  <2> QED
    BY <1>t, <2>1, <2>2, <2>3, StayInExchange
<1>8. CASE GsmReadSms
  <2>1. PICK s \in {"WAIT_READ_SMS"}, p \in {"case"} :
          Goto("gsm", s, p) /\ (p = "give" => s \notin HoldingWaits)
    BY <1>8 DEF GsmReadSms, HoldingWaits, Send
  <2>2. InExchange("gsm")' <=> InExchange("gsm")
    BY <1>t, <1>8
      DEF GsmReadSms, At, Hears, TimesOut, Send, InExchange, Goto, TaskTypeOK, HoldingWaits,
          Send
  <2>3. UNCHANGED <<mutex_sim808, retried>>
    BY <1>8 DEF GsmReadSms, Send, AnswerFrame
  <2> QED
    BY <1>t, <2>1, <2>2, <2>3, StayInExchange
<1>9. CASE GsmWaitReadSms
  <2>1. PICK s \in GsmStatuses, p \in {"give", "body"} :
          Goto("gsm", s, p) /\ (p = "give" => s \notin HoldingWaits)
    BY <1>9 DEF AfterNoMessage, GsmWaitReadSms, HoldingWaits, GsmStatuses
  <2>2. InExchange("gsm")' <=> InExchange("gsm")
    BY <1>t, <1>9
      DEF AfterNoMessage, GsmWaitReadSms, At, Hears, TimesOut, Send, InExchange, Goto,
          TaskTypeOK, HoldingWaits, GsmStatuses
  <2>3. UNCHANGED <<mutex_sim808, retried>>
    BY <1>9 DEF AfterNoMessage, GsmWaitReadSms, Send, AnswerFrame
  <2> QED
    BY <1>t, <2>1, <2>2, <2>3, StayInExchange
<1>10. CASE GsmReadBody
  <2>1. PICK s \in GsmStatuses, p \in {"give"} :
          Goto("gsm", s, p) /\ (p = "give" => s \notin HoldingWaits)
    BY <1>10 DEF GsmReadBody, HoldingWaits, GsmStatuses
  <2>2. InExchange("gsm")' <=> InExchange("gsm")
    BY <1>t, <1>10
      DEF GsmReadBody, At, Hears, TimesOut, Send, InExchange, Goto, TaskTypeOK, HoldingWaits,
          GsmStatuses
  <2>3. UNCHANGED <<mutex_sim808, retried>>
    BY <1>10 DEF GsmReadBody, Send, AnswerFrame
  <2> QED
    BY <1>t, <2>1, <2>2, <2>3, StayInExchange
<1>11. CASE GsmDeleteSms
  BY <1>t, <1>11, AskMutex DEF GsmDeleteSms, HoldingWaits
<1>12. CASE GsmWaitDeleteSms
  BY <1>t, <1>12, AwaitMutex DEF GsmWaitDeleteSms, HoldingWaits
<1>13. CASE GsmTakeAlert
  <2>1. PICK s \in GsmStatuses, p \in {"case", "coord"} :
          Goto("gsm", s, p) /\ (p = "give" => s \notin HoldingWaits)
    BY <1>13 DEF AfterNoAlert, GsmTakeAlert, HoldingWaits, GsmStatuses
  <2>2. InExchange("gsm")' <=> InExchange("gsm")
    BY <1>t, <1>13
      DEF AfterNoAlert, GsmTakeAlert, At, Hears, TimesOut, Send, InExchange, Goto, TaskTypeOK,
          HoldingWaits, GsmStatuses
  <2>3. UNCHANGED <<mutex_sim808, retried>>
    BY <1>13 DEF AfterNoAlert, GsmTakeAlert, Send, AnswerFrame
  <2> QED
    BY <1>t, <2>1, <2>2, <2>3, StayInExchange
<1>14. CASE GsmSendSms1
  BY <1>t, <1>14, AskMutex DEF GsmSendSms1, HoldingWaits
<1>15. CASE GsmWaitSendSms1
  <2>1. CASE retried'
    <3>1. \A t \in Tasks : pc'[t] = "give" => retried' \/ status'[t] \notin HoldingWaits
      BY <2>1
    <3> QED
      BY <2>1, <3>1 DEF MutexInv, MutexOwner, GiveEndsExchange
  <2>2. CASE ~retried'
    <3>1. /\ ~retried /\ At("gsm", "WAIT_SEND_SMS_1", "case")
          /\ Goto("gsm", "SEND_SMS_2", "give") /\ UNCHANGED mutex_sim808
      BY <1>15, <2>2 DEF GsmWaitSendSms1, Hears, TimesOut, AnswerFrame, AfterCmgs
    <3>2. InExchange("gsm") /\ InExchange("gsm")'
      BY <1>t, <3>1 DEF InExchange, At, Goto, TaskTypeOK, HoldingWaits
    <3>3. UNCHANGED retried
      <4>1. retried \in BOOLEAN /\ retried' \in BOOLEAN
        BY <1>15, GsmType DEF Gsm, TypeOK, TrackerTypeOK
      <4> QED
        BY <2>2, <3>1, <4>1
    <3> QED
      BY <1>t, <3>1, <3>2, <3>3, StayInExchange DEF HoldingWaits
  <2> QED
    BY <2>1, <2>2
<1>16. CASE GsmSendSms2
  BY <1>t, <1>16, AskMutex DEF GsmSendSms2, HoldingWaits
<1>17. CASE GsmWaitSendSms2
  BY <1>t, <1>17, AwaitMutex DEF GsmWaitSendSms2, HoldingWaits
<1>18. CASE GsmNext
  <2>1. PICK s \in GsmStatuses, p \in {"case"} :
          Goto("gsm", s, p) /\ (p = "give" => s \notin HoldingWaits)
    BY <1>18 DEF Rearmed, GsmNext, HoldingWaits, GsmStatuses
  <2>2. InExchange("gsm")' <=> InExchange("gsm")
    BY <1>t, <1>18
      DEF Rearmed, GsmNext, At, Hears, TimesOut, Send, InExchange, Goto, TaskTypeOK,
          HoldingWaits, GsmStatuses
  <2>3. UNCHANGED <<mutex_sim808, retried>>
    BY <1>18 DEF Rearmed, GsmNext, Send, AnswerFrame
  <2> QED
    BY <1>t, <2>1, <2>2, <2>3, StayInExchange
<1> QED
  BY <1>1, <1>2, <1>3, <1>4, <1>5, <1>6, <1>7, <1>8, <1>9, <1>10, <1>11, <1>12, <1>13, <1>14,
     <1>15, <1>16, <1>17, <1>18
    DEF Gsm

(* Every case of task_gps does.                                            *)
LEMMA GpsMutex ==
    ASSUME TypeOK, MutexInv, Gps
    PROVE  MutexInv'
<1>t. TaskTypeOK /\ "gps" \in Tasks
  BY TypeParts DEF Tasks
<1>1. CASE GpsWaitGsmInit
  <2>1. PICK s \in {"POWER_ON"}, p \in {"case"} :
          Goto("gps", s, p) /\ (p = "give" => s \notin HoldingWaits)
    BY <1>1 DEF GpsWaitGsmInit, HoldingWaits
  <2>2. InExchange("gps")' <=> InExchange("gps")
    BY <1>t, <1>1
      DEF GpsWaitGsmInit, At, Hears, TimesOut, Send, InExchange, Goto, TaskTypeOK, HoldingWaits
  <2>3. UNCHANGED <<mutex_sim808, retried>>
    BY <1>1 DEF GpsWaitGsmInit, Send, AnswerFrame
  <2> QED
    BY <1>t, <2>1, <2>2, <2>3, StayInExchange
<1>2. CASE GpsPowerOn
  BY <1>t, <1>2, AskMutex DEF GpsPowerOn, HoldingWaits
<1>3. CASE GpsWaitPowerOn
  BY <1>t, <1>3, AwaitMutex DEF GpsWaitPowerOn, HoldingWaits
<1>4. CASE GpsCheckSignal
  BY <1>t, <1>4, AskMutex DEF GpsCheckSignal, HoldingWaits
<1>5. CASE GpsWaitCheckSignal
  <2>1. PICK s \in GpsStatuses, p \in {"give"} :
          Goto("gps", s, p) /\ (p = "give" => s \notin HoldingWaits)
    BY <1>5 DEF GpsWaitCheckSignal, HoldingWaits, GpsStatuses
  <2>2. InExchange("gps")' <=> InExchange("gps")
    BY <1>t, <1>5
      DEF GpsWaitCheckSignal, At, Hears, TimesOut, Send, InExchange, Goto, TaskTypeOK,
          HoldingWaits, GpsStatuses
  <2>3. UNCHANGED <<mutex_sim808, retried>>
    BY <1>5 DEF GpsWaitCheckSignal, Send, AnswerFrame
  <2> QED
    BY <1>t, <2>1, <2>2, <2>3, StayInExchange
<1>6. CASE GpsGetCoordinate
  BY <1>t, <1>6, AskMutex DEF GpsGetCoordinate, HoldingWaits
<1>7. CASE GpsWaitCoordinate
  <2>1. PICK s \in GpsStatuses, p \in {"give", "publish"} :
          Goto("gps", s, p) /\ (p = "give" => s \notin HoldingWaits)
    BY <1>7 DEF GpsWaitCoordinate, HoldingWaits, GpsStatuses
  <2>2. InExchange("gps")' <=> InExchange("gps")
    BY <1>t, <1>7
      DEF GpsWaitCoordinate, At, Hears, TimesOut, Send, InExchange, Goto, TaskTypeOK,
          HoldingWaits, GpsStatuses
  <2>3. UNCHANGED <<mutex_sim808, retried>>
    BY <1>7 DEF GpsWaitCoordinate, Send, AnswerFrame
  <2> QED
    BY <1>t, <2>1, <2>2, <2>3, StayInExchange
<1>8. CASE GpsPublish
  <2>1. PICK s \in GpsStatuses, p \in {"give"} :
          Goto("gps", s, p) /\ (p = "give" => s \notin HoldingWaits)
    BY <1>8 DEF CoordinatesRoom, GpsPublish, HoldingWaits, GpsStatuses
  <2>2. InExchange("gps")' <=> InExchange("gps")
    BY <1>t, <1>8
      DEF CoordinatesRoom, GpsPublish, At, Hears, TimesOut, Send, InExchange, Goto, TaskTypeOK,
          HoldingWaits, GpsStatuses
  <2>3. UNCHANGED <<mutex_sim808, retried>>
    BY <1>8 DEF CoordinatesRoom, GpsPublish, Send, AnswerFrame
  <2> QED
    BY <1>t, <2>1, <2>2, <2>3, StayInExchange
<1> QED
  BY <1>1, <1>2, <1>3, <1>4, <1>5, <1>6, <1>7, <1>8 DEF Gps

(* So do the Take that begins an exchange and the Give that ends it.       *)
LEMMA TakeGiveMutex ==
    ASSUME TypeOK, MutexInv, NEW t \in Tasks, TaskTake(t) \/ TaskGive(t)
    PROVE  MutexInv'
<1>t. TaskTypeOK /\ None \notin Tasks
  BY TypeParts DEF None, Tasks
<1>1. \A u \in Tasks : u # t => status'[u] = status[u] /\ pc'[u] = pc[u]
  BY <1>t DEF TaskTake, TaskGive, TaskTypeOK
<1>2. \A u \in Tasks : u # t => InExchange(u)' = InExchange(u)
  BY <1>1 DEF InExchange
<1>3. CASE TaskTake(t)
  <2>1. InExchange(t)' /\ mutex_sim808' = t /\ mutex_sim808 = None /\ UNCHANGED retried
    BY <1>t, <1>3 DEF TaskTake, Take, InExchange, TaskTypeOK
  <2>2. MutexOwner'
    BY <1>t, <1>2, <2>1 DEF MutexInv, MutexOwner
  <2>3. GiveEndsExchange'
    BY <1>t, <1>1, <1>3 DEF MutexInv, GiveEndsExchange, TaskTake, TaskTypeOK
  <2> QED
    BY <2>2, <2>3 DEF MutexInv
<1>4. CASE TaskGive(t)
  <2>1. mutex_sim808' = None /\ UNCHANGED <<status, retried>> /\ pc'[t] = "case" /\ pc[t] = "give"
    BY <1>t, <1>4 DEF TaskGive, Given, TaskTypeOK
  <2>2. MutexOwner'
    <3> SUFFICES ASSUME ~retried PROVE \A u \in Tasks : ~InExchange(u)'
      BY <1>t, <2>1 DEF MutexOwner
    <3>1. InExchange(t) /\ ~InExchange(t)'
      BY <2>1 DEF MutexInv, GiveEndsExchange, InExchange
    <3>2. \A u \in Tasks : u # t => ~InExchange(u)
      BY <3>1 DEF MutexInv, MutexOwner
    <3> QED
      BY <1>2, <3>1, <3>2
  <2>3. GiveEndsExchange'
    BY <1>1, <2>1 DEF MutexInv, GiveEndsExchange
  <2> QED
    BY <2>2, <2>3 DEF MutexInv
<1> QED
  BY <1>3, <1>4

(* Nobody else touches the mutex.                                          *)
LEMMA OthersMutex ==
    ASSUME MutexInv, CoordinatesTask \/ Receiving \/ Answering \/ Happening
    PROVE  MutexInv'
<1>1. UNCHANGED <<taskVars, mutex_sim808, retried>>
  BY DEF CoordinatesTask, CoordinatesReceive, CoordinatesEvaluate, CoordinatesHold,
         CoordinatesSend, CoordinatesFrame, Receiving, Answering, Happening, TrackerFrame
<1> QED
  BY <1>1, SameTasks

(* The invariant holds in every state.                                     *)
LEMMA MutexKept == Safety => []MutexInv
<1>1. Init => MutexInv
  BY DEF Init, MutexInv, MutexOwner, GiveEndsExchange, InExchange, HoldingWaits, Tasks, None
<1>2. TypeOK /\ MutexInv /\ [Next]_vars => MutexInv'
  <2> SUFFICES ASSUME TypeOK, MutexInv, [Next]_vars PROVE MutexInv'
    OBVIOUS
  <2>1. CASE UNCHANGED vars
    BY <2>1, SameTasks DEF vars
  <2> QED
    BY <2>1, GsmMutex, GpsMutex, TakeGiveMutex, OthersMutex DEF Next
<1> QED
  BY <1>1, <1>2, TypeCorrect, PTL DEF Safety

(***************************************************************************)
(* Whatever the modem answers, loses or delays: until an AT+CMGS is left   *)
(* without its prompt, mutex_sim808 is held by exactly the task that is in *)
(* an exchange, so the two tasks are never in an exchange together.        *)
(***************************************************************************)
THEOREM MutexCorrect == Safety => []MutexOwner
<1>1. MutexInv => MutexOwner
  BY DEF MutexInv
<1> QED
  BY <1>1, MutexKept, PTL
=============================================================================
