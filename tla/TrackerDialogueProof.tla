------------------------- MODULE TrackerDialogueProof -------------------------
(***************************************************************************)
(* The dialogue with a modem that answers promptly, for a device that is   *)
(* configured by SMS since its power-up: answers belong to who asked, the  *)
(* receiver keeps the pairing of the CR LFs, the prompt of an SMS always   *)
(* comes - all this until AT+CMGL lists more than one message, if it ever   *)
(* does.  And, with any modem, the first configuration SMS is kept.        *)
(***************************************************************************)
EXTENDS TrackerAlertProof

(* The hypothesis: nothing of Sim808's Faults happens, and the telephone    *)
(* number does not come from the NVM registers.                             *)
Prompt == MaxFaults = 0 /\ "again" \notin PowerUps

-----------------------------------------------------------------------------
(* What is on its way from the modem to the receiver.                       *)

IsText(token) == token.text # "NL"

(* How many tokens of the line it reads the receiver has taken.             *)
Into == IF rx_status = 0 THEN 0
        ELSE IF rx_status = 2 /\ last_response.size = 0 THEN 1 ELSE 2

(* With those, uart_rx is a sequence of n tokens with its texts at places.  *)
Shape(n, places) ==
    /\ Len(uart_rx) + Into = n
    /\ \A i \in 1..Len(uart_rx) : IsText(uart_rx[i]) <=> i + Into \in places

NoPrompt == \A i \in 1..Len(uart_rx) : uart_rx[i].text # ">"

Silence   == uart_rx = <<>> /\ rx_status = 0
OneLine   == Shape(3, {2}) /\ NoPrompt
TwoLines  == Shape(6, {2, 5}) /\ NoPrompt
OnlyOk    == OneLine /\ IF Into < 2 THEN uart_rx[2 - Into].text = "OK"
                                    ELSE last_response.size = 2
Message   == /\ Shape(8, {2, 4, 7}) /\ NoPrompt
             /\ IF Into < 2 THEN uart_rx[2 - Into].text # "OK" ELSE last_response.size = 3
Prompting == Shape(2, {2}) /\ Into < 2 /\ uart_rx[2 - Into].text = ">"

(***************************************************************************)
(* Whole lines, a message or a prompt.  sms_check is 1 from AT+CMGL to the *)
(* end of the first line of its answer, which is followed by a bare line   *)
(* unless it is "OK".  A command finds the line silent and the queue empty. *)
(***************************************************************************)
Framed ==
    /\ \/ Silence /\ (sms_check = 0 \/ rx_clearing \/ command # None)
       \/ (OneLine \/ TwoLines) /\ (sms_check = 0 \/ rx_clearing \/ OnlyOk)
       \/ Message /\ sms_check = 1 /\ ~rx_clearing
       \/ Prompting /\ sms_check = 0 /\ ~rx_clearing
    /\ command # None => /\ Silence /\ ~rx_clearing /\ queue_sim808 = <<>>
                         /\ sms_check = 1 <=> command = "AT+CMGL"

(* Twice the responses queued and one for each token that is still to make  *)
(* one: it never grows on its way.                                          *)
Load == 2 * Len(queue_sim808) + Len(uart_rx) + (IF rx_status = 2 THEN Into ELSE 0)

RealResponses == \A i \in 1..Len(queue_sim808) : queue_sim808[i].size > 0

LineInv == Framed /\ Load <= 8 /\ RealResponses

-----------------------------------------------------------------------------
(* Who waits for it.                                                        *)

Waits(t) == Asked(t) # None /\ pc[t] \in {"case", "body"}

(* The responses, the tokens and what was captured answer command c.        *)
Own(c) == /\ \A i \in 1..Len(queue_sim808) : queue_sim808[i].re = c
          /\ \A i \in 1..Len(uart_rx) : IsText(uart_rx[i]) => uart_rx[i].re = c
          /\ rx_status = 2 /\ Into = 2 => last_response.re = c

(* All that can still reach a task that waits answers its own command.      *)
OwnAnswers == \A t \in Tasks : Waits(t) => Own(Asked(t))

(* A command the modem works on is that of a task that waits.               *)
Pending == command # None => \E t \in Tasks : pc[t] = "case" /\ Asked(t) = command

(* Before "SMS Ready" task_gps sleeps, and there is room for that line.     *)
Booting == status["gsm"] \in {"DISABLE_ECHO", "WAIT_ECHO", "SMS_READY"}
BootInv == Booting => /\ status["gps"] = "WAIT_GSM_INIT" /\ binary_sim808 = 0
                      /\ pc["gsm"] = "case" /\ sms_check = 0 /\ NoPrompt
                      /\ ~ready => Load <= 3

(* The modem collects a text only between its prompt and the text's 0x1a.   *)
EntryInv ==
    entry => \/ status["gsm"] = "WAIT_SEND_SMS_1" /\ command = None
             \/ status["gsm"] = "SEND_SMS_2"
             \/ status["gsm"] = "WAIT_SEND_SMS_2" /\ command = "SmsText"

(* The first thing task_gsm hears after AT+CMGS is the prompt.              *)
PromptInv ==
    status["gsm"] = "WAIT_SEND_SMS_1" =>
        /\ pc["gsm"] = "case"
        /\ command \in {None, "AT+CMGS"}
        /\ command = None => IF queue_sim808 = <<>> THEN Prompting
                             ELSE queue_sim808[1].text = ">"

AskInv == /\ OwnAnswers /\ Pending /\ BootInv /\ EntryInv /\ PromptInv
          /\ ~retried /\ phone_number # "raw"

DialogueInv == LineInv /\ AskInv

-----------------------------------------------------------------------------
(* The receiver.                                                            *)

(* The line without its first token.                                        *)
LEMMA TailTokens ==
    ASSUME uart_rx \in Seq(Tokens), uart_rx # <<>>, uart_rx' = Tail(uart_rx)
    PROVE  /\ Len(uart_rx) \in Nat /\ Len(uart_rx) >= 1
           /\ Len(uart_rx') = Len(uart_rx) - 1 /\ Head(uart_rx) = uart_rx[1]
           /\ \A i \in 1..Len(uart_rx') : uart_rx'[i] = uart_rx[i + 1] /\ i + 1 \in 1..Len(uart_rx)
  OBVIOUS

(* Taking a token of a line moves the receiver on by one place.             *)
LEMMA ShapeMoves ==
    ASSUME uart_rx \in Seq(Tokens), uart_rx # <<>>, uart_rx' = Tail(uart_rx),
           Into' = Into + 1
    PROVE  /\ \A n \in Nat : \A places : Shape(n, places) => Shape(n, places)'
           /\ NoPrompt => NoPrompt'
<1>1. Into \in Nat
  BY DEF Into
<1>2. ASSUME NEW n \in Nat, NEW places, Shape(n, places) PROVE Shape(n, places)'
  <2>1. Len(uart_rx') + Into' = n
    BY <1>1, <1>2, TailTokens DEF Shape
  <2>2. ASSUME NEW i \in 1..Len(uart_rx')
        PROVE  uart_rx'[i].text # "NL" <=> i + Into' \in places
    <3>1. i + 1 \in 1..Len(uart_rx) /\ uart_rx'[i] = uart_rx[i + 1]
      BY TailTokens
    <3>2. uart_rx[i + 1].text # "NL" <=> (i + 1) + Into \in places
      BY <1>2, <3>1 DEF Shape, IsText
    <3>3. (i + 1) + Into = i + Into'
      BY <1>1, TailTokens
    <3> QED
      BY <3>1, <3>2, <3>3
  <2> QED
    BY <2>1, <2>2 DEF Shape, IsText
<1>3. NoPrompt => NoPrompt'
  BY TailTokens DEF NoPrompt
<1> QED
  BY <1>2, <1>3

(* How long each shape is.                                                  *)
LEMMA Lengths ==
    ASSUME uart_rx \in Seq(Tokens)
    PROVE  /\ Into \in 0..2 /\ Len(uart_rx) \in Nat
           /\ Silence => Len(uart_rx) + Into = 0
           /\ Prompting => Len(uart_rx) + Into = 2 /\ ~NoPrompt
           /\ OneLine => Len(uart_rx) + Into = 3
           /\ TwoLines => Len(uart_rx) + Into = 6
           /\ Message => Len(uart_rx) + Into = 8
<1>1. Into \in 0..2 /\ Len(uart_rx) \in Nat
  BY DEF Into
<1>2. Silence => Len(uart_rx) + Into = 0
  BY DEF Silence, Into
<1>3. Prompting => Len(uart_rx) + Into = 2 /\ ~NoPrompt
  <2> SUFFICES ASSUME Prompting PROVE Len(uart_rx) + Into = 2 /\ ~NoPrompt
    OBVIOUS
  <2>1. Len(uart_rx) + Into = 2 /\ Into < 2 /\ uart_rx[2 - Into].text = ">"
    BY DEF Prompting, Shape
  <2>2. 2 - Into \in 1..Len(uart_rx)
    BY <1>1, <2>1
  <2> QED
    BY <2>1, <2>2 DEF NoPrompt
<1>4. /\ OneLine => Len(uart_rx) + Into = 3
      /\ TwoLines => Len(uart_rx) + Into = 6
      /\ Message => Len(uart_rx) + Into = 8
  BY DEF OneLine, TwoLines, Message, Shape
<1> QED
  BY <1>1, <1>2, <1>3, <1>4

(* Which tokens come next in a whole line, a message or a prompt.           *)
LEMMA NextToken ==
    ASSUME uart_rx \in Seq(Tokens), LineInv, uart_rx # <<>>
    PROVE  /\ Into \in 0..2 /\ Len(uart_rx) \in Nat /\ Len(uart_rx) >= 1
           /\ IsText(uart_rx[1]) <=> Into = 1
           /\ uart_rx[1].text = ">" => Prompting
<1>1. Into \in 0..2
  BY DEF Into
<1>2. Len(uart_rx) \in Nat /\ Len(uart_rx) >= 1
  OBVIOUS
<1>3. CASE Prompting
  BY <1>1, <1>2, <1>3 DEF Prompting, Shape
<1>4. CASE (OneLine \/ TwoLines \/ Message)
  <2>1. uart_rx[1].text # ">"
    BY <1>2, <1>4 DEF OneLine, TwoLines, Message, NoPrompt
  <2>2. IsText(uart_rx[1]) <=> Into = 1
    BY <1>1, <1>2, <1>4 DEF OneLine, TwoLines, Message, Shape
  <2> QED
    BY <1>1, <1>2, <2>1, <2>2
<1> QED
  BY <1>3, <1>4 DEF LineInv, Framed, Silence

(* The size of a text is that of an OK or another one.                      *)
LEMMA CaptureSize ==
    ASSUME NEW token
    PROVE  /\ Capture(token).size = IF token.text = "OK" THEN 2 ELSE 3
           /\ Capture(token).re = token.re /\ Capture(token).text = token.text
  BY DEF Capture, Size

(* The first token of a line, and its text, keep the framing.               *)
LEMMA StartFramed ==
    ASSUME TypeOK, LineInv, Receiving, RxLineStart, ~rx_clearing
    PROVE  Framed' /\ Load' <= Load
<1>1. /\ uart_rx # <<>> /\ uart_rx \in Seq(Tokens) /\ uart_rx' = Tail(uart_rx)
      /\ Into = 0 /\ Into' = 1 /\ rx_status = 0 /\ rx_status' = 2
      /\ UNCHANGED <<queue_sim808, sms_check, rx_clearing, command>>
  BY DEF Receiving, Receive, RxLineStart, AtNL, ConsumeToken, Into, TypeOK, Sim808TypeOK,
         ReceiveTypeOK, Responses
<1>2. Load' <= Load
  BY <1>1, TailTokens DEF Load, TypeOK, ReceiveTypeOK
<1>3. command = None
  BY <1>1 DEF LineInv, Framed, Silence
<1>4. (OneLine => OneLine') /\ (TwoLines => TwoLines')
  BY <1>1, ShapeMoves DEF OneLine, TwoLines
<1>5. Into < 2 /\ Into' < 2
  BY <1>1
<1>6. OneLine \/ Message \/ Prompting => uart_rx'[2 - Into'] = uart_rx[2 - Into]
  <2> SUFFICES ASSUME Len(uart_rx) > 1 PROVE uart_rx'[2 - Into'] = uart_rx[2 - Into]
    BY <1>1, TailTokens DEF OneLine, Message, Prompting, Shape
  <2>1. 2 - Into = 2 /\ 2 - Into' = 1
    BY <1>1
  <2>2. uart_rx'[1] = uart_rx[2]
    BY <1>1, TailTokens
  <2> QED
    BY <2>1, <2>2
<1>7. OnlyOk => OnlyOk'
  BY <1>4, <1>5, <1>6 DEF OnlyOk
<1>8. Message => Message'
  <2> SUFFICES ASSUME Message PROVE Message'
    OBVIOUS
  <2>1. Shape(8, {2, 4, 7})' /\ NoPrompt'
    BY <1>1, ShapeMoves DEF Message
  <2>2. uart_rx'[2 - Into'].text # "OK"
    BY <1>5, <1>6 DEF Message
  <2> QED
    BY <1>5, <2>1, <2>2 DEF Message
<1>9. Prompting => Prompting'
  <2> SUFFICES ASSUME Prompting PROVE Prompting'
    OBVIOUS
  <2>1. Shape(2, {2})'
    BY <1>1, ShapeMoves DEF Prompting
  <2>2. uart_rx'[2 - Into'].text = ">"
    BY <1>6 DEF Prompting
  <2> QED
    BY <1>5, <2>1, <2>2 DEF Prompting
<1> QED
  BY <1>1, <1>2, <1>3, <1>4, <1>7, <1>8, <1>9 DEF LineInv, Framed, Silence

LEMMA TextFramed ==
    ASSUME TypeOK, LineInv, Receiving, RxText, ~rx_clearing
    PROVE  Framed' /\ Load' <= Load /\ Into = 1 /\ Into' = 2
<1>1. /\ uart_rx # <<>> /\ uart_rx \in Seq(Tokens) /\ uart_rx' = Tail(uart_rx)
      /\ Head(uart_rx) = uart_rx[1] /\ IsText(uart_rx[1]) /\ uart_rx[1].text # ">"
      /\ rx_status = 2 /\ rx_status' = 2 /\ last_response' = Capture(uart_rx[1])
      /\ UNCHANGED <<queue_sim808, sms_check, rx_clearing, command>>
  BY DEF Receiving, Receive, RxText, AtText, ConsumeToken, IsText, rxVars, TypeOK, Sim808TypeOK
<1>2. Into = 1 /\ Into' = 2
  BY <1>1, NextToken, CaptureSize DEF Into
<1>3. Load' <= Load
  BY <1>1, <1>2, TailTokens DEF Load, TypeOK, ReceiveTypeOK
<1>4. command = None
  BY <1>1 DEF LineInv, Framed, Silence
<1>5. (OneLine => OneLine') /\ (TwoLines => TwoLines')
  BY <1>1, <1>2, ShapeMoves DEF OneLine, TwoLines
<1>6. OnlyOk => OnlyOk'
  BY <1>1, <1>2, <1>5, CaptureSize DEF OnlyOk
<1>7. Message => Message'
  BY <1>1, <1>2, ShapeMoves, CaptureSize DEF Message
<1>8. ~Prompting
  BY <1>1, <1>2 DEF Prompting
<1> QED
  BY <1>1, <1>2, <1>3, <1>4, <1>5, <1>6, <1>7, <1>8 DEF LineInv, Framed, Silence

(* The prompt, and the end of a line, queue a response.                     *)
LEMMA PromptFramed ==
    ASSUME TypeOK, LineInv, Receiving, RxPrompt, ~rx_clearing
    PROVE  Framed' /\ Load' <= Load /\ Prompting
<1>1. /\ uart_rx # <<>> /\ uart_rx \in Seq(Tokens) /\ uart_rx' = Tail(uart_rx)
      /\ Head(uart_rx) = uart_rx[1] /\ uart_rx[1].text = ">"
      /\ rx_status = 2 /\ rx_status' = 0
      /\ queue_sim808' = Append(queue_sim808, Capture(uart_rx[1]))
      /\ UNCHANGED <<sms_check, rx_clearing, command>>
  BY DEF Receiving, Receive, RxPrompt, AtText, ConsumeToken, rxVars, TypeOK, Sim808TypeOK
<1>2. Prompting /\ Into = 1
  BY <1>1, NextToken DEF IsText
<1>3. Len(uart_rx) = 1 /\ uart_rx' = <<>>
  <2>1. Len(uart_rx) + 1 = 2
    BY <1>2 DEF Prompting, Shape
  <2>2. Len(uart_rx) = 1
    BY <1>1, <2>1, TailTokens
  <2>3. Len(uart_rx') = 0 /\ uart_rx' \in Seq(Tokens)
    BY <1>1, <2>2, TailTokens
  <2> QED
    BY <2>2, <2>3
<1>4. Len(queue_sim808') = Len(queue_sim808) + 1 /\ Len(queue_sim808) \in Nat
  BY <1>1 DEF TypeOK, ReceiveTypeOK
<1>5. Load' <= Load
  BY <1>1, <1>2, <1>3, <1>4 DEF Load
<1>6. command = None /\ sms_check = 0
  BY <1>1, <1>2, <1>3 DEF LineInv, Framed, Silence, OneLine, TwoLines, Message, Shape
<1> QED
  BY <1>1, <1>2, <1>3, <1>5, <1>6 DEF Framed, Silence

LEMMA EndFramed ==
    ASSUME TypeOK, LineInv, Receiving, RxLineEnd, ~rx_clearing
    PROVE  Framed' /\ Load' <= Load /\ Into = 2 /\ last_response.size > 0
<1>1. /\ uart_rx # <<>> /\ uart_rx \in Seq(Tokens) /\ uart_rx' = uart_rx
      /\ ~IsText(uart_rx[1])
      /\ rx_status = 2 /\ rx_status' = 3
      /\ queue_sim808' = Append(queue_sim808, last_response)
      /\ UNCHANGED <<sms_check, rx_clearing, command, last_response>>
  BY DEF Receiving, Receive, RxLineEnd, AtNL, IsText, rxVars, TypeOK, Sim808TypeOK
<1>2. Into = 2 /\ Into' = 2
  BY <1>1, NextToken DEF Into
<1>3. last_response.size > 0
  BY <1>1, <1>2 DEF Into, TypeOK, ReceiveTypeOK, Responses
<1>4. Len(queue_sim808') = Len(queue_sim808) + 1 /\ Len(queue_sim808) \in Nat
  BY <1>1 DEF TypeOK, ReceiveTypeOK
<1>5. Load' <= Load
  BY <1>1, <1>2, <1>4 DEF Load
<1>6. command = None
  BY <1>1 DEF LineInv, Framed, Silence
<1>7. /\ OneLine' <=> OneLine
      /\ TwoLines' <=> TwoLines
      /\ OnlyOk' <=> OnlyOk
      /\ Message' <=> Message
      /\ ~Prompting
  BY <1>1, <1>2 DEF OneLine, TwoLines, OnlyOk, Message, Prompting, Shape, NoPrompt
<1> QED
  BY <1>1, <1>2, <1>3, <1>5, <1>6, <1>7 DEF LineInv, Framed, Silence

(* The end of the line that follows it: a bare line is taken for what it is. *)
LEMMA AfterFramed ==
    ASSUME TypeOK, LineInv, Receiving, RxAfterLine, ~rx_clearing
    PROVE  Framed' /\ Load' <= Load
<1>1. /\ uart_rx # <<>> /\ uart_rx \in Seq(Tokens) /\ uart_rx' = Tail(uart_rx)
      /\ rx_status = 3 /\ rx_clearing'
      /\ UNCHANGED <<queue_sim808, sms_check, command>>
  BY DEF Receiving, Receive, RxAfterLine, AtNL, ConsumeToken, TypeOK, Sim808TypeOK
<1>2. Into = 2
  BY <1>1 DEF Into
<1>3. command = None
  BY <1>1 DEF LineInv, Framed, Silence
<1>4. Load' <= Load
  <2>1. rx_status' = 2 => Into' = 1
    BY <1>1 DEF Receiving, Receive, RxAfterLine, Into, TypeOK, ReceiveTypeOK, Responses
  <2> QED
    BY <1>1, <2>1, TailTokens DEF Load, TypeOK, ReceiveTypeOK
<1>5. CASE OneLine \/ TwoLines
  <2>1. ~BareLineFollows
    BY <1>2, <1>5 DEF BareLineFollows, LineInv, Framed, Silence, OnlyOk, OneLine, TwoLines,
                      Message, Prompting, Shape
  <2>2. rx_status' = 0 /\ Into' = 0
    BY <2>1 DEF Receiving, Receive, RxAfterLine, Into
  <2>3. CASE OneLine
    <3>1. uart_rx' = <<>>
      <4>1. Len(uart_rx) + 2 = 3
        BY <1>2, <2>3 DEF OneLine, Shape
      <4> QED
        BY <1>1, <4>1
    <3> QED
      BY <1>1, <1>3, <1>4, <2>2, <3>1 DEF Framed, Silence
  <2>4. CASE TwoLines
    <3>1. Shape(3, {2})'
      BY <1>1, <1>2, <2>2, <2>4, TailTokens DEF TwoLines, Shape, IsText
    <3>2. NoPrompt'
      BY <1>1, <2>4, TailTokens DEF TwoLines, NoPrompt
    <3> QED
      BY <1>1, <1>3, <1>4, <3>1, <3>2 DEF Framed, OneLine
  <2> QED
    BY <1>5, <2>3, <2>4
<1>6. CASE Message
  <2>1. BareLineFollows
    BY <1>2, <1>6 DEF BareLineFollows, LineInv, Framed, Silence, OnlyOk, OneLine, TwoLines,
                      Message, Prompting, Shape
  <2>2. Into' = 1
    BY <2>1 DEF Receiving, Receive, RxAfterLine, Into, TypeOK, ReceiveTypeOK, Responses
  <2>3. Shape(6, {2, 5})'
    BY <1>1, <1>2, <2>2, <1>6, TailTokens DEF Message, Shape, IsText
  <2>4. NoPrompt'
    BY <1>1, <1>6, TailTokens DEF Message, NoPrompt
  <2> QED
    BY <1>1, <1>3, <1>4, <2>3, <2>4 DEF Framed, TwoLines
<1> QED
  BY <1>1, <1>2, <1>4, <1>5, <1>6 DEF LineInv, Framed, Silence, Prompting

(* sms_check = 0, when the first line of the answer has been taken.         *)
LEMMA ClearFramed ==
    ASSUME TypeOK, LineInv, Receiving, RxClear
    PROVE  Framed' /\ Load' <= Load
<1>1. /\ UNCHANGED <<uart_rx, rx_status, last_response, queue_sim808, command>>
      /\ rx_clearing /\ sms_check' = 0 /\ ~rx_clearing'
  BY DEF Receiving, Receive, RxClear
<1>2. /\ Into' = Into /\ Load' = Load /\ Silence' = Silence
      /\ OneLine' = OneLine /\ TwoLines' = TwoLines
  BY <1>1 DEF Into, Load, Silence, OneLine, TwoLines, Shape, NoPrompt
<1>3. command = None /\ (Silence \/ OneLine \/ TwoLines)
  BY <1>1 DEF LineInv, Framed
<1>4. Framed'
  BY <1>1, <1>2, <1>3 DEF Framed
<1>5. Load \in Nat
  BY DEF Load, Into, TypeOK, Sim808TypeOK, ReceiveTypeOK
<1> QED
  BY <1>2, <1>4, <1>5

(* A response appended to the queue is the last one of it.                  *)
LEMMA QueueGrows ==
    ASSUME TypeOK, NEW r \in Responses, queue_sim808' = Append(queue_sim808, r)
    PROVE  /\ Len(queue_sim808') = Len(queue_sim808) + 1 /\ Len(queue_sim808) \in Nat
           /\ \A i \in 1..Len(queue_sim808') :
                 queue_sim808'[i] = IF i \in 1..Len(queue_sim808) THEN queue_sim808[i] ELSE r
<1>1. queue_sim808 \in Seq(Responses)
  BY DEF TypeOK, ReceiveTypeOK
<1> QED
  BY <1>1

(***************************************************************************)
(* task_sim808_receive keeps the framing.                                  *)
(***************************************************************************)
LEMMA ReceiveLine ==
    ASSUME TypeOK, LineInv, Receiving
    PROVE  LineInv' /\ Load' <= Load
<1> USE DEF Receiving, Receive
<1>1. CASE ~rx_clearing /\ (RxLineStart \/ RxText \/ RxAfterLine)
  <2>1. Framed' /\ Load' <= Load
    BY <1>1, StartFramed, TextFramed, AfterFramed
  <2>2. UNCHANGED queue_sim808
    BY <1>1 DEF RxLineStart, RxText, RxAfterLine
  <2>3. Load \in Nat /\ Load' \in Int
    BY <2>2, AirType DEF Load, Into, TypeOK, Sim808TypeOK, ReceiveTypeOK
  <2> QED
    BY <2>1, <2>2, <2>3 DEF LineInv, RealResponses
<1>2. CASE ~rx_clearing /\ RxSkip
  <2>1. IsText(uart_rx[1]) /\ uart_rx # <<>> /\ Into = 0 /\ uart_rx \in Seq(Tokens)
    BY <1>2 DEF RxSkip, AtText, IsText, Into, TypeOK, Sim808TypeOK
  <2> QED
    BY <2>1, NextToken
<1>3. CASE ~rx_clearing /\ (RxPrompt \/ RxLineEnd)
  <2>1. Framed' /\ Load' <= Load
    BY <1>3, PromptFramed, EndFramed
  <2>2. \E r \in Responses : r.size > 0 /\ queue_sim808' = Append(queue_sim808, r)
    BY <1>3, EndFramed, CaptureSize, ReceiveType
       DEF RxPrompt, RxLineEnd, TypeOK, ReceiveTypeOK
  <2>3. RealResponses'
    BY <2>2, QueueGrows DEF LineInv, RealResponses
  <2>4. Load \in Nat /\ Load' \in Int
    BY AirType DEF Load, Into, TypeOK, Sim808TypeOK, ReceiveTypeOK
  <2> QED
    BY <2>1, <2>3, <2>4 DEF LineInv
<1>4. CASE RxClear
  <2>1. Framed' /\ Load' <= Load /\ UNCHANGED queue_sim808
    BY <1>4, ClearFramed DEF RxClear
  <2>2. Load \in Nat /\ Load' \in Int
    BY AirType DEF Load, Into, TypeOK, Sim808TypeOK, ReceiveTypeOK
  <2> QED
    BY <2>1, <2>2 DEF LineInv, RealResponses
<1> QED
  BY <1>1, <1>2, <1>3, <1>4 DEF RxByte

(* What it takes of the line and queues is of the command the line answers. *)
LEMMA ReceiveOwn ==
    ASSUME TypeOK, LineInv, Receiving, NEW c, Own(c)
    PROVE  Own(c)'
<1> USE DEF Receiving, Receive
<1>1. uart_rx \in Seq(Tokens)
  BY DEF TypeOK, Sim808TypeOK
<1>2. ASSUME uart_rx # <<>>, uart_rx' = Tail(uart_rx)
      PROVE  \A i \in 1..Len(uart_rx') : IsText(uart_rx'[i]) => uart_rx'[i].re = c
  BY <1>1, <1>2, TailTokens DEF Own
<1>3. CASE ~rx_clearing /\ (RxLineStart \/ RxAfterLine)
  <2>1. uart_rx # <<>> /\ uart_rx' = Tail(uart_rx) /\ UNCHANGED queue_sim808
    BY <1>3 DEF RxLineStart, RxAfterLine, AtNL, ConsumeToken
  <2>2. ~(rx_status' = 2 /\ Into' = 2)
    BY <1>3 DEF RxLineStart, RxAfterLine, Into, TypeOK, ReceiveTypeOK, Responses
  <2> QED
    BY <1>2, <2>1, <2>2 DEF Own
<1>4. CASE ~rx_clearing /\ RxText
  <2>1. /\ uart_rx # <<>> /\ uart_rx' = Tail(uart_rx) /\ UNCHANGED queue_sim808
        /\ IsText(uart_rx[1]) /\ last_response' = Capture(uart_rx[1])
    BY <1>1, <1>4 DEF RxText, AtText, ConsumeToken, IsText
  <2>2. uart_rx[1].re = c
    BY <1>1, <2>1, TailTokens DEF Own
  <2> QED
    BY <1>2, <2>1, <2>2, CaptureSize DEF Own
<1>5. CASE ~rx_clearing /\ RxSkip
  <2>1. IsText(uart_rx[1]) /\ uart_rx # <<>> /\ Into = 0
    BY <1>1, <1>5 DEF RxSkip, AtText, IsText, Into
  <2> QED
    BY <1>1, <2>1, NextToken
<1>6. CASE ~rx_clearing /\ RxPrompt
  <2>1. /\ uart_rx # <<>> /\ uart_rx' = Tail(uart_rx) /\ IsText(uart_rx[1]) /\ rx_status' = 0
        /\ queue_sim808' = Append(queue_sim808, Capture(uart_rx[1]))
    BY <1>1, <1>6 DEF RxPrompt, AtText, ConsumeToken, IsText
  <2>2. Capture(uart_rx[1]).re = c
    BY <1>1, <2>1, TailTokens, CaptureSize DEF Own
  <2>3. \A i \in 1..Len(queue_sim808') : queue_sim808'[i].re = c
    BY <2>1, <2>2, QueueGrows DEF Own
  <2> QED
    BY <1>2, <2>1, <2>3 DEF Own
<1>7. CASE ~rx_clearing /\ RxLineEnd
  <2>1. /\ uart_rx' = uart_rx /\ rx_status = 2 /\ rx_status' = 3
        /\ queue_sim808' = Append(queue_sim808, last_response)
    BY <1>7 DEF RxLineEnd
  <2>2. last_response.re = c
    BY <1>7, <2>1, EndFramed DEF Own
  <2>3. \A i \in 1..Len(queue_sim808') : queue_sim808'[i].re = c
    BY <2>1, <2>2, QueueGrows DEF Own
  <2> QED
    BY <2>1, <2>3 DEF Own
<1>8. CASE RxClear
  BY <1>8 DEF RxClear, Own, Into
<1> QED
  BY <1>3, <1>4, <1>5, <1>6, <1>7, <1>8 DEF RxByte

-----------------------------------------------------------------------------
(* The modem.                                                               *)

(* A sequence with texts at the given places, none a prompt, all of c.      *)
Says(a, n, places, c) ==
    /\ Len(a) = n
    /\ \A i \in 1..n : /\ IsText(a[i]) <=> i \in places
                       /\ a[i].text # ">"
                       /\ IsText(a[i]) => a[i].re = c

LEMMA LineSays ==
    ASSUME NEW t \in Texts, NEW c \in Commands \cup {None}, t # ">"
    PROVE  /\ Says(Line(t, c), 3, {2}, c)
           /\ Line(t, c)[2].text = t
<1>1. t # "NL"
  BY DEF Texts
<1> QED
  BY <1>1 DEF Says, Line, NL, Token, IsText

(* The places of its texts follow those of what was said before.            *)
LEMMA SaysMore ==
    ASSUME NEW a \in Seq(Tokens), NEW b \in Seq(Tokens), NEW m \in Nat, NEW n \in Nat,
           NEW before, NEW after, NEW places, NEW c,
           Says(a, m, before, c), Says(b, n, after, c),
           \A i \in 1..m : i \in places <=> i \in before,
           \A i \in 1..n : m + i \in places <=> i \in after
    PROVE  /\ a \o b \in Seq(Tokens)
           /\ Says(a \o b, m + n, places, c)
<1>1. Len(a) = m /\ Len(b) = n
  BY DEF Says
<1>2. a \o b \in Seq(Tokens) /\ Len(a \o b) = m + n
  BY <1>1
<1>3. ASSUME NEW i \in 1..(m + n)
      PROVE  /\ IsText((a \o b)[i]) <=> i \in places
             /\ (a \o b)[i].text # ">"
             /\ IsText((a \o b)[i]) => (a \o b)[i].re = c
  <2>1. CASE i <= m
    <3>1. i \in 1..m /\ (a \o b)[i] = a[i]
      BY <1>1, <2>1
    <3> QED
      BY <3>1 DEF Says
  <2>2. CASE ~(i <= m)
    <3>1. i - m \in 1..n /\ (a \o b)[i] = b[i - m] /\ m + (i - m) = i
      BY <1>1, <2>2
    <3>2. i \in places <=> i - m \in after
      BY <3>1
    <3> QED
      BY <3>1, <3>2 DEF Says
  <2> QED
    BY <2>1, <2>2
<1> QED
  BY <1>2, <1>3 DEF Says

(* A line after a line.                                                     *)
LEMMA TwoLinesSay ==
    ASSUME NEW a \in Seq(Tokens), NEW b \in Seq(Tokens), NEW c,
           Says(a, 3, {2}, c), Says(b, 3, {2}, c)
    PROVE  Says(a \o b, 6, {2, 5}, c)
<1>1. /\ \A i \in 1..3 : i \in {2, 5} <=> i \in {2}
      /\ \A i \in 1..3 : 3 + i \in {2, 5} <=> i \in {2}
  OBVIOUS
<1>2. Says(a \o b, 3 + 3, {2, 5}, c)
  BY <1>1, SaysMore
<1> QED
  BY <1>2

(* The listing of no message, and of one: its header and its bare line.    *)
LEMMA ListingSays ==
    /\ Listing(0) = <<>>
    /\ Says(Listing(1), 5, {2, 4}, "AT+CMGL") /\ Listing(1)[2].text = "+CMGL: 1"
<1>1. Listing(0) = <<>>
  BY DEF Listing
<1>2. /\ Len(Listing(1)) = 5 /\ Listing(1)[1] = NL
      /\ Listing(1)[2] = Token("+CMGL: 1", NoFix, "AT+CMGL") /\ Listing(1)[3] = NL
      /\ Listing(1)[4] = Token("zone", NoFix, "AT+CMGL") /\ Listing(1)[5] = NL
  BY DEF Listing, Header
<1>3. /\ ~IsText(NL) /\ NL.text # ">"
      /\ \A t : Token(t, NoFix, "AT+CMGL").text = t /\ Token(t, NoFix, "AT+CMGL").re = "AT+CMGL"
  BY DEF NL, Token, IsText
<1>4. /\ \A i \in 1..5 : i \in {2, 4} => IsText(Listing(1)[i])
      /\ \A i \in 1..5 : i \notin {2, 4} => ~IsText(Listing(1)[i])
  <2>1. IsText(Listing(1)[2]) /\ IsText(Listing(1)[4])
    <3>1. Listing(1)[2].text = "+CMGL: 1" /\ Listing(1)[4].text = "zone"
      BY <1>2, <1>3
    <3> QED
      BY <3>1 DEF IsText
  <2>2. ~IsText(Listing(1)[1]) /\ ~IsText(Listing(1)[3]) /\ ~IsText(Listing(1)[5])
    BY <1>2, <1>3
  <2>3. \A i \in 1..5 : i = 1 \/ i = 2 \/ i = 3 \/ i = 4 \/ i = 5
    OBVIOUS
  <2> QED
    BY <2>1, <2>2, <2>3
<1>5. /\ \A i \in 1..5 : Listing(1)[i].text # ">"
      /\ \A i \in 1..5 : IsText(Listing(1)[i]) => Listing(1)[i].re = "AT+CMGL"
  <2> DEFINE Fine(token) == token.text # ">" /\ (IsText(token) => token.re = "AT+CMGL")
  <2>1. Fine(NL)
    BY <1>3
  <2>2. Fine(Token("+CMGL: 1", NoFix, "AT+CMGL")) /\ Fine(Token("zone", NoFix, "AT+CMGL"))
    BY <1>3
  <2> HIDE DEF Fine
  <2>3. /\ Fine(Listing(1)[1]) /\ Fine(Listing(1)[2]) /\ Fine(Listing(1)[3])
        /\ Fine(Listing(1)[4]) /\ Fine(Listing(1)[5])
    BY <1>2, <2>1, <2>2
  <2>4. \A i \in 1..5 : i = 1 \/ i = 2 \/ i = 3 \/ i = 4 \/ i = 5
    OBVIOUS
  <2>5. \A i \in 1..5 : Fine(Listing(1)[i])
    BY <2>3, <2>4
  <2> QED
    BY <2>5 DEF Fine
<1>6. Listing(1)[2].text = "+CMGL: 1"
  BY <1>2, <1>3
<1> QED
  BY <1>1, <1>2, <1>4, <1>5, <1>6 DEF Says

(* A message and the line after it.                                         *)
LEMMA MessageSays ==
    ASSUME NEW m \in Seq(Tokens), NEW b \in Seq(Tokens), NEW c,
           Says(m, 5, {2, 4}, c), Says(b, 3, {2}, c)
    PROVE  Says(m \o b, 8, {2, 4, 7}, c) /\ (m \o b)[2] = m[2]
<1>1. /\ \A i \in 1..5 : i \in {2, 4, 7} <=> i \in {2, 4}
      /\ \A i \in 1..3 : 5 + i \in {2, 4, 7} <=> i \in {2}
  OBVIOUS
<1>2. Says(m \o b, 5 + 3, {2, 4, 7}, c)
  BY <1>1, SaysMore
<1>3. Len(m) >= 2
  BY DEF Says
<1>4. (m \o b)[2] = m[2]
  BY <1>3
<1> QED
  BY <1>2, <1>4

(* The hoped-for answers are one line "OK", two lines or a message.         *)
LEMMA AnswerSays ==
    ASSUME NEW c \in Commands, NEW a \in Answers(c), c = "AT+CMGL" => inbox \in {0, 1}
    PROVE  \/ Says(a, 3, {2}, c) /\ a[2].text = "OK"
           \/ c \notin {"ATE0", "AT+CMGL"} /\ Says(a, 6, {2, 5}, c)
           \/ c = "AT+CMGL" /\ Says(a, 8, {2, 4, 7}, c) /\ a[2].text = "+CMGL: 1"
<1> DEFINE ok == Line("OK", c)
<1>1. \A t \in {"OK", "+CREG: 0,1", "Location 3D Fix"} :
         /\ Line(t, c) \in Seq(Tokens) /\ Says(Line(t, c), 3, {2}, c) /\ Line(t, c)[2].text = t
  <2>1. \A t \in {"OK", "+CREG: 0,1", "Location 3D Fix"} : t \in Texts /\ t # ">"
    BY DEF Texts
  <2> QED
    BY <2>1, LineType, LineSays
<1>2. ok \in Seq(Tokens) /\ Says(ok, 3, {2}, c) /\ ok[2].text = "OK"
  BY <1>1
<1>3. /\ Says(Line("+CREG: 0,1", c) \o ok, 6, {2, 5}, c)
      /\ Says(Line("Location 3D Fix", c) \o ok, 6, {2, 5}, c)
  BY <1>1, <1>2, TwoLinesSay
<1>4. ASSUME c = "AT+CGPSINF", NEW f \in Coordinates
      PROVE  Says(Frame(f) \o ok, 6, {2, 5}, c)
  <2>1. Frame(f) \in Seq(Tokens)
    BY FrameType DEF Fixes
  <2>2. Says(Frame(f), 3, {2}, c)
    BY <1>4 DEF Says, Frame, NL, Token, IsText
  <2> QED
    BY <1>2, <2>1, <2>2, TwoLinesSay
<1>5. ASSUME c = "AT+CMGL"
      PROVE  \/ Says(a, 3, {2}, c) /\ a[2].text = "OK"
             \/ Says(a, 8, {2, 4, 7}, c) /\ a[2].text = "+CMGL: 1"
  <2>1. a = Listing(inbox) \o ok
    BY <1>5 DEF Answers
  <2>2. CASE inbox = 0
    <3>1. \A s \in Seq(Tokens) : <<>> \o s = s
      OBVIOUS
    <3>2. a = <<>> \o ok
      BY <2>1, <2>2, ListingSays
    <3>3. a = ok
      BY <1>2, <3>1, <3>2
    <3> QED
      BY <1>2, <3>3
  <2>3. CASE inbox = 1
    <3>1. Listing(1) \in Seq(Tokens)
      BY ListingType
    <3> QED
      BY <1>2, <1>5, <2>1, <2>3, <3>1, ListingSays, MessageSays
  <2> QED
    BY <1>5, <2>2, <2>3
<1>6. CASE c # "AT+CMGL"
  BY <1>2, <1>3, <1>4, <1>6 DEF Answers
<1> QED
  BY <1>5, <1>6

(* Without faults nothing disappointing happens.                            *)
LEMMA NoFault ==
    ASSUME budget = 0, NEW kind
    PROVE  ~Fault(kind)
  BY DEF Fault

(* What the modem says on a silent line has the shape of what it says.      *)
LEMMA SaysShape ==
    ASSUME Silence, NEW a \in Seq(Tokens), NEW n \in Nat, NEW places, NEW c,
           Says(a, n, places, c), uart_rx' = uart_rx \o a,
           UNCHANGED <<rxVars, queue_sim808>>, queue_sim808 = <<>>
    PROVE  /\ uart_rx' = a /\ Into' = 0 /\ rx_status' = 0
           /\ Shape(n, places)' /\ NoPrompt' /\ Own(c)'
           /\ Load' = n /\ RealResponses'
<1>1. uart_rx' = a
  BY DEF Silence
<1>2. Into' = 0 /\ rx_status' = 0 /\ queue_sim808' = <<>>
  BY DEF Silence, Into, rxVars
<1>3. Shape(n, places)' /\ NoPrompt' /\ Own(c)'
  BY <1>1, <1>2 DEF Shape, NoPrompt, Own, Says
<1>4. Load' = n /\ RealResponses'
  BY <1>1, <1>2 DEF Load, RealResponses, Says
<1> QED
  BY <1>1, <1>2, <1>3, <1>4

(* The prompt, on a silent line.                                            *)
LEMMA PromptShape ==
    ASSUME Silence, NEW c \in Commands, uart_rx' = uart_rx \o <<NL, Token(">", NoFix, c)>>,
           UNCHANGED <<rxVars, queue_sim808>>, queue_sim808 = <<>>
    PROVE  Prompting' /\ Own(c)' /\ Load' <= 8 /\ RealResponses'
<1> DEFINE x == Token(">", NoFix, c)
<1>1. x \in Tokens /\ NL \in Tokens /\ IsText(x) /\ ~IsText(NL) /\ x.text = ">" /\ x.re = c
  BY TokenType DEF Texts, Token, NL, IsText
<1> HIDE DEF x
<1>2. uart_rx' = <<NL, x>>
  BY <1>1 DEF Silence, x
<1>3. Into' = 0 /\ rx_status' = 0 /\ queue_sim808' = <<>>
  BY DEF Silence, Into, rxVars
<1>4. /\ Len(uart_rx') = 2 /\ uart_rx'[2] = x
      /\ \A i \in 1..2 : uart_rx'[i] = IF i = 1 THEN NL ELSE x
  <2>1. \A i \in 1..2 : i = 1 \/ i = 2
    OBVIOUS
  <2>2. Len(<<NL, x>>) = 2 /\ <<NL, x>>[1] = NL /\ <<NL, x>>[2] = x
    OBVIOUS
  <2> QED
    BY <1>2, <2>1, <2>2, Zenon
<1>5. Prompting'
  <2>1. 2 - Into' = 2 /\ Into' < 2
    BY <1>3
  <2>2. Len(uart_rx') + Into' = 2
    BY <1>3, <1>4
  <2>3. \A i \in 1..Len(uart_rx') : IsText(uart_rx'[i]) <=> i + Into' \in {2}
    BY <1>1, <1>3, <1>4
  <2>4. Shape(2, {2})'
    BY <2>2, <2>3 DEF Shape, IsText
  <2> QED
    BY <1>1, <1>4, <2>1, <2>4 DEF Prompting
<1>6. Own(c)'
  BY <1>1, <1>3, <1>4 DEF Own
<1>7. Load' <= 8 /\ RealResponses'
  BY <1>3, <1>4 DEF Load, RealResponses
<1> QED
  BY <1>5, <1>6, <1>7
(* A command is worked on while nothing is on its way.                      *)
LEMMA WorkingLine ==
    ASSUME TypeOK, LineInv, command # None
    PROVE  /\ command \in Commands /\ Silence /\ ~rx_clearing /\ queue_sim808 = <<>>
           /\ sms_check \in {0, 1} /\ (sms_check = 1 <=> command = "AT+CMGL")
           /\ uart_rx \in Seq(Tokens) /\ Load = 0
<1>1. /\ command \in Commands /\ sms_check \in {0, 1} /\ uart_rx \in Seq(Tokens)
  BY DEF TypeOK, Sim808TypeOK, ReceiveTypeOK
<1>2. /\ Silence /\ ~rx_clearing /\ queue_sim808 = <<>>
      /\ sms_check = 1 <=> command = "AT+CMGL"
  BY DEF LineInv, Framed
<1>3. Load = 0
  BY <1>2 DEF Load, Silence, Into
<1> QED
  BY <1>1, <1>2, <1>3

(***************************************************************************)
(* A hoped-for answer makes a line, two lines or, for AT+CMGL, a message.  *)
(***************************************************************************)
LEMMA AnswerLine ==
    ASSUME TypeOK, LineInv, NEW c \in Commands, command = c, command' = None,
           NEW a \in Answers(c), uart_rx' = uart_rx \o a, c = "AT+CMGL" => inbox \in {0, 1},
           UNCHANGED <<rxVars, queue_sim808, sms_check>>
    PROVE  /\ LineInv' /\ Own(c)' /\ NoPrompt'
           /\ c = "ATE0" => Load' <= 3
<1>1. /\ Silence /\ ~rx_clearing /\ queue_sim808 = <<>> /\ sms_check \in {0, 1}
      /\ sms_check = 1 <=> c = "AT+CMGL"
  BY WorkingLine DEF None, Commands, Queries
<1>2. a \in Seq(Tokens)
  BY AnswersType DEF TypeOK
<1>3. \A n \in Nat : \A places :
         Says(a, n, places, c) =>
             /\ uart_rx' = a /\ Into' = 0 /\ Shape(n, places)' /\ NoPrompt' /\ Own(c)'
             /\ Load' = n /\ RealResponses'
  BY <1>1, <1>2, SaysShape
<1>4. CASE Says(a, 3, {2}, c) /\ a[2].text = "OK"
  <2>1. /\ uart_rx' = a /\ Into' = 0 /\ Shape(3, {2})' /\ NoPrompt' /\ Own(c)'
        /\ Load' = 3 /\ RealResponses'
    BY <1>3, <1>4
  <2>2. 2 - Into' = 2 /\ Into' < 2
    BY <2>1
  <2>3. OnlyOk'
    BY <1>4, <2>1, <2>2 DEF OnlyOk, OneLine
  <2> QED
    BY <2>1, <2>3 DEF LineInv, Framed, OnlyOk
<1>5. CASE c \notin {"ATE0", "AT+CMGL"} /\ Says(a, 6, {2, 5}, c)
  <2>1. /\ Shape(6, {2, 5})' /\ NoPrompt' /\ Own(c)' /\ Load' = 6 /\ RealResponses'
    BY <1>3, <1>5
  <2>2. sms_check' = 0
    BY <1>1, <1>5
  <2> QED
    BY <1>5, <2>1, <2>2 DEF LineInv, Framed, TwoLines
<1>6. CASE c = "AT+CMGL" /\ Says(a, 8, {2, 4, 7}, c) /\ a[2].text = "+CMGL: 1"
  <2>1. /\ uart_rx' = a /\ Into' = 0 /\ Shape(8, {2, 4, 7})' /\ NoPrompt' /\ Own(c)'
        /\ Load' = 8 /\ RealResponses'
    BY <1>3, <1>6
  <2>2. 2 - Into' = 2 /\ Into' < 2
    BY <2>1
  <2>3. Message'
    BY <1>6, <2>1, <2>2 DEF Message
  <2>4. sms_check' = 1 /\ ~rx_clearing'
    BY <1>1, <1>6 DEF rxVars
  <2>5. Framed'
    BY <2>3, <2>4 DEF Framed
  <2>6. Load' <= 8
    BY <2>1
  <2>7. c # "ATE0"
    BY <1>6
  <2> QED
    BY <2>1, <2>5, <2>6, <2>7, Zenon DEF LineInv
<1> QED
  BY <1>4, <1>5, <1>6, AnswerSays
(* Which cases wait for an answer, and to which command.                    *)
LEMMA AskedBy ==
    ASSUME TypeOK
    PROVE  /\ \A t \in Tasks : Asked(t) # None <=> status[t] \in HoldingWaits \cup {"WAIT_ECHO"}
           /\ \A t \in Tasks : /\ status[t] = "WAIT_SEND_SMS_1" <=> Asked(t) = "AT+CMGS"
                               /\ status[t] = "WAIT_SEND_SMS_2" <=> Asked(t) = "SmsText"
                               /\ status[t] = "WAIT_READ_SMS" <=> Asked(t) = "AT+CMGL"
                               /\ status[t] = "WAIT_ECHO" <=> Asked(t) = "ATE0"
           /\ status["gps"] \notin {"WAIT_ECHO", "WAIT_SEND_SMS_1", "WAIT_SEND_SMS_2",
                                    "WAIT_READ_SMS"}
<1>1. status["gps"] \in GpsStatuses
  BY TypeParts DEF TaskTypeOK
<1>2. \A t \in Tasks : Asked(t) # None <=> status[t] \in HoldingWaits \cup {"WAIT_ECHO"}
  BY DEF Asked, None, HoldingWaits
<1>3. \A t \in Tasks : /\ status[t] = "WAIT_SEND_SMS_1" <=> Asked(t) = "AT+CMGS"
                       /\ status[t] = "WAIT_SEND_SMS_2" <=> Asked(t) = "SmsText"
                       /\ status[t] = "WAIT_READ_SMS" <=> Asked(t) = "AT+CMGL"
                       /\ status[t] = "WAIT_ECHO" <=> Asked(t) = "ATE0"
  BY DEF Asked, None
<1> QED
  BY <1>1, <1>2, <1>3 DEF GpsStatuses

(* The modem works on AT+CMGS, or on a text, only while task_gsm waits for  *)
(* its answer.                                                              *)
LEMMA GsmAsks ==
    ASSUME TypeOK, Pending
    PROVE  /\ command = "AT+CMGS" => status["gsm"] = "WAIT_SEND_SMS_1"
           /\ command = "SmsText" => status["gsm"] = "WAIT_SEND_SMS_2"
           /\ command = "AT+CMGL" => status["gsm"] = "WAIT_READ_SMS"
           /\ command = "ATE0" => status["gsm"] = "WAIT_ECHO"
  BY AskedBy DEF Pending, None, Tasks
(***************************************************************************)
(* What a step of the modem does to the line and to its own state, when    *)
(* the owner's number is known by the time it is dialled.                  *)
(***************************************************************************)
Answered(c) ==
    /\ command' = None /\ LineInv' /\ Own(c)'
    /\ c = "ATE0" => NoPrompt' /\ Load' <= 3
    /\ entry' => \/ status["gsm"] = "WAIT_SEND_SMS_1" /\ c = "AT+CMGS"
                 \/ status["gsm"] = "SEND_SMS_2"
    /\ status["gsm"] = "WAIT_SEND_SMS_1" /\ c = "AT+CMGS" => Prompting'

LEMMA AnswerStep ==
    ASSUME TypeOK, LineInv, budget = 0, NEW c, command = c, ModemAnswer, ~crowded',
           UNCHANGED <<rxVars, queue_sim808, sms_check>>
    PROVE  Answered(c)
<1>1. /\ c \in Commands /\ c # "AT+CMGS" /\ command' = None /\ ~entry'
      /\ \E a \in Answers(c) : uart_rx' = uart_rx \o a
  BY NoFault, WorkingLine DEF ModemAnswer, Say
<1>2. c = "AT+CMGL" => ~(inbox > 1)
  BY NoFault DEF ModemAnswer
<1>3. c = "AT+CMGL" => inbox \in {0, 1}
  BY <1>2, Sim808Assumption DEF TypeOK, Sim808TypeOK
<1> QED
  BY <1>1, <1>3, AnswerLine DEF Answered

LEMMA PromptStep ==
    ASSUME TypeOK, LineInv, Pending, NEW c, command = c, ModemPrompt(TRUE), budget = 0,
           UNCHANGED <<rxVars, queue_sim808, sms_check>>
    PROVE  Answered(c)
<1>1. /\ c = "AT+CMGS" /\ c \in Commands /\ c # None /\ command' = None
      /\ uart_rx' = uart_rx \o <<NL, Token(">", NoFix, c)>>
  BY NoFault DEF ModemPrompt, Say, Commands, None
<1>2. /\ Silence /\ ~rx_clearing /\ queue_sim808 = <<>> /\ sms_check = 0
      /\ status["gsm"] = "WAIT_SEND_SMS_1"
  BY <1>1, WorkingLine, GsmAsks
<1>3. Prompting' /\ Own(c)' /\ Load' <= 8 /\ RealResponses'
  BY <1>1, <1>2, PromptShape
<1>4. LineInv'
  BY <1>1, <1>2, <1>3 DEF LineInv, Framed, rxVars
<1> QED
  BY <1>1, <1>2, <1>3, <1>4 DEF Answered

LEMMA SendStep ==
    ASSUME TypeOK, LineInv, Pending, NEW c, command = c, ModemSend, budget = 0,
           UNCHANGED <<rxVars, queue_sim808, sms_check>>
    PROVE  Answered(c)
<1>1. c = "SmsText" /\ c \in Commands /\ c # None /\ command' = None /\ ~entry'
  BY DEF ModemSend, Commands, None
<1>2. /\ Silence /\ ~rx_clearing /\ queue_sim808 = <<>> /\ sms_check = 0
      /\ uart_rx \in Seq(Tokens)
  BY <1>1, WorkingLine
<1>3. CASE UNCHANGED uart_rx
  <2>1. uart_rx' = <<>> /\ queue_sim808' = <<>> /\ rx_status' = 0
    BY <1>2, <1>3 DEF Silence, rxVars
  <2>2. Own(c)' /\ RealResponses'
    BY <2>1 DEF Own, RealResponses
  <2>3. Load' <= 8
    BY <2>1 DEF Load
  <2>4. Framed'
    BY <1>1, <1>2, <2>1 DEF Framed, Silence
  <2> QED
    BY <1>1, <2>2, <2>3, <2>4 DEF Answered, LineInv
<1>4. CASE uart_rx' = uart_rx \o (Line("+CMGS:", c) \o Line("OK", c))
  <2>1. /\ Line("+CMGS:", c) \in Seq(Tokens) /\ Says(Line("+CMGS:", c), 3, {2}, c)
        /\ Line("OK", c) \in Seq(Tokens) /\ Says(Line("OK", c), 3, {2}, c)
    BY <1>1, LineType, LineSays DEF Texts
  <2>2. /\ Line("+CMGS:", c) \o Line("OK", c) \in Seq(Tokens)
        /\ Says(Line("+CMGS:", c) \o Line("OK", c), 6, {2, 5}, c)
    BY <2>1, TwoLinesSay, ConcatType
  <2>3. Shape(6, {2, 5})' /\ NoPrompt' /\ Own(c)' /\ Load' = 6 /\ RealResponses'
    BY <1>2, <1>4, <2>2, SaysShape
  <2>4. LineInv'
    BY <1>1, <1>2, <2>3 DEF LineInv, Framed, TwoLines
  <2> QED
    BY <1>1, <2>3, <2>4 DEF Answered
<1> QED
  BY <1>1, <1>3, <1>4, NoFault DEF ModemSend, Say

LEMMA SwallowStep ==
    ASSUME TypeOK, LineInv, Pending, EntryInv, NEW c, command = c, ModemSwallow,
           UNCHANGED <<rxVars, queue_sim808, sms_check>>
    PROVE  Answered(c)
<1>1. c # None /\ c # "SmsText" /\ c \in Commands /\ command' = None
  BY DEF ModemSwallow, TypeOK, Sim808TypeOK
<1>2. status["gsm"] = "SEND_SMS_2" /\ c # "ATE0" /\ c # "AT+CMGL"
  BY <1>1, GsmAsks DEF ModemSwallow, EntryInv
<1>3. /\ Silence /\ ~rx_clearing /\ queue_sim808 = <<>> /\ sms_check = 0
      /\ uart_rx \in Seq(Tokens)
  BY <1>1, <1>2, WorkingLine
<1>4. CASE uart_rx' = uart_rx \o <<>>
  <2>1. uart_rx' = <<>> /\ queue_sim808' = <<>> /\ rx_status' = 0
    BY <1>3, <1>4 DEF Silence, rxVars
  <2>2. Own(c)' /\ RealResponses'
    BY <2>1 DEF Own, RealResponses
  <2>3. Load' <= 8
    BY <2>1 DEF Load
  <2>4. Framed'
    BY <1>1, <1>3, <2>1 DEF Framed, Silence
  <2> QED
    BY <1>1, <1>2, <2>2, <2>3, <2>4 DEF Answered, LineInv
<1>5. CASE uart_rx' = uart_rx \o <<NL, Token(">", NoFix, c)>>
  <2>1. Prompting' /\ Own(c)' /\ Load' <= 8 /\ RealResponses'
    BY <1>1, <1>3, <1>5, PromptShape
  <2>2. LineInv'
    BY <1>1, <1>3, <2>1 DEF LineInv, Framed, rxVars
  <2> QED
    BY <1>1, <1>2, <2>1, <2>2 DEF Answered
<1> QED
  BY <1>4, <1>5 DEF ModemSwallow, Say

LEMMA ModemLine ==
    ASSUME TypeOK, LineInv, Pending, EntryInv, NEW c, command = c, Answering, budget = 0,
           ~crowded',
           c = "AT+CMGS" => phone_number = "owner"
    PROVE  c \in Commands /\ c # None /\ Answered(c)
<1>1. c \in Commands /\ c # None
  BY DEF Answering, Modem, ModemAnswer, ModemPrompt, ModemSend, ModemSwallow, ModemSilent,
         TypeOK, Sim808TypeOK, None
<1>2. ModemPrompt(phone_number = "owner") => ModemPrompt(TRUE)
  BY DEF ModemPrompt
<1>3. ~ModemSilent
  BY NoFault DEF ModemSilent
<1> QED
  BY <1>1, <1>2, <1>3, AnswerStep, PromptStep, SendStep, SwallowStep DEF Answering, Modem
-----------------------------------------------------------------------------
(* The steps of the modem and of the receiver keep the invariant.           *)

dialogueVars == <<uart_rx, command, entry, ready, rxVars, queue_sim808, sms_check, taskVars,
                  binary_sim808, phone_number, retried>>

(* It is about these variables only.                                        *)
LEMMA SameDialogue ==
    ASSUME DialogueInv, UNCHANGED dialogueVars
    PROVE  DialogueInv'
<1> USE DEF dialogueVars, rxVars, taskVars
<1>1. /\ Into' = Into /\ Silence' = Silence /\ NoPrompt' = NoPrompt /\ Load' = Load
      /\ OneLine' = OneLine /\ TwoLines' = TwoLines /\ Prompting' = Prompting
      /\ OnlyOk' = OnlyOk /\ Message' = Message /\ RealResponses' = RealResponses
  BY DEF Into, Silence, NoPrompt, Load, OneLine, TwoLines, Prompting, OnlyOk, Message,
         RealResponses, Shape
<1>2. LineInv'
  BY <1>1 DEF DialogueInv, LineInv, Framed
<1>3. OwnAnswers' /\ Pending'
  BY DEF DialogueInv, AskInv, OwnAnswers, Pending, Waits, Asked, Own, Into
<1>4. BootInv' /\ EntryInv' /\ PromptInv'
  BY <1>1 DEF DialogueInv, AskInv, BootInv, Booting, EntryInv, PromptInv
<1> QED
  BY <1>2, <1>3, <1>4 DEF DialogueInv, AskInv

(* At most one task waits for an answer.                                    *)
LEMMA OneWaits ==
    ASSUME TypeOK, MutexInv, AskInv, NEW t \in Tasks, NEW u \in Tasks, Waits(t), Waits(u)
    PROVE  t = u
<1>1. CASE Booting
  <2>1. status["gps"] = "WAIT_GSM_INIT"
    BY <1>1 DEF AskInv, BootInv
  <2>2. ~Waits("gps")
    BY <2>1, AskedBy DEF Waits, HoldingWaits, Tasks
  <2> QED
    BY <2>2 DEF Tasks
<1>2. CASE ~Booting
  <2>1. \A v \in Tasks : Waits(v) => InExchange(v)
    BY <1>2, AskedBy DEF Waits, InExchange, Booting, Tasks
  <2> QED
    BY <2>1 DEF MutexInv, MutexOwner, AskInv
<1> QED
  BY <1>1, <1>2

(* The modem answers: the number dialled is that of an alert.               *)
LEMMA AnsweringDialogue ==
    ASSUME TypeOK, MutexInv, AlertJustified, DialogueInv, budget = 0, Answering, ~crowded'
    PROVE  DialogueInv'
<1> DEFINE c == command
<1>1. UNCHANGED <<taskVars, status, pc, binary_sim808, phone_number, retried, sms_check, rxVars,
                  queue_sim808>>
  BY DEF Answering, TrackerFrame, taskVars, configVars
<1>2. c = "AT+CMGS" => phone_number = "owner"
  <2> SUFFICES ASSUME c = "AT+CMGS" PROVE phone_number = "owner"
    OBVIOUS
  <2>1. AlertAtGsm
    BY GsmAsks DEF DialogueInv, AskInv, AlertAtGsm
  <2> QED
    BY <2>1 DEF AlertJustified, DialogueInv, AskInv, TypeOK, TrackerTypeOK
<1>3. \A d : d = c => d \in Commands /\ d # None /\ Answered(d)
  BY <1>2, ModemLine DEF DialogueInv, AskInv
<1>4. PICK d : d = c
  OBVIOUS
<1>5. d \in Commands /\ d # None /\ Answered(d)
  BY <1>3, <1>4
<1>6. PICK t \in Tasks : pc[t] = "case" /\ Asked(t) = d
  BY <1>4, <1>5 DEF DialogueInv, AskInv, Pending
<1>7. OwnAnswers' /\ Pending'
  <2>1. ASSUME NEW u \in Tasks, Waits(u)' PROVE Own(Asked(u))'
    <3>1. Waits(u) /\ Asked(u)' = Asked(u)
      BY <1>1, <2>1 DEF Waits, Asked
    <3>2. Waits(t)
      BY <1>5, <1>6 DEF Waits
    <3>3. Asked(u)' = d
      BY <1>6, <3>1, <3>2, OneWaits DEF DialogueInv
    <3>4. Own(d)'
      BY <1>5 DEF Answered
    <3> QED
      BY <3>3, <3>4 DEF Own
  <2> QED
    BY <1>5, <2>1 DEF OwnAnswers, Pending, Answered
<1>8. BootInv'
  <2> SUFFICES ASSUME Booting PROVE /\ status["gps"] = "WAIT_GSM_INIT" /\ binary_sim808 = 0
                                    /\ pc["gsm"] = "case" /\ sms_check = 0 /\ NoPrompt'
                                    /\ Load' <= 3
    BY <1>1 DEF BootInv, Booting
  <2>1. /\ status["gps"] = "WAIT_GSM_INIT" /\ binary_sim808 = 0
        /\ pc["gsm"] = "case" /\ sms_check = 0
    BY DEF DialogueInv, AskInv, BootInv
  <2>2. t = "gsm"
    BY <1>5, <1>6, <2>1, AskedBy DEF Tasks, HoldingWaits
  <2>3. d = "ATE0"
    BY <1>5, <1>6, <2>2, AskedBy DEF Booting, HoldingWaits, Tasks
  <2> QED
    BY <1>5, <2>1, <2>3 DEF Answered
<1>9. EntryInv'
  BY <1>1, <1>5 DEF EntryInv, Answered
<1>10. PromptInv'
  <2> SUFFICES ASSUME status["gsm"] = "WAIT_SEND_SMS_1"
               PROVE  pc["gsm"] = "case" /\ queue_sim808 = <<>> /\ Prompting'
    BY <1>1, <1>5 DEF PromptInv, Answered
  <2>1. pc["gsm"] = "case" /\ d = "AT+CMGS"
    BY <1>4, <1>5 DEF DialogueInv, AskInv, PromptInv
  <2>2. queue_sim808 = <<>>
    BY <1>4, <1>5, WorkingLine DEF DialogueInv
  <2> QED
    BY <1>5, <2>1, <2>2 DEF Answered
<1> QED
  BY <1>1, <1>5, <1>7, <1>8, <1>9, <1>10 DEF DialogueInv, AskInv, Answered
(* A line after what is on its way has the shape of both.                   *)
LEMMA ShapeGrows ==
    ASSUME uart_rx \in Seq(Tokens), ReceiveTypeOK, NEW b \in Seq(Tokens), NEW n \in Nat,
           NEW places \in SUBSET (1..n), NEW c, Shape(n, places), NoPrompt,
           Says(b, 3, {2}, c), uart_rx' = uart_rx \o b, UNCHANGED <<rxVars, queue_sim808>>
    PROVE  Shape(n + 3, places \cup {n + 2})' /\ NoPrompt' /\ Load' = Load + 3
<1>0. PICK k \in Nat, m \in Nat : k = Len(uart_rx) /\ m = Len(b)
  OBVIOUS
<1>1. Into \in 0..2 /\ Into' = Into /\ k + Into = n /\ m = 3
  BY <1>0 DEF Into, rxVars, Shape, Says
<1>2. Len(uart_rx') = k + 3
  <2>1. Len(uart_rx \o b) = Len(uart_rx) + Len(b)
    BY ConcatProperties
  <2> QED
    BY <1>0, <1>1, <2>1, Zenon
<1>3. ASSUME NEW i \in 1..(k + m)
      PROVE  /\ IsText(uart_rx'[i]) <=> i + Into \in places \cup {n + 2}
             /\ uart_rx'[i].text # ">"
  <2>1. CASE i <= k
    <3>1. i \in 1..k /\ uart_rx'[i] = uart_rx[i]
      BY <1>0, <2>1
    <3>2. i + Into \in 1..n
      BY <1>1, <3>1
    <3>3. IsText(uart_rx[i]) <=> i + Into \in places
      BY <1>0, <3>1 DEF Shape
    <3> QED
      BY <1>0, <3>1, <3>2, <3>3 DEF NoPrompt
  <2>2. CASE ~(i <= k)
    <3>1. i - k \in 1..m /\ uart_rx'[i] = b[i - k]
      BY <1>0, <2>2
    <3>2. n + (i - k) = i + Into
      BY <1>1
    <3>3. i + Into \in places \cup {n + 2} <=> i - k \in {2}
      <4>1. i + Into = n + (i - k) /\ i - k >= 1
        BY <1>1, <3>1, <3>2
      <4>2. i + Into \notin places
        BY <4>1
      <4>3. i + Into = n + 2 <=> i - k = 2
        BY <1>1, <4>1
      <4> QED
        BY <4>2, <4>3
    <3> QED
      BY <1>1, <3>1, <3>3 DEF Says
  <2> QED
    BY <2>1, <2>2
<1>4. Len(uart_rx') + Into' = n + 3
  BY <1>1, <1>2
<1>5. Shape(n + 3, places \cup {n + 2})'
  BY <1>1, <1>2, <1>3, <1>4 DEF Shape
<1>6. NoPrompt'
  BY <1>1, <1>2, <1>3 DEF NoPrompt
<1>7. queue_sim808' = queue_sim808 /\ rx_status' = rx_status
  BY DEF rxVars
<1>8. Load' = Load + 3
  BY <1>0, <1>1, <1>2, <1>7 DEF Load, ReceiveTypeOK
<1> QED
  BY <1>5, <1>6, <1>8
(* "SMS Ready" comes while task_gsm waits for it, task_gps sleeps and there *)
(* is at most one line before it.                                           *)
LEMMA ReadyDialogue ==
    ASSUME TypeOK, DialogueInv, budget = 0, Happening,
           ModemReady(status["gsm"] = "SMS_READY")
    PROVE  DialogueInv'
<1> DEFINE b == Line("SMS Ready", None)
<1>1. /\ status["gsm"] = "SMS_READY" /\ uart_rx' = uart_rx \o b /\ ready' /\ ~ready
      /\ UNCHANGED <<command, entry, rxVars, queue_sim808, sms_check, status, pc,
                     binary_sim808, phone_number, retried, rx_clearing>>
  BY NoFault DEF Happening, TrackerFrame, ModemReady, Say, taskVars, configVars, rxVars
<1>2. /\ status["gps"] = "WAIT_GSM_INIT" /\ binary_sim808 = 0 /\ pc["gsm"] = "case"
      /\ sms_check = 0 /\ NoPrompt /\ Load <= 3
  BY <1>1 DEF DialogueInv, AskInv, BootInv, Booting
<1>3. \A t \in Tasks : Asked(t) = None
  BY <1>1, <1>2 DEF Asked, Tasks
<1>4. command = None
  BY <1>3 DEF DialogueInv, AskInv, Pending
<1>5. uart_rx \in Seq(Tokens) /\ ReceiveTypeOK /\ Load \in Nat
  BY DEF Load, Into, TypeOK, Sim808TypeOK, ReceiveTypeOK
<1>6. b \in Seq(Tokens) /\ Says(b, 3, {2}, None)
  BY LineType, LineSays DEF Texts
<1>7. (OneLine \/ TwoLines)' /\ Load' <= 8
  <2>1. Silence \/ OneLine
    <3>1. ~TwoLines /\ ~Message /\ ~Prompting
      <4>1. ~Prompting
        BY <1>2, <1>5, Lengths
      <4>2. Load >= Len(uart_rx) /\ (rx_status = 2 => Load >= Len(uart_rx) + Into)
        BY <1>5, Lengths DEF Load, ReceiveTypeOK
      <4>3. Len(uart_rx) + Into <= 5
        BY <1>2, <1>5, <4>2, Lengths
      <4> QED
        BY <1>5, <4>1, <4>3, Lengths
    <3> QED
      BY <3>1 DEF DialogueInv, LineInv, Framed
  <2>2. CASE Silence
    <3>1. Shape(0, {}) /\ {} \in SUBSET (1..0)
      BY <2>2 DEF Silence, Shape, Into
    <3>2. Shape(0 + 3, {} \cup {0 + 2})' /\ NoPrompt' /\ Load' = Load + 3
      BY <1>1, <1>2, <1>5, <1>6, <3>1, ShapeGrows
    <3>3. 0 + 3 = 3 /\ {} \cup {0 + 2} = {2}
      OBVIOUS
    <3>4. OneLine'
      BY <3>2, <3>3, Zenon DEF OneLine
    <3> QED
      BY <1>2, <1>5, <3>2, <3>4
  <2>3. CASE OneLine
    <3>1. Shape(3, {2}) /\ {2} \in SUBSET (1..3)
      BY <2>3 DEF OneLine
    <3>2. Shape(3 + 3, {2} \cup {3 + 2})' /\ NoPrompt' /\ Load' = Load + 3
      BY <1>1, <1>2, <1>5, <1>6, <3>1, ShapeGrows
    <3>3. 3 + 3 = 6 /\ {2} \cup {3 + 2} = {2, 5}
      OBVIOUS
    <3>4. TwoLines'
      BY <3>2, <3>3, Zenon DEF TwoLines
    <3> QED
      BY <1>2, <1>5, <3>2, <3>4
  <2> QED
    BY <2>1, <2>2, <2>3
<1>8. LineInv'
  <2>1. Framed'
    BY <1>1, <1>2, <1>4, <1>7 DEF Framed
  <2>2. RealResponses'
    BY <1>1 DEF DialogueInv, LineInv, RealResponses
  <2> QED
    BY <1>7, <2>1, <2>2 DEF LineInv
<1>9. OwnAnswers' /\ Pending' /\ PromptInv'
  BY <1>1, <1>3, <1>4 DEF OwnAnswers, Waits, Asked, Pending, PromptInv
<1>10. NoPrompt'
  BY <1>7 DEF OneLine, TwoLines
<1>11. BootInv' /\ EntryInv'
  BY <1>1, <1>2, <1>10 DEF BootInv, EntryInv, DialogueInv, AskInv
<1> QED
  BY <1>1, <1>8, <1>9, <1>11 DEF DialogueInv, AskInv

LEMMA HappeningDialogue ==
    ASSUME TypeOK, DialogueInv, budget = 0, Happening
    PROVE  DialogueInv'
<1>1. CASE ModemReady(status["gsm"] = "SMS_READY")
  BY <1>1, ReadyDialogue
<1>2. CASE ModemUnsolicited
  BY <1>2, NoFault DEF ModemUnsolicited
<1>3. CASE ModemMessage
  <2>1. UNCHANGED dialogueVars
    BY <1>3 DEF ModemMessage, Happening, TrackerFrame, dialogueVars, configVars
  <2> QED
    BY <2>1, SameDialogue
<1> QED
  BY <1>1, <1>2, <1>3 DEF Happening, ModemOnItsOwn

(* The prompt is on its way until it is queued.                             *)
LEMMA PromptArrives ==
    ASSUME TypeOK, LineInv, Receiving, Prompting
    PROVE  \/ Prompting' /\ UNCHANGED queue_sim808
           \/ \E r \in Responses : r.text = ">" /\ queue_sim808' = Append(queue_sim808, r)
<1> USE DEF Receiving, Receive
<1>1. uart_rx \in Seq(Tokens) /\ uart_rx # <<>>
  BY DEF Prompting, Shape, Into, TypeOK, Sim808TypeOK
<1>2. ~rx_clearing
  <2>1. ~Silence /\ ~OneLine /\ ~TwoLines
    BY <1>1, Lengths
  <2> QED
    BY <2>1 DEF LineInv, Framed
<1>3. IsText(uart_rx[1]) => uart_rx[1].text = ">"
  BY <1>1, NextToken DEF Prompting
<1>4. CASE RxLineStart
  <2>1. /\ uart_rx' = Tail(uart_rx) /\ Into = 0 /\ Into' = 1 /\ UNCHANGED queue_sim808
    BY <1>4 DEF RxLineStart, ConsumeToken, Into, TypeOK, ReceiveTypeOK, Responses
  <2>2. Shape(2, {2})'
    BY <1>1, <2>1, ShapeMoves DEF Prompting
  <2>3. 2 - Into = 2 /\ 2 - Into' = 1 /\ Into' < 2 /\ Len(uart_rx') = 1
    BY <1>1, <2>1, <2>2 DEF Shape
  <2>4. uart_rx'[1] = uart_rx[2]
    BY <1>1, <2>1, <2>3, TailTokens
  <2> QED
    BY <2>1, <2>2, <2>3, <2>4 DEF Prompting
<1>5. CASE RxPrompt
  <2>1. /\ queue_sim808' = Append(queue_sim808, Capture(uart_rx[1])) /\ uart_rx[1].text = ">"
        /\ Capture(uart_rx[1]) \in Responses
    BY <1>1, <1>5, ReceiveType DEF RxPrompt, AtText, TypeOK, ReceiveTypeOK
  <2> QED
    BY <2>1, CaptureSize
<1>6. CASE RxSkip
  <2>1. IsText(uart_rx[1]) /\ Into = 0
    BY <1>1, <1>6 DEF RxSkip, AtText, IsText, Into
  <2> QED
    BY <1>1, <2>1, NextToken
<1>7. CASE RxText
  BY <1>1, <1>3, <1>7 DEF RxText, AtText, IsText
<1>8. CASE RxLineEnd
  BY <1>2, <1>8, EndFramed DEF Prompting
<1>9. CASE RxAfterLine
  BY <1>9 DEF RxAfterLine, Prompting, Into
<1> QED
  BY <1>2, <1>4, <1>5, <1>6, <1>7, <1>8, <1>9 DEF RxByte, RxClear

(* task_sim808_receive passes on what belongs to the task that waits.       *)
LEMMA ReceivingDialogue ==
    ASSUME TypeOK, DialogueInv, Receiving
    PROVE  DialogueInv'
<1>1. /\ UNCHANGED <<command, entry, ready, status, pc, binary_sim808, phone_number, retried>>
      /\ sms_check' = sms_check \/ sms_check' = 0
  BY DEF Receiving, Receive, RxByte, RxLineStart, RxSkip, RxText, RxPrompt, RxLineEnd,
         RxAfterLine, RxClear, TrackerFrame, taskVars, configVars
<1>2. LineInv' /\ Load' <= Load
  BY ReceiveLine DEF DialogueInv
<1>3. \A c : Own(c) => Own(c)'
  BY ReceiveOwn DEF DialogueInv
<1>4. OwnAnswers'
  <2> SUFFICES ASSUME NEW t \in Tasks, Waits(t)' PROVE Own(Asked(t))'
    BY DEF OwnAnswers
  <2>1. PICK c : c = Asked(t)
    OBVIOUS
  <2>2. Waits(t) /\ Asked(t)' = c
    BY <1>1, <2>1 DEF Waits, Asked
  <2>3. Own(c)'
    BY <1>3, <2>1, <2>2 DEF DialogueInv, AskInv, OwnAnswers
  <2> QED
    BY <2>2, <2>3 DEF Own
<1>5. Pending'
  BY <1>1 DEF DialogueInv, AskInv, Pending, Asked
<1>6. NoPrompt => NoPrompt'
  <2>1. uart_rx' = uart_rx \/ (uart_rx # <<>> /\ uart_rx' = Tail(uart_rx))
    BY DEF Receiving, Receive, RxByte, RxLineStart, RxSkip, RxText, RxPrompt, RxLineEnd,
           RxAfterLine, RxClear, AtNL, AtText, ConsumeToken
  <2> QED
    BY <2>1, TailTokens DEF NoPrompt, TypeOK, Sim808TypeOK
<1>7. BootInv'
  <2>1. Load \in Nat /\ Load' \in Int
    BY AirType DEF Load, Into, TypeOK, Sim808TypeOK, ReceiveTypeOK
  <2> QED
    BY <1>1, <1>2, <1>6, <2>1 DEF DialogueInv, AskInv, BootInv, Booting
<1>8. EntryInv'
  BY <1>1 DEF DialogueInv, AskInv, EntryInv
<1>9. PromptInv'
  <2> SUFFICES ASSUME status["gsm"] = "WAIT_SEND_SMS_1", command = None
               PROVE  IF queue_sim808' = <<>> THEN Prompting' ELSE queue_sim808'[1].text = ">"
    BY <1>1 DEF DialogueInv, AskInv, PromptInv
  <2>0. queue_sim808 \in Seq(Responses)
    BY DEF TypeOK, ReceiveTypeOK
  <2>1. CASE queue_sim808 = <<>>
    <3>1. Prompting
      BY <2>1 DEF DialogueInv, AskInv, PromptInv
    <3>2. CASE Prompting' /\ UNCHANGED queue_sim808
      BY <2>1, <3>2
    <3>3. ASSUME NEW r \in Responses, r.text = ">", queue_sim808' = Append(queue_sim808, r)
          PROVE  queue_sim808' # <<>> /\ queue_sim808'[1].text = ">"
      BY <2>0, <2>1, <3>3
    <3> QED
      BY <3>1, <3>2, <3>3, PromptArrives DEF DialogueInv
  <2>2. CASE queue_sim808 # <<>>
    <3>1. queue_sim808[1].text = ">" /\ Len(queue_sim808) >= 1
      BY <2>0, <2>2 DEF DialogueInv, AskInv, PromptInv
    <3>2. \/ UNCHANGED queue_sim808
          \/ \E r \in Responses : queue_sim808' = Append(queue_sim808, r)
      BY ReceiveType DEF Receiving, Receive, RxByte, RxLineStart, RxSkip, RxText, RxPrompt,
                         RxLineEnd, RxAfterLine, RxClear, TypeOK, ReceiveTypeOK
    <3>3. ASSUME NEW r \in Responses, queue_sim808' = Append(queue_sim808, r)
          PROVE  queue_sim808' # <<>> /\ queue_sim808'[1].text = ">"
      BY <2>0, <3>1, <3>3, QueueGrows
    <3> QED
      BY <2>2, <3>1, <3>2, <3>3
  <2> QED
    BY <2>1, <2>2
<1> QED
  BY <1>1, <1>2, <1>4, <1>5, <1>7, <1>8, <1>9 DEF DialogueInv, AskInv
-----------------------------------------------------------------------------
(* Sending a command.                                                       *)

(***************************************************************************)
(* A quiet line is in phase, and a delay ends on a quiet line only: there  *)
(* is never so much under way that queue_sim808 is full.                   *)
(***************************************************************************)
LEMMA QuietInPhase ==
    ASSUME TypeOK, LineInv, Quiet
    PROVE  Silence /\ command = None /\ ~rx_clearing /\ sms_check = 0
<1>1. uart_rx = <<>> /\ command = None /\ ~rx_clearing /\ sms_check \in {0, 1}
  BY DEF Quiet, TypeOK, ReceiveTypeOK
<1>2. Len(uart_rx) = 0 /\ uart_rx \in Seq(Tokens)
  BY <1>1
<1>3. ~OneLine /\ ~TwoLines /\ ~Message
  BY <1>2, Lengths
<1>4. ~Prompting
  BY <1>2, Lengths DEF Prompting
<1> QED
  BY <1>1, <1>3, <1>4 DEF LineInv, Framed

LEMMA DelayEnds ==
    ASSUME TypeOK, LineInv, budget = 0, Elapsed
    PROVE  Quiet /\ Silence /\ command = None /\ ~rx_clearing /\ sms_check = 0
<1>1. Quiet \/ Len(queue_sim808) = SimLength
  BY NoFault DEF Elapsed
<1>2. Len(queue_sim808) # SimLength
  <2>1. PICK k \in Nat : k = Len(queue_sim808)
    BY DEF TypeOK, ReceiveTypeOK
  <2>2. Load >= 2 * k /\ Load \in Nat
    BY <2>1, Lengths DEF Load, TypeOK, Sim808TypeOK, ReceiveTypeOK
  <2>3. Load <= 8
    BY DEF LineInv
  <2>4. k # 5
    BY <2>2, <2>3
  <2> QED
    BY <2>1, <2>4, Zenon DEF SimLength
<1> QED
  BY <1>1, <1>2, QuietInPhase

(* The command goes out on a silent line, with the queue emptied.           *)
LEMMA SentLine ==
    ASSUME TypeOK, LineInv, budget = 0, NEW t, NEW p, NEW case, NEW c \in Commands, NEW next,
           Send(t, p, case, c, next),
           sms_check' = IF c = "AT+CMGL" THEN 1 ELSE sms_check
    PROVE  /\ LineInv' /\ NoPrompt' /\ Load' = 0 /\ command' = c /\ command = None
           /\ \A d : Own(d)'
           /\ c # "AT+CMGL" => sms_check' = 0
<1>1. Silence /\ command = None /\ ~rx_clearing /\ sms_check = 0
  BY DelayEnds DEF Send
<1>2. /\ uart_rx' = <<>> /\ rx_status' = 0 /\ ~rx_clearing' /\ queue_sim808' = <<>>
      /\ command' = c /\ Into' = 0
  BY <1>1 DEF Send, Accept, Emptied, Silence, rxVars, Into
<1>3. NoPrompt' /\ Load' = 0 /\ RealResponses' /\ \A d : Own(d)'
  BY <1>2 DEF NoPrompt, Load, RealResponses, Own
<1>4. Framed'
  <2>1. (sms_check' = 1 <=> c = "AT+CMGL") /\ c # None
    BY <1>1 DEF Commands, Queries, None
  <2>2. Silence'
    BY <1>2 DEF Silence
  <2> QED
    BY <1>2, <2>1, <2>2 DEF Framed
<1>5. LineInv'
  <2>1. Load' <= 8
    BY <1>3
  <2> QED
    BY <1>3, <1>4, <2>1 DEF LineInv
<1> QED
  BY <1>1, <1>2, <1>3, <1>5

(* While task_gsm waits for the prompt, task_gps holds no mutex.            *)
LEMMA PromptAlone ==
    ASSUME TypeOK, MutexInv, AskInv, status["gsm"] = "WAIT_SEND_SMS_1"
    PROVE  ~InExchange("gps")
<1>1. InExchange("gsm")
  BY DEF AskInv, PromptInv, InExchange, HoldingWaits
<1> QED
  BY <1>1 DEF MutexInv, MutexOwner, AskInv, Tasks

(* A sending case of task_gsm.                                              *)
LEMMA GsmSends ==
    ASSUME TypeOK, DialogueInv, budget = 0, NEW p, NEW case, NEW c \in Commands,
           NEW next \in GsmStatuses, Send("gsm", p, case, c, next), TypeOK',
           sms_check' = IF c = "AT+CMGL" THEN 1 ELSE sms_check,
           Asked("gsm")' = c,
           case # "WAIT_SEND_SMS_1", case # "WAIT_SEND_SMS_2",
           case = "SEND_SMS_2" => next = "WAIT_SEND_SMS_2" /\ c = "SmsText",
           next = "WAIT_SEND_SMS_1" => c = "AT+CMGS",
           next \in {"DISABLE_ECHO", "WAIT_ECHO", "SMS_READY"} =>
               case = "DISABLE_ECHO" /\ c # "AT+CMGL"
    PROVE  DialogueInv'
<1>1. /\ status["gsm"] = case /\ status'["gsm"] = next /\ pc'["gsm"] = "case"
      /\ status'["gps"] = status["gps"]
      /\ UNCHANGED <<binary_sim808, phone_number, retried, entry, ready>>
  BY TypeParts DEF Send, At, Goto, TaskTypeOK, Tasks, Accept, configVars
<1>2. /\ LineInv' /\ NoPrompt' /\ Load' = 0 /\ command' = c /\ command = None
      /\ \A d : Own(d)'
      /\ c # "AT+CMGL" => sms_check' = 0
  BY SentLine DEF DialogueInv
<1>3. OwnAnswers'
  <2>1. \A t \in Tasks : Own(Asked(t))'
    BY <1>2 DEF Own
  <2> QED
    BY <2>1 DEF OwnAnswers
<1>4. Pending'
  BY <1>1, <1>2 DEF Pending, Tasks
<1>5. BootInv'
  <2>1. Load' <= 3
    BY <1>2
  <2> QED
    BY <1>1, <1>2, <2>1 DEF BootInv, Booting, DialogueInv, AskInv
<1>6. EntryInv'
  BY <1>1, <1>2 DEF EntryInv, DialogueInv, AskInv
<1>7. PromptInv'
  <2>1. c # None
    BY DEF Commands, Queries, None
  <2> QED
    BY <1>1, <1>2, <2>1 DEF PromptInv
<1> QED
  BY <1>1, <1>2, <1>3, <1>4, <1>5, <1>6, <1>7 DEF DialogueInv, AskInv

(* A sending case of task_gps.                                              *)
LEMMA GpsSends ==
    ASSUME TypeOK, MutexInv, DialogueInv, budget = 0, NEW case, case # "WAIT_GSM_INIT",
           NEW c \in Commands, c # "AT+CMGL",
           NEW next \in GpsStatuses, Ask("gps", case, c, next), Asked("gps")' = c
    PROVE  DialogueInv'
<1>1. /\ status["gps"] = case /\ pc["gps"] = "delay" /\ pc'["gps"] = "case"
      /\ status'["gsm"] = status["gsm"] /\ pc'["gsm"] = pc["gsm"]
      /\ UNCHANGED <<binary_sim808, phone_number, retried, entry, ready, sms_check>>
  BY TypeParts DEF Ask, Send, At, Goto, TaskTypeOK, Tasks, Accept, configVars
<1>2. /\ LineInv' /\ command' = c /\ command = None /\ \A d : Own(d)'
  BY SentLine DEF DialogueInv, Ask
<1>3. OwnAnswers'
  <2>1. \A t \in Tasks : Own(Asked(t))'
    BY <1>2 DEF Own
  <2> QED
    BY <2>1 DEF OwnAnswers
<1>4. Pending'
  BY <1>1, <1>2 DEF Pending, Tasks
<1>5. BootInv'
  BY <1>1 DEF BootInv, Booting, DialogueInv, AskInv
<1>6. status["gsm"] # "WAIT_SEND_SMS_1"
  BY <1>1, PromptAlone DEF DialogueInv, InExchange
<1>7. EntryInv' /\ PromptInv'
  BY <1>1, <1>2, <1>6 DEF EntryInv, PromptInv, DialogueInv, AskInv, None
<1> QED
  BY <1>1, <1>2, <1>3, <1>4, <1>5, <1>7 DEF DialogueInv, AskInv
-----------------------------------------------------------------------------
(* Hearing an answer, and everything else the tasks do.                     *)

(* What a step of a task leaves on its way to those who wait.               *)
LineKept ==
    /\ LineInv' /\ Load \in Nat /\ Load' \in Nat /\ Load' <= Load
    /\ NoPrompt => NoPrompt'
    /\ \A c : Own(c) => Own(c)'
    /\ UNCHANGED <<command, entry, ready, sms_check>>

LEMMA SameLine ==
    ASSUME TypeOK, LineInv,
           UNCHANGED <<uart_rx, rxVars, queue_sim808, command, entry, ready, sms_check>>
    PROVE  LineKept
<1> USE DEF rxVars
<1>1. /\ Into' = Into /\ Silence' = Silence /\ NoPrompt' = NoPrompt /\ Load' = Load
      /\ OneLine' = OneLine /\ TwoLines' = TwoLines /\ Prompting' = Prompting
      /\ OnlyOk' = OnlyOk /\ Message' = Message /\ RealResponses' = RealResponses
  BY DEF Into, Silence, NoPrompt, Load, OneLine, TwoLines, Prompting, OnlyOk, Message,
         RealResponses, Shape
<1>2. LineInv'
  BY <1>1 DEF LineInv, Framed
<1>3. \A c : Own(c) => Own(c)'
  BY DEF Own, Into
<1>4. Load \in Nat
  BY Lengths DEF Load, TypeOK, Sim808TypeOK, ReceiveTypeOK
<1> QED
  BY <1>1, <1>2, <1>3, <1>4 DEF LineKept

(* A response taken from the queue: the modem works on no command by then.  *)
LEMMA HearsLine ==
    ASSUME TypeOK, LineInv, NEW t, NEW case, NEW p, Hears(t, case, p), AnswerFrame
    PROVE  LineKept /\ command = None /\ Heard = queue_sim808[1] /\ queue_sim808 # <<>>
<1>1. /\ UNCHANGED <<uart_rx, rxVars, rx_status, rx_clearing, last_response, command, entry,
                     ready, sms_check>>
      /\ queue_sim808 # <<>> /\ queue_sim808' = Tail(queue_sim808)
  BY DEF Hears, AnswerFrame, rxVars
<1>2. queue_sim808 \in Seq(Responses)
  BY DEF TypeOK, ReceiveTypeOK
<1>3. PICK k \in Nat : k = Len(queue_sim808') /\ k + 1 = Len(queue_sim808)
  BY <1>1, <1>2
<1>4. \A i \in 1..k : queue_sim808'[i] = queue_sim808[i + 1] /\ i + 1 \in 1..(k + 1)
  BY <1>1, <1>2, <1>3
<1>5. command = None
  BY <1>1 DEF LineInv, Framed
<1>6. /\ Into' = Into /\ Silence' = Silence /\ NoPrompt' = NoPrompt
      /\ OneLine' = OneLine /\ TwoLines' = TwoLines /\ Prompting' = Prompting
      /\ OnlyOk' = OnlyOk /\ Message' = Message
  BY <1>1 DEF Into, Silence, NoPrompt, OneLine, TwoLines, Prompting, OnlyOk, Message, Shape
<1>7. Framed'
  BY <1>1, <1>5, <1>6 DEF LineInv, Framed
<1>8. RealResponses'
  BY <1>3, <1>4 DEF LineInv, RealResponses
<1>9. Load \in Nat /\ Load' \in Nat /\ Load' <= Load /\ Load' <= 8
  <2>1. PICK n \in Nat, m \in Nat :
             n = Len(uart_rx) /\ m = (IF rx_status = 2 THEN Into ELSE 0)
    BY Lengths DEF TypeOK, Sim808TypeOK
  <2>2. Load = 2 * (k + 1) + n + m
    BY <1>3, <2>1 DEF Load
  <2>3. Load' = 2 * k + n + m
    <3>1. UNCHANGED <<uart_rx, rx_status, Into>>
      BY <1>1, <1>6
    <3> QED
      BY <1>3, <2>1, <3>1 DEF Load
  <2> QED
    BY <2>2, <2>3 DEF LineInv
<1>10. \A c : Own(c) => Own(c)'
  BY <1>1, <1>3, <1>4, <1>6 DEF Own
<1>11. LineInv'
  BY <1>7, <1>8, <1>9 DEF LineInv
<1>12. Heard = queue_sim808[1]
  BY <1>1, <1>2 DEF Heard
<1> QED
  BY <1>1, <1>5, <1>6, <1>9, <1>10, <1>11, <1>12 DEF LineKept

(* A timeout on an empty queue: the line is silent as well.                 *)
LEMMA TimeoutLine ==
    ASSUME TypeOK, LineInv, budget = 0, NEW t, NEW case, TimesOut(t, case), AnswerFrame
    PROVE  LineKept /\ command = None /\ Silence /\ queue_sim808 = <<>>
<1>1. Silence /\ command = None /\ queue_sim808 = <<>>
  BY DelayEnds DEF TimesOut
<1>2. LineKept
  BY SameLine DEF TimesOut, AnswerFrame
<1> QED
  BY <1>1, <1>2

(***************************************************************************)
(* A step of task_gsm that sends nothing: it waits after it only if it did *)
(* before, for the same answer, and the modem does not work for it.        *)
(***************************************************************************)
LEMMA GsmKeeps ==
    ASSUME TypeOK, DialogueInv, LineKept, ~retried', phone_number' # "raw",
           NEW s, NEW p, status'["gsm"] = s, pc'["gsm"] = p,
           status'["gps"] = status["gps"], pc'["gps"] = pc["gps"],
           Waits("gsm")' => Waits("gsm") /\ Asked("gsm")' = Asked("gsm"),
           command # None => ~(pc["gsm"] = "case" /\ Asked("gsm") = command),
           s \in {"DISABLE_ECHO", "WAIT_ECHO", "SMS_READY"} =>
               Booting /\ p = "case" /\ UNCHANGED binary_sim808,
           entry => (status["gsm"] = "WAIT_SEND_SMS_2" /\ command = None)
                    \/ (status["gsm"] \in {"SEND_SMS_2", "WAIT_SEND_SMS_1"} /\ s = "SEND_SMS_2"),
           s # "WAIT_SEND_SMS_1"
    PROVE  DialogueInv'
<1>0. OwnAnswers /\ Pending /\ BootInv /\ EntryInv /\ PromptInv
  BY DEF DialogueInv, AskInv
<1>1. OwnAnswers'
  <2> SUFFICES ASSUME NEW t \in Tasks, Waits(t)' PROVE Own(Asked(t))'
    BY DEF OwnAnswers
  <2>1. Waits(t) /\ Asked(t)' = Asked(t)
    BY DEF Tasks, Waits, Asked
  <2>2. PICK c : c = Asked(t)
    OBVIOUS
  <2>3. Own(c)'
    BY <1>0, <2>1, <2>2 DEF OwnAnswers, LineKept
  <2> QED
    BY <2>1, <2>2, <2>3 DEF Own
<1>2. Pending'
  BY <1>0 DEF Pending, LineKept, Tasks, Asked
<1>3. BootInv'
  <2> SUFFICES ASSUME Booting' PROVE /\ status'["gps"] = "WAIT_GSM_INIT" /\ binary_sim808' = 0
                                     /\ pc'["gsm"] = "case" /\ sms_check' = 0 /\ NoPrompt'
                                     /\ (~ready' => Load' <= 3)
    BY DEF BootInv
  <2>1. Booting
    BY DEF Booting
  <2> QED
    BY <1>0, <2>1 DEF BootInv, Booting, LineKept
<1>4. EntryInv'
  BY <1>0 DEF EntryInv, LineKept, None
<1>5. PromptInv'
  BY DEF PromptInv
<1>6. LineInv'
  BY DEF LineKept
<1> QED
  BY <1>1, <1>2, <1>3, <1>4, <1>5, <1>6, Zenon DEF DialogueInv, AskInv

(* The same for task_gps: it takes nothing while task_gsm waits for the     *)
(* prompt.                                                                  *)
LEMMA GpsKeeps ==
    ASSUME TypeOK, DialogueInv, LineKept, UNCHANGED <<retried, phone_number>>,
           status'["gsm"] = status["gsm"], pc'["gsm"] = pc["gsm"],
           Waits("gps")' => Waits("gps") /\ Asked("gps")' = Asked("gps"),
           command # None => ~(pc["gps"] = "case" /\ Asked("gps") = command),
           Booting => status'["gps"] = "WAIT_GSM_INIT" /\ UNCHANGED binary_sim808,
           status["gsm"] = "WAIT_SEND_SMS_1" => UNCHANGED <<uart_rx, rxVars, queue_sim808>>
    PROVE  DialogueInv'
<1> USE DEF DialogueInv, AskInv
<1>1. OwnAnswers'
  <2> SUFFICES ASSUME NEW t \in Tasks, Waits(t)' PROVE Own(Asked(t))'
    BY DEF OwnAnswers
  <2>1. Waits(t) /\ Asked(t)' = Asked(t)
    BY DEF Tasks, Waits, Asked
  <2>2. PICK c : c = Asked(t)
    OBVIOUS
  <2>3. Own(c)'
    BY <2>1, <2>2 DEF OwnAnswers, LineKept
  <2> QED
    BY <2>1, <2>2, <2>3 DEF Own
<1>2. Pending'
  BY DEF Pending, LineKept, Tasks, Asked
<1>3. BootInv'
  BY DEF BootInv, Booting, LineKept
<1>4. EntryInv'
  BY DEF EntryInv, LineKept
<1>5. PromptInv'
  BY DEF PromptInv, LineKept, Prompting, Shape, Into, rxVars
<1> QED
  BY <1>1, <1>2, <1>3, <1>4, <1>5 DEF LineKept

(* A case of task_gsm that waits, once it has heard or its time is over.    *)
LEMMA GsmAnswered ==
    ASSUME TypeOK, DialogueInv, budget = 0, NEW case, NEW q \in {"case", "body"},
           Hears("gsm", case, q) \/ TimesOut("gsm", case), AnswerFrame,
           NEW s, NEW p, Goto("gsm", s, p), UNCHANGED retried, phone_number' # "raw",
           case \notin {"WAIT_SEND_SMS_1", "SEND_SMS_2"}, s # "WAIT_SEND_SMS_1",
           p = "give" \/ s = case \/ s \in {"DISABLE_ECHO", "SMS_READY", "TEXT_MODE"},
           s \in {"DISABLE_ECHO", "WAIT_ECHO", "SMS_READY"} =>
               /\ case \in {"WAIT_ECHO", "SMS_READY"} /\ p = "case"
               /\ UNCHANGED binary_sim808
    PROVE  DialogueInv'
<1>1. LineKept /\ command = None
  BY HearsLine, TimeoutLine DEF DialogueInv
<1>2. /\ status["gsm"] = case /\ pc["gsm"] \in {"case", "body"}
      /\ status'["gsm"] = s /\ pc'["gsm"] = p
      /\ status'["gps"] = status["gps"] /\ pc'["gps"] = pc["gps"]
  BY TypeParts DEF Hears, TimesOut, At, Goto, TaskTypeOK, Tasks
<1>3. Waits("gsm")' => Waits("gsm") /\ Asked("gsm")' = Asked("gsm")
  <2>1. s \in {"DISABLE_ECHO", "SMS_READY", "TEXT_MODE"} => Asked("gsm")' = None
    BY <1>2 DEF Asked
  <2>2. s = case => Asked("gsm")' = Asked("gsm")
    BY <1>2 DEF Asked
  <2> QED
    BY <1>2, <2>1, <2>2 DEF Waits
<1>4. entry => status["gsm"] = "WAIT_SEND_SMS_2" /\ command = None
  BY <1>1, <1>2 DEF DialogueInv, AskInv, EntryInv, None
<1>5. ~retried'
  BY DEF DialogueInv, AskInv
<1> QED
  BY <1>1, <1>2, <1>3, <1>4, <1>5, GsmKeeps DEF Booting

(* The three waiting cases of the boot.                                     *)
LEMMA GsmBoots ==
    ASSUME TypeOK, DialogueInv, budget = 0, GsmWaitEcho \/ GsmSmsReady
    PROVE  DialogueInv'
<1> USE DEF configVars
<1>0. phone_number # "raw"
  BY DEF DialogueInv, AskInv
<1>1. CASE GsmWaitEcho
  <2>1. /\ Hears("gsm", "WAIT_ECHO", "case") \/ TimesOut("gsm", "WAIT_ECHO")
        /\ AnswerFrame /\ UNCHANGED <<retried, phone_number, binary_sim808>>
        /\ \E s \in {"SMS_READY", "WAIT_ECHO", "DISABLE_ECHO"} : Goto("gsm", s, "case")
    BY <1>1 DEF GsmWaitEcho
  <2> QED
    BY <1>0, <2>1, GsmAnswered
<1>2. CASE GsmSmsReady
  <2>1. /\ Hears("gsm", "SMS_READY", "case") /\ AnswerFrame
        /\ UNCHANGED <<retried, phone_number>>
    BY <1>2 DEF GsmSmsReady
  <2>2. CASE Goto("gsm", "TEXT_MODE", "case")
    BY <1>0, <2>1, <2>2, GsmAnswered
  <2>3. CASE UNCHANGED <<taskVars, binary_sim808>>
    <3>1. Goto("gsm", "SMS_READY", "case")
      BY <2>1, <2>3, TypeParts DEF Hears, At, Goto, taskVars, TaskTypeOK, Tasks
    <3> QED
      BY <1>0, <2>1, <2>3, <3>1, GsmAnswered
  <2> QED
    BY <1>2, <2>2, <2>3 DEF GsmSmsReady
<1> QED
  BY <1>1, <1>2

(* The waiting cases that hold the mutex, but for the one of AT+CMGS.       *)
LEMMA GsmAwaits ==
    ASSUME TypeOK, DialogueInv, budget = 0,
           \/ GsmWaitTextMode \/ GsmWaitNetworkReg \/ GsmWaitReadSms \/ GsmReadBody
           \/ GsmWaitDeleteSms \/ GsmWaitSendSms2
    PROVE  DialogueInv'
<1> USE DEF configVars
<1>0. phone_number # "raw"
  BY DEF DialogueInv, AskInv
<1>1. ASSUME NEW case, NEW good, NEW next, NEW else, Await("gsm", case, good, next, else),
             case \notin {"WAIT_SEND_SMS_1", "SEND_SMS_2"},
             {next, else} \cap {"WAIT_SEND_SMS_1", "DISABLE_ECHO", "WAIT_ECHO", "SMS_READY"} = {}
      PROVE  DialogueInv'
  <2>1. /\ Hears("gsm", case, "case") \/ TimesOut("gsm", case)
        /\ AnswerFrame /\ UNCHANGED <<retried, phone_number>>
        /\ \E s \in {next, else} : Goto("gsm", s, "give")
    BY <1>1 DEF Await
  <2> QED
    BY <1>0, <1>1, <2>1, GsmAnswered
<1>2. CASE GsmWaitTextMode
  BY <1>1, <1>2 DEF GsmWaitTextMode
<1>3. CASE GsmWaitNetworkReg
  <2>1. /\ Hears("gsm", "WAIT_NETWORK_REG", "case") \/ TimesOut("gsm", "WAIT_NETWORK_REG")
        /\ AnswerFrame /\ UNCHANGED <<retried, phone_number>>
        /\ \E s \in {"READ_SMS", "NETWORK_REG"} : Goto("gsm", s, "give")
    BY <1>3 DEF GsmWaitNetworkReg
  <2> QED
    BY <1>0, <2>1, GsmAnswered
<1>4. CASE GsmWaitReadSms
  <2>1. /\ Hears("gsm", "WAIT_READ_SMS", "case") \/ TimesOut("gsm", "WAIT_READ_SMS")
        /\ AnswerFrame /\ UNCHANGED retried /\ phone_number' # "raw"
        /\ \/ Goto("gsm", "WAIT_READ_SMS", "body")
           \/ \E s \in {"SEND_SMS_1", "READ_SMS"} : Goto("gsm", s, "give")
    BY <1>0, <1>4 DEF GsmWaitReadSms, AfterNoMessage
  <2>2. CASE Goto("gsm", "WAIT_READ_SMS", "body")
    BY <2>1, <2>2, GsmAnswered
  <2>3. CASE \E s \in {"SEND_SMS_1", "READ_SMS"} : Goto("gsm", s, "give")
    BY <2>1, <2>3, GsmAnswered
  <2> QED
    BY <2>1, <2>2, <2>3
<1>5. CASE GsmReadBody
  <2>1. /\ Hears("gsm", "WAIT_READ_SMS", "body") /\ AnswerFrame
        /\ UNCHANGED <<retried, phone_number>> /\ Goto("gsm", "DELETE_SMS", "give")
    BY <1>5 DEF GsmReadBody
  <2> QED
    BY <1>0, <2>1, GsmAnswered
<1>6. CASE GsmWaitDeleteSms
  BY <1>1, <1>6 DEF GsmWaitDeleteSms
<1>7. CASE GsmWaitSendSms2
  BY <1>1, <1>7 DEF GsmWaitSendSms2
<1> QED
  BY <1>2, <1>3, <1>4, <1>5, <1>6, <1>7

(***************************************************************************)
(* After AT+CMGS comes the prompt, and comes first: the case is never run  *)
(* a second time.  A timeout would find the prompt still on its way.       *)
(***************************************************************************)
LEMMA PromptHeard ==
    ASSUME TypeOK, DialogueInv, budget = 0, GsmWaitSendSms1
    PROVE  DialogueInv' /\ ~retried'
<1>0. status["gsm"] = "WAIT_SEND_SMS_1" /\ AnswerFrame /\ UNCHANGED <<configVars, binary_sim808>>
  BY DEF GsmWaitSendSms1, Hears, TimesOut, At
<1>1. CASE Hears("gsm", "WAIT_SEND_SMS_1", "case")
  <2>1. LineKept /\ command = None /\ Heard = queue_sim808[1] /\ queue_sim808 # <<>>
    BY <1>0, <1>1, HearsLine DEF DialogueInv
  <2>2. Heard.text = ">" /\ ~retried
    BY <1>0, <2>1 DEF DialogueInv, AskInv, PromptInv
  <2>3. ~retried' /\ Goto("gsm", "SEND_SMS_2", "give")
    BY <1>1, <2>2 DEF GsmWaitSendSms1, Hears, TimesOut, AfterCmgs
  <2>4. /\ status'["gsm"] = "SEND_SMS_2" /\ pc'["gsm"] = "give"
        /\ status'["gps"] = status["gps"] /\ pc'["gps"] = pc["gps"]
    BY <2>3, TypeParts DEF Goto, TaskTypeOK, Tasks
  <2>5. ~Waits("gsm")' /\ phone_number' # "raw"
    BY <1>0, <2>4 DEF Waits, configVars, DialogueInv, AskInv
  <2> QED
    BY <1>0, <2>1, <2>3, <2>4, <2>5, GsmKeeps
<1>2. CASE TimesOut("gsm", "WAIT_SEND_SMS_1")
  <2>1. command = None /\ Silence /\ queue_sim808 = <<>>
    BY <1>0, <1>2, TimeoutLine DEF DialogueInv
  <2>2. Prompting
    BY <1>0, <2>1 DEF DialogueInv, AskInv, PromptInv
  <2>3. uart_rx \in Seq(Tokens)
    BY DEF TypeOK, Sim808TypeOK
  <2>4. Len(uart_rx) + Into = 0
    BY <2>1, <2>3, Lengths
  <2>5. Len(uart_rx) + Into = 2
    BY <2>2, <2>3, Lengths
  <2> QED
    BY <2>4, <2>5
<1> QED
  BY <1>1, <1>2 DEF GsmWaitSendSms1

(* The sending cases of task_gsm.                                           *)
LEMMA GsmSending ==
    ASSUME TypeOK, TypeOK', DialogueInv, budget = 0,
           \/ GsmDisableEcho \/ GsmTextMode \/ GsmNetworkReg \/ GsmReadSms \/ GsmDeleteSms
           \/ GsmSendSms1 \/ GsmSendSms2
    PROVE  DialogueInv'
<1>1. ASSUME NEW p, NEW case, NEW c \in Commands, NEW next \in GsmStatuses,
             Send("gsm", p, case, c, next)
      PROVE  status'["gsm"] = next
  BY <1>1, TypeParts DEF Send, Goto, TaskTypeOK, Tasks
<1>2. CASE GsmDisableEcho
  <2>1. /\ Send("gsm", "case", "DISABLE_ECHO", "ATE0", "WAIT_ECHO") /\ UNCHANGED sms_check
        /\ "ATE0" \in Commands /\ "WAIT_ECHO" \in GsmStatuses
    BY <1>2 DEF GsmDisableEcho, Commands, GsmStatuses
  <2>2. Asked("gsm")' = "ATE0"
    BY <1>1, <2>1 DEF Asked
  <2> QED
    BY <2>1, <2>2, GsmSends
<1>3. CASE GsmReadSms
  <2>1. /\ Send("gsm", "delay", "READ_SMS", "AT+CMGL", "WAIT_READ_SMS") /\ sms_check' = 1
        /\ "AT+CMGL" \in Commands /\ "WAIT_READ_SMS" \in GsmStatuses
    BY <1>3 DEF GsmReadSms, Commands, Queries, GsmStatuses
  <2>2. Asked("gsm")' = "AT+CMGL"
    BY <1>1, <2>1 DEF Asked
  <2> QED
    BY <2>1, <2>2, GsmSends
<1>4. ASSUME NEW case, NEW c \in Commands, NEW next \in GsmStatuses,
             Ask("gsm", case, c, next), status'["gsm"] = next => Asked("gsm")' = c,
             c # "AT+CMGL",
             case \notin {"WAIT_SEND_SMS_1", "WAIT_SEND_SMS_2"},
             case = "SEND_SMS_2" => next = "WAIT_SEND_SMS_2" /\ c = "SmsText",
             next = "WAIT_SEND_SMS_1" => c = "AT+CMGS",
             next \notin {"DISABLE_ECHO", "WAIT_ECHO", "SMS_READY"}
      PROVE  DialogueInv'
  <2>1. Send("gsm", "delay", case, c, next) /\ UNCHANGED sms_check
    BY <1>4 DEF Ask
  <2>2. Asked("gsm")' = c
    BY <1>1, <1>4, <2>1
  <2> QED
    BY <1>4, <2>1, <2>2, GsmSends
<1>5. CASE GsmTextMode
  <2>1. status'["gsm"] = "WAIT_TEXT_MODE" => Asked("gsm")' = "AT+CMGF"
    BY DEF Asked
  <2> QED
    BY <1>4, <1>5, <2>1 DEF GsmTextMode, Commands, GsmStatuses
<1>6. CASE GsmNetworkReg
  <2>1. status'["gsm"] = "WAIT_NETWORK_REG" => Asked("gsm")' = "AT+CREG?"
    BY DEF Asked
  <2> QED
    BY <1>4, <1>6, <2>1 DEF GsmNetworkReg, Commands, Queries, GsmStatuses
<1>7. CASE GsmDeleteSms
  <2>1. status'["gsm"] = "WAIT_DELETE_SMS" => Asked("gsm")' = "AT+CMGDA"
    BY DEF Asked
  <2> QED
    BY <1>4, <1>7, <2>1 DEF GsmDeleteSms, Commands, GsmStatuses
<1>8. CASE GsmSendSms1
  <2>1. status'["gsm"] = "WAIT_SEND_SMS_1" => Asked("gsm")' = "AT+CMGS"
    BY DEF Asked
  <2> QED
    BY <1>4, <1>8, <2>1 DEF GsmSendSms1, Commands, GsmStatuses
<1>9. CASE GsmSendSms2
  <2>1. status'["gsm"] = "WAIT_SEND_SMS_2" => Asked("gsm")' = "SmsText"
    BY DEF Asked
  <2> QED
    BY <1>4, <1>9, <2>1 DEF GsmSendSms2, Commands, GsmStatuses
<1> QED
  BY <1>2, <1>3, <1>5, <1>6, <1>7, <1>8, <1>9

(* The two cases of task_gsm that talk to nobody.                           *)
LEMMA GsmPasses ==
    ASSUME TypeOK, DialogueInv, GsmTakeAlert \/ GsmNext
    PROVE  DialogueInv'
<1>1. /\ LineKept /\ UNCHANGED <<retried, phone_number>>
  BY SameLine DEF GsmTakeAlert, GsmNext, DialogueInv, modemVars, configVars
<1>2. /\ status["gsm"] \in {"SEND_SMS_1", "NEXT"} /\ Asked("gsm") = None
      /\ status'["gps"] = status["gps"] /\ pc'["gps"] = pc["gps"]
      /\ status'["gsm"] \in {"SEND_SMS_1", "READ_SMS"}
  BY TypeParts DEF GsmTakeAlert, GsmNext, At, Goto, AfterNoAlert, Asked, TaskTypeOK, Tasks
<1>3. ~Waits("gsm")'
  BY <1>2 DEF Waits, Asked
<1>4. ~entry
  BY <1>2 DEF DialogueInv, AskInv, EntryInv
<1>5. ~retried' /\ phone_number' # "raw"
  BY <1>1 DEF DialogueInv, AskInv
<1> QED
  BY <1>1, <1>2, <1>3, <1>4, <1>5, GsmKeeps

LEMMA GsmDialogue ==
    ASSUME TypeOK, TypeOK', DialogueInv, budget = 0, Gsm
    PROVE  DialogueInv'
  BY GsmBoots, GsmAwaits, PromptHeard, GsmSending, GsmPasses DEF Gsm

(* A case of task_gps that waits for an answer.                             *)
LEMMA GpsAnswered ==
    ASSUME TypeOK, MutexInv, DialogueInv, budget = 0,
           NEW case \in {"WAIT_POWER_ON", "WAIT_CHECK_SIGNAL", "WAIT_COORDINATE"},
           Hears("gps", case, "case") \/ TimesOut("gps", case), AnswerFrame,
           NEW s, NEW p \in {"give", "publish"}, Goto("gps", s, p),
           UNCHANGED <<retried, phone_number>>
    PROVE  DialogueInv'
<1>1. LineKept /\ command = None
  BY HearsLine, TimeoutLine DEF DialogueInv
<1>2. /\ status["gps"] = case /\ pc["gps"] = "case" /\ pc'["gps"] = p
      /\ status'["gsm"] = status["gsm"] /\ pc'["gsm"] = pc["gsm"]
  BY TypeParts DEF Hears, TimesOut, At, Goto, TaskTypeOK, Tasks
<1>3. ~Waits("gps")'
  BY <1>2 DEF Waits
<1>4. status["gsm"] # "WAIT_SEND_SMS_1"
  BY <1>2, PromptAlone DEF DialogueInv, InExchange, HoldingWaits
<1>5. ~Booting
  BY <1>2 DEF DialogueInv, AskInv, BootInv
<1> QED
  BY <1>1, <1>2, <1>3, <1>4, <1>5, GpsKeeps

LEMMA GpsDialogue ==
    ASSUME TypeOK, MutexInv, DialogueInv, budget = 0, Gps
    PROVE  DialogueInv'
<1> USE DEF configVars
<1>1. ASSUME NEW case, NEW c \in Commands, c # "AT+CMGL", NEW next \in GpsStatuses,
             Ask("gps", case, c, next), case # "WAIT_GSM_INIT",
             status'["gps"] = next => Asked("gps")' = c
      PROVE  DialogueInv'
  <2>1. status'["gps"] = next
    BY <1>1, TypeParts DEF Ask, Send, Goto, TaskTypeOK, Tasks
  <2> QED
    BY <1>1, <2>1, GpsSends
<1>2. CASE GpsWaitGsmInit
  <2>1. LineKept /\ UNCHANGED <<retried, phone_number, uart_rx, rxVars, queue_sim808>>
    BY <1>2, SameLine DEF GpsWaitGsmInit, DialogueInv, modemVars
  <2>2. /\ status'["gsm"] = status["gsm"] /\ pc'["gsm"] = pc["gsm"]
        /\ status'["gps"] = "POWER_ON" /\ Asked("gps") = None
    BY <1>2, TypeParts DEF GpsWaitGsmInit, At, Goto, Asked, TaskTypeOK, Tasks
  <2>3. ~Waits("gps")' /\ ~Booting
    BY <1>2, <2>2 DEF GpsWaitGsmInit, Waits, Asked, DialogueInv, AskInv, BootInv
  <2> QED
    BY <2>1, <2>2, <2>3, GpsKeeps
<1>3. CASE GpsPowerOn
  <2>1. status'["gps"] = "WAIT_POWER_ON" => Asked("gps")' = "AT+CGPSPWR"
    BY DEF Asked
  <2> QED
    BY <1>1, <1>3, <2>1 DEF GpsPowerOn, Commands, GpsStatuses
<1>4. CASE GpsCheckSignal
  <2>1. status'["gps"] = "WAIT_CHECK_SIGNAL" => Asked("gps")' = "AT+CGPSSTATUS?"
    BY DEF Asked
  <2> QED
    BY <1>1, <1>4, <2>1 DEF GpsCheckSignal, Commands, Queries, GpsStatuses
<1>5. CASE GpsGetCoordinate
  <2>1. status'["gps"] = "WAIT_COORDINATE" => Asked("gps")' = "AT+CGPSINF"
    BY DEF Asked
  <2> QED
    BY <1>1, <1>5, <2>1 DEF GpsGetCoordinate, Commands, Queries, GpsStatuses
<1>6. CASE GpsWaitPowerOn
  <2>1. /\ Hears("gps", "WAIT_POWER_ON", "case") \/ TimesOut("gps", "WAIT_POWER_ON")
        /\ AnswerFrame /\ UNCHANGED <<retried, phone_number>>
        /\ \E s : Goto("gps", s, "give")
    BY <1>6 DEF GpsWaitPowerOn, Await
  <2> QED
    BY <2>1, GpsAnswered
<1>7. CASE GpsWaitCheckSignal
  <2>1. /\ Hears("gps", "WAIT_CHECK_SIGNAL", "case") \/ TimesOut("gps", "WAIT_CHECK_SIGNAL")
        /\ AnswerFrame /\ UNCHANGED <<retried, phone_number>>
        /\ \E s : Goto("gps", s, "give")
    BY <1>7 DEF GpsWaitCheckSignal
  <2> QED
    BY <2>1, GpsAnswered
<1>8. CASE GpsWaitCoordinate
  <2>1. /\ Hears("gps", "WAIT_COORDINATE", "case") \/ TimesOut("gps", "WAIT_COORDINATE")
        /\ AnswerFrame /\ UNCHANGED <<retried, phone_number>>
        /\ \E s, p : p \in {"give", "publish"} /\ Goto("gps", s, p)
    BY <1>8 DEF GpsWaitCoordinate
  <2> QED
    BY <2>1, GpsAnswered
<1>9. CASE GpsPublish
  <2>1. LineKept /\ UNCHANGED <<retried, phone_number, uart_rx, rxVars, queue_sim808>>
    BY <1>9, SameLine DEF GpsPublish, DialogueInv, modemVars
  <2>2. /\ status'["gsm"] = status["gsm"] /\ pc'["gsm"] = pc["gsm"]
        /\ pc["gps"] = "publish" /\ pc'["gps"] = "give" /\ status["gps"] = "WAIT_COORDINATE"
    BY <1>9, TypeParts DEF GpsPublish, At, Goto, TaskTypeOK, Tasks
  <2>3. ~Waits("gps")' /\ ~Booting
    BY <2>2 DEF Waits, DialogueInv, AskInv, BootInv
  <2> QED
    BY <2>1, <2>2, <2>3, GpsKeeps
<1> QED
  BY <1>2, <1>3, <1>4, <1>5, <1>6, <1>7, <1>8, <1>9 DEF Gps

(* Taking and giving the mutex.                                             *)
LEMMA TakeGiveDialogue ==
    ASSUME TypeOK, MutexInv, DialogueInv, NEW t \in Tasks, TaskTake(t) \/ TaskGive(t)
    PROVE  DialogueInv'
<1>1. /\ LineKept
      /\ UNCHANGED <<status, binary_sim808, retried, phone_number, uart_rx, rxVars, queue_sim808>>
  BY SameLine DEF TaskTake, TaskGive, DialogueInv, modemVars, configVars
<1>2. /\ \A u \in Tasks : u # t => pc'[u] = pc[u]
      /\ pc'[t] \in {"delay", "case"}
      /\ pc'[t] = "case" => pc[t] = "give"
      /\ pc'[t] = "delay" => status[t] \in TakingCases \cup {"SEND_SMS_1"}
  BY TypeParts DEF TaskTake, TaskGive, At, TaskTypeOK, Tasks
<1>3. ~retried' /\ phone_number' # "raw" /\ ~retried
  BY <1>1 DEF DialogueInv, AskInv
<1>4. pc'[t] = "case" => status[t] \notin HoldingWaits
  BY <1>2, <1>3 DEF MutexInv, GiveEndsExchange
<1>5. t = "gsm" => ~Booting
  BY <1>2 DEF DialogueInv, AskInv, BootInv, Booting, TakingCases
<1>6. Asked(t) = None /\ Asked(t)' = None
  <2>1. status[t] \notin HoldingWaits
    BY <1>2, <1>4 DEF TakingCases, HoldingWaits
  <2>2. status[t] # "WAIT_ECHO"
    BY <1>2, <1>4, <1>5, TypeParts DEF Booting, TaskTypeOK, OtherTypeOK, GpsStatuses, Tasks,
                                       TakingCases, TypeOK, TrackerTypeOK
  <2> QED
    BY <1>1, <2>1, <2>2 DEF Asked, HoldingWaits
<1>7. ~Waits(t)'
  BY <1>6 DEF Waits
<1>8. command # None => ~(pc[t] = "case" /\ Asked(t) = command)
  BY <1>6
<1>9. CASE t = "gsm"
  <2>1. status'["gsm"] = status["gsm"] /\ status["gsm"] \notin HoldingWaits
    BY <1>1, <1>2, <1>4, <1>9 DEF TakingCases, HoldingWaits
  <2>2. entry => status["gsm"] = "SEND_SMS_2"
    BY <2>1 DEF DialogueInv, AskInv, EntryInv, HoldingWaits
  <2>3. status["gsm"] \notin {"DISABLE_ECHO", "WAIT_ECHO", "SMS_READY", "WAIT_SEND_SMS_1"}
    BY <1>5, <1>9, <2>1 DEF Booting, HoldingWaits
  <2> QED
    BY <1>1, <1>2, <1>3, <1>7, <1>8, <1>9, <2>2, <2>3, GsmKeeps DEF Tasks
<1>10. CASE t = "gps"
  <2>1. Booting => status'["gps"] = "WAIT_GSM_INIT"
    BY <1>1 DEF DialogueInv, AskInv, BootInv
  <2> QED
    BY <1>1, <1>2, <1>7, <1>8, <1>10, <2>1, GpsKeeps DEF Tasks
<1> QED
  BY <1>9, <1>10 DEF Tasks

-----------------------------------------------------------------------------
(* The invariant, and what follows from it.                                 *)

LEMMA InitDialogue ==
    ASSUME Init, Prompt
    PROVE  DialogueInv
<1> USE DEF Init, Sim808Init, ReceiveInit
<1>1. /\ status["gsm"] = "DISABLE_ECHO" /\ status["gps"] = "WAIT_GSM_INIT"
      /\ pc["gsm"] = "case"
  BY DEF Tasks
<1>2. Silence /\ NoPrompt /\ Load = 0 /\ RealResponses /\ Into = 0
  BY DEF Silence, NoPrompt, Load, RealResponses, Into
<1>3. LineInv
  BY <1>2 DEF LineInv, Framed
<1>4. OwnAnswers
  <2>1. \A t \in Tasks : Own(Asked(t))
    BY <1>2 DEF Own
  <2> QED
    BY <2>1 DEF OwnAnswers
<1>5. Pending /\ EntryInv /\ PromptInv /\ BootInv
  BY <1>1, <1>2 DEF Pending, EntryInv, PromptInv, BootInv
<1>6. ~retried /\ phone_number # "raw"
  BY DEF Prompt
<1> QED
  BY <1>3, <1>4, <1>5, <1>6 DEF DialogueInv, AskInv

LEMMA NextDialogue ==
    ASSUME TypeOK, TypeOK', MutexInv, AlertJustified, DialogueInv, Prompt, [Next]_vars,
           ~crowded'
    PROVE  DialogueInv'
<1>1. budget = 0
  BY DEF TypeOK, Sim808TypeOK, Prompt
<1>2. CASE CoordinatesTask \/ UNCHANGED vars
  <2>1. UNCHANGED dialogueVars
    BY <1>2 DEF CoordinatesTask, CoordinatesReceive, CoordinatesEvaluate, CoordinatesHold,
                CoordinatesSend, CoordinatesFrame, vars, dialogueVars, modemVars, configVars
  <2> QED
    BY <2>1, SameDialogue
<1> QED
  BY <1>1, <1>2, GsmDialogue, GpsDialogue, ReceivingDialogue, AnsweringDialogue,
     HappeningDialogue, TakeGiveDialogue DEF Next

(* Once AT+CMGL has listed more than one message, it has.                   *)
LEMMA CrowdedStays ==
    ASSUME [Next]_vars
    PROVE  crowded => crowded'
<1> USE DEF modemVars
<1>1. CASE Gsm
  BY <1>1 DEF Gsm, GsmDisableEcho, GsmWaitEcho, GsmSmsReady, GsmTextMode, GsmWaitTextMode,
      GsmNetworkReg, GsmWaitNetworkReg, GsmReadSms, GsmWaitReadSms, GsmReadBody, GsmDeleteSms,
      GsmWaitDeleteSms, GsmTakeAlert, GsmSendSms1, GsmWaitSendSms1, GsmSendSms2,
      GsmWaitSendSms2, GsmNext, Ask, Await, Send, Accept, AnswerFrame
<1>2. CASE Gps
  BY <1>2 DEF Gps, GpsWaitGsmInit, GpsPowerOn, GpsWaitPowerOn, GpsCheckSignal,
      GpsWaitCheckSignal, GpsGetCoordinate, GpsWaitCoordinate, GpsPublish, Ask, Await, Send,
      Accept, AnswerFrame
<1>3. CASE CoordinatesTask
  BY <1>3 DEF CoordinatesTask, CoordinatesReceive, CoordinatesEvaluate, CoordinatesHold,
      CoordinatesSend, CoordinatesFrame
<1>4. CASE Answering \/ Happening
  BY <1>4 DEF Answering, Happening, Modem, ModemAnswer, ModemPrompt, ModemSend, ModemSwallow,
      ModemSilent, ModemOnItsOwn, ModemReady, ModemUnsolicited, ModemMessage
<1> QED
  BY <1>1, <1>2, <1>3, <1>4 DEF Next, Receiving, Receive, TaskTake, TaskGive, vars

(* With several messages listed, DialogueInv may break; until then it holds. *)
LEMMA DialogueKept ==
    ASSUME Prompt
    PROVE  Safety => [](~crowded => DialogueInv)
<1>1. Init => (~crowded => DialogueInv)
  BY InitDialogue
<1>2. /\ TypeOK /\ TypeOK' /\ MutexInv /\ AlertJustified /\ (~crowded => DialogueInv)
      /\ [Next]_vars
      => (~crowded' => DialogueInv')
  BY NextDialogue, CrowdedStays
<1> QED
  BY <1>1, <1>2, TypeCorrect, MutexKept, AlertsJustified, PTL DEF Safety

(***************************************************************************)
(* With a modem that answers every command in time, a task that waits for  *)
(* an answer finds only answers to its own last command, and no empty one, *)
(* until AT+CMGL lists more than one message.                              *)
(***************************************************************************)
THEOREM AnswersBelongCorrect ==
    ASSUME Prompt
    PROVE  Safety => []AnswersBelong
<1>1. TypeOK /\ (~crowded => DialogueInv) => AnswersBelong
  <2> SUFFICES ASSUME TypeOK, DialogueInv, NEW t \in Tasks, Waits(t),
                      NEW i \in DOMAIN queue_sim808
               PROVE  queue_sim808[i].re = Asked(t) /\ queue_sim808[i].size > 0
    BY DEF AnswersBelong, Waits
  <2>1. i \in 1..Len(queue_sim808)
    BY DEF TypeOK, ReceiveTypeOK
  <2>2. Own(Asked(t)) /\ RealResponses
    BY DEF DialogueInv, AskInv, OwnAnswers, LineInv
  <2> QED
    BY <2>1, <2>2 DEF Own, RealResponses
<1> QED
  BY <1>1, DialogueKept, TypeCorrect, PTL

(***************************************************************************)
(* With such a modem the receiver never loses the pairing of the CR LFs,   *)
(* for all the commands the two tasks interleave and the bare line in the  *)
(* answer to AT+CMGL: between two answers it waits for the start of a line. *)
(* The listing of a second message ends this, for good (run two_messages).  *)
(***************************************************************************)
THEOREM ReceiverInPhaseCorrect ==
    ASSUME Prompt
    PROVE  Safety => []ReceiverInPhase
<1>1. TypeOK /\ (~crowded => DialogueInv) => ReceiverInPhase
  BY QuietInPhase DEF DialogueInv, ReceiverInPhase, Silence
<1> QED
  BY <1>1, DialogueKept, TypeCorrect, PTL

(***************************************************************************)
(* With such a modem, and until AT+CMGL lists more than one message, every *)
(* AT+CMGS is answered by its prompt, so that the mutex is held by exactly *)
(* the task that is in an exchange.                                        *)
(***************************************************************************)
THEOREM MutexAlwaysOwned ==
    ASSUME Prompt
    PROVE  Safety => [](~crowded => \A t \in Tasks : InExchange(t) <=> mutex_sim808 = t)
<1>1. (~crowded => DialogueInv) /\ MutexOwner
      => (~crowded => \A t \in Tasks : InExchange(t) <=> mutex_sim808 = t)
  BY DEF DialogueInv, AskInv, MutexOwner
<1> QED
  BY <1>1, DialogueKept, MutexCorrect, PTL

-----------------------------------------------------------------------------
(* The first configuration message, whatever the modem does.                *)

(* Messages are deleted only after one was read.                            *)
ReadFirst ==
    status["gsm"] \in {"DELETE_SMS", "WAIT_DELETE_SMS"} \/ command = "AT+CMGDA" =>
        device_status = "SZ_DATA_LOADED"

LEMMA ReadFirstKept ==
    ASSUME TypeOK, ReadFirst, [Next]_vars
    PROVE  ReadFirst'
<1> USE DEF ReadFirst, configVars, taskVars
<1>0. /\ TaskTypeOK /\ device_status \in {"EMPTY", "SZ_DATA_LOADED"}
      /\ "AT+CMGDA" # None
  BY TypeParts DEF TypeOK, TrackerTypeOK, None
<1>1. ASSUME NEW t, NEW p, NEW case, NEW c, NEW next, Send(t, p, case, c, next),
             t \in Tasks, c # "AT+CMGDA" \/ (t = "gsm" /\ case = "DELETE_SMS"),
             next = "WAIT_DELETE_SMS" => case = "DELETE_SMS", next # "DELETE_SMS"
      PROVE  ReadFirst'
  BY <1>0, <1>1 DEF Send, At, Goto, Accept, TaskTypeOK, Tasks
<1>2. ASSUME NEW case, NEW s, NEW p, status["gsm"] = case, Goto("gsm", s, p), AnswerFrame,
             device_status' \in {device_status, "SZ_DATA_LOADED"},
             s \in {"DELETE_SMS", "WAIT_DELETE_SMS"} =>
                 case = "WAIT_DELETE_SMS" \/ device_status' = "SZ_DATA_LOADED"
      PROVE  ReadFirst'
  BY <1>0, <1>2 DEF Goto, AnswerFrame, TaskTypeOK, Tasks
<1>3. CASE Gsm
  <2>1. CASE \/ GsmDisableEcho \/ GsmTextMode \/ GsmNetworkReg \/ GsmReadSms
             \/ GsmDeleteSms \/ GsmSendSms1 \/ GsmSendSms2
    BY <1>1, <2>1 DEF GsmDisableEcho, GsmTextMode, GsmNetworkReg, GsmReadSms, GsmDeleteSms,
                      GsmSendSms1, GsmSendSms2, Ask, Tasks
  <2>2. CASE \/ GsmWaitEcho \/ GsmWaitNetworkReg \/ GsmWaitReadSms \/ GsmReadBody
             \/ GsmWaitSendSms1
    <3>1. \E case \in GsmStatuses, s \in GsmStatuses, p \in PCs :
             /\ status["gsm"] = case /\ Goto("gsm", s, p) /\ AnswerFrame
             /\ device_status' \in {device_status, "SZ_DATA_LOADED"}
             /\ s # "WAIT_DELETE_SMS" /\ (s = "DELETE_SMS" => device_status' = "SZ_DATA_LOADED")
      <4>1. CASE GsmWaitEcho
        BY <4>1 DEF GsmWaitEcho, Hears, TimesOut, At, GsmStatuses, PCs, configVars
      <4>2. CASE GsmWaitNetworkReg
        BY <4>2 DEF GsmWaitNetworkReg, Hears, TimesOut, At, GsmStatuses, PCs
      <4>3. CASE GsmWaitReadSms
        BY <4>3 DEF GsmWaitReadSms, AfterNoMessage, Hears, TimesOut, At, GsmStatuses, PCs
      <4>4. CASE GsmReadBody
        BY <4>4 DEF GsmReadBody, Hears, At, GsmStatuses, PCs
      <4>5. CASE GsmWaitSendSms1
        BY <4>5 DEF GsmWaitSendSms1, AfterCmgs, Hears, TimesOut, At, GsmStatuses, PCs, configVars
      <4> QED
        BY <2>2, <4>1, <4>2, <4>3, <4>4, <4>5
    <3> QED
      BY <1>2, <3>1
  <2>3. CASE GsmWaitTextMode \/ GsmWaitDeleteSms \/ GsmWaitSendSms2
    BY <1>2, <2>3 DEF GsmWaitTextMode, GsmWaitDeleteSms, GsmWaitSendSms2, Await, Hears,
                      TimesOut, At
  <2>4. CASE GsmSmsReady
    BY <1>0, <2>4 DEF GsmSmsReady, AnswerFrame, Goto, TaskTypeOK, Tasks
  <2>5. CASE GsmTakeAlert \/ GsmNext
    BY <1>0, <2>5 DEF GsmTakeAlert, GsmNext, Goto, AfterNoAlert, modemVars, TaskTypeOK, Tasks
  <2> QED
    BY <1>3, <2>1, <2>2, <2>3, <2>4, <2>5 DEF Gsm
<1>4. CASE Gps
  <2>1. CASE GpsPowerOn \/ GpsCheckSignal \/ GpsGetCoordinate
    BY <1>1, <2>1 DEF GpsPowerOn, GpsCheckSignal, GpsGetCoordinate, Ask, Tasks
  <2>2. CASE GpsWaitGsmInit \/ GpsWaitPowerOn \/ GpsWaitCheckSignal \/ GpsWaitCoordinate
             \/ GpsPublish
    <3>1. /\ UNCHANGED <<command, device_status>> /\ status'["gsm"] = status["gsm"]
      BY <1>0, <2>2 DEF GpsWaitGsmInit, GpsWaitPowerOn, GpsWaitCheckSignal, GpsWaitCoordinate,
                        GpsPublish, Await, AnswerFrame, Goto, modemVars, TaskTypeOK, Tasks
    <3> QED
      BY <3>1
  <2> QED
    BY <1>4, <2>1, <2>2 DEF Gps
<1>5. CASE \/ CoordinatesTask \/ Receiving \/ Answering \/ Happening
           \/ (\E t \in Tasks : TaskTake(t) \/ TaskGive(t)) \/ UNCHANGED vars
  <2>1. UNCHANGED <<status, device_status>> /\ (command' = command \/ command' = None)
    BY <1>5 DEF CoordinatesTask, CoordinatesReceive, CoordinatesEvaluate, CoordinatesHold,
                CoordinatesSend, CoordinatesFrame, Receiving, Receive, Answering, Happening,
                TrackerFrame, Modem, ModemAnswer, ModemPrompt, ModemSend, ModemSwallow,
                ModemSilent, ModemOnItsOwn, ModemReady, ModemUnsolicited, ModemMessage,
                TaskTake, TaskGive, modemVars, vars
  <2> QED
    BY <1>0, <2>1
<1> QED
  BY <1>3, <1>4, <1>5 DEF Next

(***************************************************************************)
(* Whatever the modem answers, loses, delays or says on its own, and        *)
(* however many messages it stores: none is deleted before the device has   *)
(* been configured by one.                                                  *)
(***************************************************************************)
THEOREM FirstConfigKeptCorrect == Safety => FirstConfigKept
<1>1. Init => ReadFirst
  BY DEF Init, Sim808Init, ReadFirst, Tasks, None
<1>2. TypeOK /\ ReadFirst /\ [Next]_vars => ReadFirst'
  BY ReadFirstKept
<1>3. TypeOK /\ ReadFirst /\ [Next]_vars =>
          [inbox > 0 /\ device_status = "EMPTY" => inbox' > 0]_vars
  <2> SUFFICES ASSUME TypeOK, ReadFirst, Next, inbox > 0, device_status = "EMPTY",
                      ~(inbox' > 0)
               PROVE  FALSE
    OBVIOUS
  <2>1. command # "AT+CMGDA"
    BY DEF ReadFirst
  <2>2. CASE Answering
    BY <2>1, <2>2 DEF Answering, Modem, ModemAnswer, ModemPrompt, ModemSend, ModemSwallow,
                      ModemSilent
  <2>3. CASE Happening
    <3>1. inbox \in Nat
      BY Sim808Assumption DEF TypeOK, Sim808TypeOK
    <3>2. CASE ModemMessage
      BY <3>1, <3>2 DEF ModemMessage
    <3>3. CASE ModemUnsolicited
      BY <3>3 DEF ModemUnsolicited
    <3>4. CASE ModemReady(status["gsm"] = "SMS_READY")
      BY <3>4 DEF ModemReady
    <3> QED
      BY <2>3, <3>2, <3>3, <3>4 DEF Happening, ModemOnItsOwn
  <2>4. CASE \/ Gsm \/ Gps \/ CoordinatesTask \/ Receiving
             \/ (\E t \in Tasks : TaskTake(t) \/ TaskGive(t))
    <3>1. inbox' = inbox
      <4>1. CASE Gsm
        BY <4>1 DEF Gsm, GsmDisableEcho, GsmWaitEcho, GsmSmsReady, GsmTextMode,
            GsmWaitTextMode, GsmNetworkReg, GsmWaitNetworkReg, GsmReadSms, GsmWaitReadSms,
            GsmReadBody, GsmDeleteSms, GsmWaitDeleteSms, GsmTakeAlert, GsmSendSms1,
            GsmWaitSendSms1, GsmSendSms2, GsmWaitSendSms2, GsmNext, Ask, Await, Send,
            Accept, AnswerFrame, modemVars
      <4>2. CASE Gps
        BY <4>2 DEF Gps, GpsWaitGsmInit, GpsPowerOn, GpsWaitPowerOn, GpsCheckSignal,
            GpsWaitCheckSignal, GpsGetCoordinate, GpsWaitCoordinate, GpsPublish, Ask, Await,
            Send, Accept, AnswerFrame, modemVars
      <4>3. CASE CoordinatesTask
        BY <4>3 DEF CoordinatesTask, CoordinatesReceive, CoordinatesEvaluate,
                    CoordinatesHold, CoordinatesSend, CoordinatesFrame, modemVars
      <4> QED
        BY <2>4, <4>1, <4>2, <4>3 DEF Receiving, Receive, TaskTake, TaskGive, modemVars
    <3> QED
      BY <3>1
  <2> QED
    BY <2>2, <2>3, <2>4 DEF Next
<1> QED
  BY <1>1, <1>2, <1>3, TypeCorrect, PTL DEF Safety, FirstConfigKept
=============================================================================
