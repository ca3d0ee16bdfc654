-------------------------------- MODULE Sim808 --------------------------------
(***************************************************************************)
(* The SIM808 modem as the firmware sees it through UART_COMM.  The modem   *)
(* is not part of the repository: this module is the ENVIRONMENT of the     *)
(* tracker, written from the commands task_gsm and task_gps send and from   *)
(* the answers they compare with (src/firmware/projects/mascotas/src/main.c *)
(* lines 218-575).                                                          *)
(*                                                                         *)
(* What the modem sends is a sequence of tokens: the line separator NL     *)
(* (the two bytes CR LF) and the text of a line.  A text is only what the  *)
(* firmware's memcmp calls tell apart, plus the coordinate of a GPS frame. *)
(* Every text carries, as an auxiliary field that no action reads, the      *)
(* command it answers.                                                     *)
(***************************************************************************)
EXTENDS Integers, Sequences

CONSTANTS
    Coordinates,    \* the positions a GPS frame can carry
    NoFix,          \* a frame with fewer than 4 satellites, or any other text
    Faults,         \* what the modem and the line may do wrong
    MaxFaults,      \* how many times, over a behaviour
    MaxStored       \* bound: messages stored in the modem at once

FaultKinds ==
    { "silent",     \* a command gets no answer
      "refuse",     \* a command gets an answer, but not the hoped-for one
      "late",       \* a delay or a timeout ends before the whole answer is in
      "urc",        \* a line nobody asked for
      "early" }     \* "SMS Ready" comes before task_gsm waits for it

ASSUME Sim808Assumption ==
    /\ NoFix \notin Coordinates
    /\ Faults \subseteq FaultKinds
    /\ MaxFaults \in Nat
    /\ MaxStored \in Nat

Queries  == {"AT+CREG?", "AT+CMGL", "AT+CGPSSTATUS?", "AT+CGPSINF"}
Commands == Queries \cup
            {"ATE0", "AT+CMGF", "AT+CMGDA", "AT+CMGS", "AT+CGPSPWR", "SmsText"}
None     == "none"

Texts == { "OK", "SMS Ready", "+CREG: 0,1", "+CMGL: 1", "+CMGL: n", "zone", ">", "+CMGS:",
           "Location 3D Fix", "+CGPSINF:", "other" }

Fixes == Coordinates \cup {NoFix}

Tokens == [text : Texts \cup {"NL"}, fix : Fixes, re : Commands \cup {None}]

Token(t, f, c) == [text |-> t, fix |-> f, re |-> c]
NL             == Token("NL", NoFix, None)
Line(t, c)     == <<NL, Token(t, NoFix, c), NL>>
Frame(f)       == <<NL, Token("+CGPSINF:", f, "AT+CGPSINF"), NL>>

VARIABLES
    uart_rx,    \* tokens sent by the modem, not yet read by task_sim808_receive
    command,    \* the command the modem is working on, or None
    entry,      \* the modem is collecting the text of an SMS, up to 0x1a
    intruded,   \* some AT command has ended up inside the text being collected
    inbox,      \* how many configuration messages are stored in the modem
    crowded,    \* auxiliary: AT+CMGL has once listed more than one of them
    ready,      \* "SMS Ready" has been sent
    budget      \* faults left

modemVars == <<uart_rx, command, entry, intruded, inbox, crowded, ready, budget>>

Sim808TypeOK ==
    /\ uart_rx \in Seq(Tokens)
    /\ command \in Commands \cup {None}
    /\ entry \in BOOLEAN
    /\ intruded \in BOOLEAN
    /\ inbox \in 0..MaxStored
    /\ crowded \in BOOLEAN
    /\ ready \in BOOLEAN
    /\ budget \in 0..MaxFaults

(* Messages may have come while the device was off.                         *)
Sim808Init ==
    /\ uart_rx = <<>>
    /\ command = None
    /\ entry = FALSE
    /\ intruded = FALSE
    /\ inbox \in 0..MaxStored
    /\ crowded = FALSE
    /\ ready = FALSE
    /\ budget = MaxFaults

(* One more fault of the given kind. *)
Fault(kind) == /\ kind \in Faults
               /\ budget > 0
               /\ budget' = budget - 1

(***************************************************************************)
(* uart_send_data(UART_COMM, ...): a command reaches the modem.  While an  *)
(* earlier command is still being worked on, one of the two is lost.       *)
(* While the text of an SMS is being collected every command but the text  *)
(* itself becomes a part of that text.                                     *)
(***************************************************************************)
Accept(c) ==
    /\ IF command = None THEN command' = c ELSE command' \in {command, c}
    /\ intruded' = (intruded \/ (entry /\ c # "SmsText"))
    /\ UNCHANGED <<uart_rx, entry, inbox, crowded, ready>>

(***************************************************************************)
(* The messages in the answer to AT+CMGL="ALL": of each a header with its   *)
(* index and, after the CR LF of the header, its body as a bare line.  What *)
(* is compared with the header is "+CMGL: 1", the beginning of several.     *)
(***************************************************************************)
Header(i)  == IF i = 1 \/ i \in 10..19 \/ i \in 100..199 THEN "+CMGL: 1" ELSE "+CMGL: n"
Listing(n) == [k \in 1..5 * n |->
                  CASE k % 5 = 2 -> Token(Header((k + 3) \div 5), NoFix, "AT+CMGL")
                    [] k % 5 = 4 -> Token("zone", NoFix, "AT+CMGL")
                    [] OTHER     -> NL]

(* The hoped-for answers to a command that is no part of an SMS. *)
Answers(c) ==
    CASE c \in {"ATE0", "AT+CMGF", "AT+CMGDA", "AT+CGPSPWR"} -> {Line("OK", c)}
      [] c = "AT+CREG?"       -> {Line("+CREG: 0,1", c) \o Line("OK", c)}
      [] c = "AT+CGPSSTATUS?" -> {Line("Location 3D Fix", c) \o Line("OK", c)}
      [] c = "AT+CGPSINF"     -> {Frame(f) \o Line("OK", c) : f \in Coordinates}
      [] c = "AT+CMGL"        -> {Listing(inbox) \o Line("OK", c)}
      [] OTHER -> {}

(* The disappointing ones: an error, or a query answered by something else. *)
Refusals(c) ==
    {Line("other", c)} \cup
    IF c \in Queries
    THEN {Line("other", c) \o Line("OK", c)} \cup
         (IF c = "AT+CGPSINF" THEN {Frame(NoFix) \o Line("OK", c)} ELSE {})
    ELSE {}

Say(tokens) == uart_rx' = uart_rx \o tokens

(***************************************************************************)
(* An answer to an ordinary command.                                       *)
(***************************************************************************)
ModemAnswer ==
    /\ command \notin {None, "AT+CMGS", "SmsText"}
    /\ ~entry
    /\ \/ /\ \E a \in Answers(command) : Say(a)
          /\ inbox' = IF command = "AT+CMGDA" THEN 0 ELSE inbox
          /\ crowded' = (crowded \/ (command = "AT+CMGL" /\ inbox > 1))
          /\ UNCHANGED budget
       \/ /\ Fault("refuse")
          /\ \E a \in Refusals(command) : Say(a)
          /\ UNCHANGED <<inbox, crowded>>
    /\ command' = None
    /\ UNCHANGED <<entry, intruded, ready>>

(***************************************************************************)
(* AT+CMGS: the prompt if the number is one the network accepts, else an   *)
(* error.  The prompt opens the collection of a text.                      *)
(***************************************************************************)
ModemPrompt(numberOk) ==
    /\ command = "AT+CMGS"
    /\ ~entry
    /\ \/ /\ numberOk
          /\ Say(<<NL, Token(">", NoFix, command)>>)
          /\ entry' = TRUE
          /\ intruded' = FALSE
          /\ UNCHANGED budget
       \/ /\ IF numberOk THEN Fault("refuse") ELSE UNCHANGED budget
          /\ Say(Line("other", command))
          /\ UNCHANGED <<entry, intruded>>
    /\ command' = None
    /\ UNCHANGED <<inbox, crowded, ready>>

(***************************************************************************)
(* The text of the SMS, ended by 0x1a.  Outside the collection of a text   *)
(* those bytes hold no CR, so the modem does not answer them.              *)
(***************************************************************************)
ModemSend ==
    /\ command = "SmsText"
    /\ \/ entry /\ Say(Line("+CMGS:", command) \o Line("OK", command)) /\ UNCHANGED budget
       \/ entry /\ Fault("refuse") /\ Say(Line("other", command))
       \/ ~entry /\ UNCHANGED <<uart_rx, budget>>
    /\ command' = None
    /\ entry' = FALSE
    /\ UNCHANGED <<intruded, inbox, crowded, ready>>

(* A command typed into a text: at its CR the modem may prompt again. *)
ModemSwallow ==
    /\ entry
    /\ command \notin {None, "SmsText"}
    /\ \E tokens \in {<<>>, <<NL, Token(">", NoFix, command)>>} : Say(tokens)
    /\ command' = None
    /\ UNCHANGED <<entry, intruded, inbox, crowded, ready, budget>>

(* A command is lost, or its answer is. *)
ModemSilent ==
    /\ command # None
    /\ Fault("silent")
    /\ command' = None
    /\ entry' = (entry /\ command # "SmsText")
    /\ UNCHANGED <<uart_rx, intruded, inbox, crowded, ready>>

(* "SMS Ready", once, when the modem has started. *)
ModemReady(awaited) ==
    /\ ~ready
    /\ IF awaited THEN UNCHANGED budget ELSE Fault("early")
    /\ Say(Line("SMS Ready", None))
    /\ ready' = TRUE
    /\ UNCHANGED <<command, entry, intruded, inbox, crowded>>

(* A line nobody asked for, such as the notice of a message received. *)
ModemUnsolicited ==
    /\ Fault("urc")
    /\ Say(Line("other", None))
    /\ UNCHANGED <<command, entry, intruded, inbox, crowded, ready>>

(* The owner sends the configuration message of the manual, at any moment.  *)
ModemMessage ==
    /\ inbox < MaxStored
    /\ inbox' = inbox + 1
    /\ UNCHANGED <<uart_rx, command, entry, intruded, crowded, ready, budget>>
=============================================================================
