-------------------------------- MODULE SafeZone --------------------------------
(***************************************************************************)
(* The safe zone: task_gsm stores the configuration message, field by      *)
(* field, in RAM and in five registers that survive a reset                *)
(* (main.c 683-815, NVM.c); a reset restores the zone from the registers;  *)
(* task_coordinates reads it while it may be half stored (main.c 195-208). *)
(*                                                                         *)
(* All tasks have the same priority, so any other step, and a reset, may   *)
(* come between two statements.  A coordinate is an integer, in units of   *)
(* 1/Fine of the 1/10000 degree that a register holds.  A double is two    *)
(* words; one read half written is within 2^-20 of one of the two values   *)
(* (the high word decides), less than the model tells apart.               *)
(***************************************************************************)
EXTENDS Integers

CONSTANTS
    Zones,      \* the zones that well-formed messages ask for
    Owners,     \* the senders' numbers, without the +54
    Fine,       \* units of a coordinate per unit of its register
    LongMax,    \* the largest long: strtol returns it instead of a larger one
    MaxResets   \* bound: resets in a behaviour

Coordinate == {"latitude", "longitude"}
Field == Coordinate \cup {"radius"}
Zone  == [latitude : Int, longitude : Int, radius : Nat]

(* What strtod and strtol make of the strings before any message was parsed. *)
Nowhere == [latitude |-> 0, longitude |-> 0, radius |-> 0]

ASSUME SafeZoneAssumption ==
    /\ Zones \subseteq Zone /\ Nowhere \notin Zones
    /\ Owners \subseteq Nat
    /\ Fine \in Nat \ {0} /\ LongMax \in Nat /\ MaxResets \in Nat

(* A message is its sender and its text; a text without exactly two commas  *)
(* is Malformed.                                                            *)
Malformed == [Nowhere EXCEPT !.radius = -1]
Messages  == [owner : Owners, zone : Zones \cup {Malformed}]
NoMessage == [owner |-> -1, zone |-> Malformed]

VARIABLES
    inbox,              \* the message the modem lists as number 1, or NoMessage
    pc,                 \* the statement of task_gsm that comes next
    last_response,      \* the message being stored
    strings,            \* the zone last parsed: the three static strings
    sz,                 \* sz_latitude, sz_longitude, sz_radius
    device_status,
    phone_number,       \* the text of a number, or the bytes of an integer
    gpreg,              \* the registers GPREG0-4
    unread, seen,       \* task_coordinates: fields to be read, fields read
    parsed, told, misread, replacing, spoiled, disturbed, resets    \* auxiliary

(***************************************************************************)
(* parsed: a well-formed message came since power-up.  told: the owner of  *)
(* the last message stored completely, and the zone of the last such       *)
(* message that was well-formed.  misread: the last one stored was         *)
(* malformed and no well-formed one had come since power-up, so there was  *)
(* no text for the zone (main.c 737).  replacing: there was a              *)
(* configuration when the present message was taken up.  spoiled: a reset  *)
(* came in the middle of replacing it.  disturbed: during the last check   *)
(* of task_coordinates a loaded zone was being replaced, or was spoiled.   *)
(***************************************************************************)
zoneVars  == <<sz, device_status, phone_number>>
readVars  == <<unread, seen>>
ghostVars == <<parsed, told, misread, replacing, spoiled, disturbed, resets>>
vars == <<inbox, pc, last_response, strings, zoneVars, gpreg, readVars, ghostVars>>

Items == {"STATUS", "LATITUDE", "LONGITUDE", "NUMBER", "RADIUS"}
SZ_DATA_LOADED == 305419896     \* 0x12345678

PCs == {"header", "number", "body", "sz_radius", "RADIUS", "sz_latitude",
        "LATITUDE", "sz_longitude", "LONGITUDE", "device_status", "STATUS", "delete"}
Storing == pc \notin {"header", "delete"}

TypeOK ==
    /\ inbox \in Messages \cup {NoMessage}
    /\ pc \in PCs
    /\ last_response \in Messages \cup {NoMessage}
    /\ strings \in Zones \cup {Nowhere}
    /\ sz \in Zone
    /\ device_status \in {0, SZ_DATA_LOADED}
    /\ phone_number \in [form : {"text", "bytes"}, of : Nat]
    /\ gpreg \in [Items -> Nat]
    /\ unread \in SUBSET Field
    /\ seen \in Zone
    /\ told \in [owner : Owners, zone : Zones \cup {Nowhere}] \cup {NoMessage}
    /\ parsed \in BOOLEAN /\ misread \in BOOLEAN /\ replacing \in BOOLEAN
    /\ spoiled \in BOOLEAN /\ disturbed \in BOOLEAN
    /\ resets \in 0..MaxResets

-----------------------------------------------------------------------------
(* The registers (NVM.c) and what the conversions lose.                     *)

(* nvm_set(item, value). *)
Nvm_set(item, value) == gpreg' = [gpreg EXCEPT ![item] = value]

Abs(v) == IF v < 0 THEN -v ELSE v

(***************************************************************************)
(* (uint32_t)(|v| * 10000): the sign is dropped, the rest truncated.  When *)
(* v has no more than four decimals the product may round to just below    *)
(* the integer, and one more unit is lost (34.0014 is stored as 340013).   *)
(***************************************************************************)
Register(v) == {Abs(v) \div Fine} \cup
               {r \in {Abs(v) \div Fine - 1} : r >= 0 /\ Abs(v) % Fine = 0}

(* (double)aux_reg / 10000 * (-1) *)
MutantRestored(r) == r * Fine           \* mutation: the sign is forgotten
Restored(r) == -(r * Fine)

(* strtol: a number that does not fit is cut to the largest that does. *)
Strtol(n) == IF n > LongMax THEN LongMax ELSE n

(* main.c 48: what nvm_init finds. *)
Loaded(regs) == regs["STATUS"] = SZ_DATA_LOADED

(* nvm_init, into a RAM that the start-up code has set to zero. *)
Nvm_init ==
    /\ device_status' = gpreg["STATUS"]
    /\ IF Loaded(gpreg)
       THEN /\ sz' = [latitude  |-> Restored(gpreg["LATITUDE"]),
                      longitude |-> Restored(gpreg["LONGITUDE"]),
                      radius    |-> gpreg["RADIUS"]]
            /\ phone_number' = [form |-> "bytes", of |-> gpreg["NUMBER"]]
       ELSE sz' = Nowhere /\ phone_number' = [form |-> "bytes", of |-> 0]

Init ==
    /\ inbox = NoMessage /\ pc = "header" /\ last_response = NoMessage
    /\ strings = Nowhere
    /\ sz = Nowhere /\ device_status = 0
    /\ phone_number = [form |-> "bytes", of |-> 0]
    /\ gpreg = [item \in Items |-> 0]
    /\ unread = {} /\ seen = Nowhere
    /\ parsed = FALSE /\ told = NoMessage /\ misread = FALSE /\ replacing = FALSE
    /\ spoiled = FALSE /\ disturbed = FALSE /\ resets = 0

(* The registers and the modem keep what they have; all else starts again.  *)
Reset ==
    /\ resets < MaxResets
    /\ resets' = resets + 1
    /\ pc' = "header" /\ last_response' = NoMessage /\ strings' = Nowhere
    /\ Nvm_init
    /\ unread' = {} /\ seen' = Nowhere
    /\ parsed' = FALSE /\ replacing' = FALSE /\ disturbed' = FALSE
    /\ spoiled' = (spoiled \/ (Storing /\ replacing))
    /\ UNCHANGED <<inbox, gpreg, told, misread>>

-----------------------------------------------------------------------------
(* task_gsm: the configuration message.                                     *)

(* A message comes in when there is none: one at a time is enough here, the *)
(* deletion of messages nobody has read is Tracker's subject.               *)
Arrive ==
    /\ inbox = NoMessage
    /\ inbox' \in Messages
    /\ UNCHANGED <<pc, last_response, strings, zoneVars, gpreg, readVars, ghostVars>>

(* The statements in their order: the status is stored last.                *)
MutantAfter ==                          \* mutation: the status is stored first
    [ header |-> "number", number |-> "body", body |-> "device_status",
      device_status |-> "STATUS", STATUS |-> "sz_radius",
      sz_radius |-> "RADIUS", RADIUS |-> "sz_latitude",
      sz_latitude |-> "LATITUDE", LATITUDE |-> "sz_longitude",
      sz_longitude |-> "LONGITUDE", LONGITUDE |-> "delete", delete |-> "header" ]
After ==
    [ header |-> "number", number |-> "body", body |-> "sz_radius",
      sz_radius |-> "RADIUS", RADIUS |-> "sz_latitude",
      sz_latitude |-> "LATITUDE", LATITUDE |-> "sz_longitude",
      sz_longitude |-> "LONGITUDE", LONGITUDE |-> "device_status",
      device_status |-> "STATUS", STATUS |-> "delete", delete |-> "header" ]

At(p) == pc = p /\ pc' = After[p]

(* AT+CMGL leaves the messages where they are.                              *)
MutantListed(m) == NoMessage            \* mutation: reading deletes
Listed(m) == m

(* "+CMGL: 1": store_phone_number copies the number...                      *)
Header ==
    /\ At("header")
    /\ inbox # NoMessage
    /\ last_response' = inbox /\ inbox' = Listed(inbox)
    /\ phone_number' = [form |-> "text", of |-> inbox.owner]
    /\ replacing' = (told # NoMessage)
    /\ UNCHANGED <<strings, sz, device_status, gpreg, readVars, parsed, told, misread, spoiled,
                   disturbed, resets>>

(* ... and nvm_set(NUMBER, phone_number_nvm).                               *)
Number ==
    /\ At("number")
    /\ Nvm_set("NUMBER", Strtol(last_response.owner))
    /\ UNCHANGED <<inbox, last_response, strings, zoneVars, readVars, ghostVars>>

(* The second line arrives; it is cut at its commas, if they are two.       *)
MutantParsed(old, text) == IF text = Malformed THEN Nowhere ELSE text   \* mutation: not kept
Parsed(old, text) == IF text = Malformed THEN old ELSE text

Body ==
    /\ At("body")
    /\ strings' = Parsed(strings, last_response.zone)
    /\ parsed' = (parsed \/ last_response.zone # Malformed)
    /\ UNCHANGED <<inbox, last_response, zoneVars, gpreg, readVars, told, misread, replacing,
                   spoiled, disturbed, resets>>

SetField(field) ==
    /\ sz' = [sz EXCEPT ![field] = strings[field]]
    /\ disturbed' = (disturbed \/ (unread # {} /\ replacing))
    /\ UNCHANGED <<inbox, last_response, strings, device_status, phone_number, gpreg,
                   readVars, parsed, told, misread, replacing, spoiled, resets>>

SetRegister(item, values) ==
    /\ \E r \in values : Nvm_set(item, r)
    /\ UNCHANGED <<inbox, last_response, strings, zoneVars, readVars, ghostVars>>

SzRadius     == At("sz_radius")    /\ SetField("radius")
NvmRadius    == At("RADIUS")       /\ SetRegister("RADIUS", {sz.radius})
SzLatitude   == At("sz_latitude")  /\ SetField("latitude")
NvmLatitude  == At("LATITUDE")     /\ SetRegister("LATITUDE", Register(strings.latitude))
SzLongitude  == At("sz_longitude") /\ SetField("longitude")
NvmLongitude == At("LONGITUDE")    /\ SetRegister("LONGITUDE", Register(strings.longitude))

DeviceStatus ==
    /\ At("device_status")
    /\ device_status' = SZ_DATA_LOADED
    /\ UNCHANGED <<inbox, last_response, strings, sz, phone_number, gpreg, readVars, ghostVars>>

(* nvm_set(STATUS, device_status): with it the configuration is complete.   *)
NvmStatus ==
    /\ At("STATUS")
    /\ Nvm_set("STATUS", device_status)
    /\ told' = [owner |-> last_response.owner,
                zone  |-> IF last_response.zone # Malformed THEN last_response.zone
                          ELSE IF told = NoMessage THEN Nowhere ELSE told.zone]
    /\ misread' = (last_response.zone = Malformed /\ ~parsed)
    /\ replacing' = FALSE /\ spoiled' = FALSE
    /\ UNCHANGED <<inbox, last_response, strings, zoneVars, readVars, parsed, disturbed,
                   resets>>

(* DELETE_SMS.                                                              *)
Delete ==
    /\ At("delete")
    /\ inbox' = NoMessage /\ last_response' = NoMessage
    /\ UNCHANGED <<strings, zoneVars, gpreg, readVars, ghostVars>>

Task_gsm == \/ Header \/ Number \/ Body \/ SzRadius \/ NvmRadius \/ SzLatitude \/ NvmLatitude
            \/ SzLongitude \/ NvmLongitude \/ DeviceStatus \/ NvmStatus \/ Delete

-----------------------------------------------------------------------------
(* task_coordinates: a position is compared with the zone.                  *)

(* sz_radius is set, sz_longitude is not.                                   *)
HalfStored == pc \in {"RADIUS", "sz_latitude", "LATITUDE", "sz_longitude"}

MutantMayCompare == TRUE                \* mutation: the status is not tested
MayCompare == device_status = SZ_DATA_LOADED

Position ==
    /\ unread = {}
    /\ MayCompare
    /\ unread' = Field /\ seen' = Nowhere
    /\ disturbed' = (spoiled \/ (replacing /\ HalfStored))
    /\ UNCHANGED <<inbox, pc, last_response, strings, zoneVars, gpreg, parsed, told, misread,
                   replacing, spoiled, resets>>

(* The arguments of calculate_distance come in any order, sz_radius is read *)
(* after the distance was printed.                                          *)
Read(field) ==
    /\ field \in unread
    /\ field = "radius" => unread = {"radius"}
    /\ unread' = unread \ {field}
    /\ seen' = [seen EXCEPT ![field] = sz[field]]
    /\ UNCHANGED <<inbox, pc, last_response, strings, zoneVars, gpreg, ghostVars>>

Task_coordinates == Position \/ \E field \in Field : Read(field)

Next == Arrive \/ Task_gsm \/ Task_coordinates \/ Reset

Safety == Init /\ [][Next]_vars

(* Tasks of the same priority take turns (see Kernel).                      *)
Spec == Safety /\ WF_vars(Task_gsm)

-----------------------------------------------------------------------------
(* Properties.                                                              *)

(* The configuration that the last message stored completely left, and the  *)
(* one that the message in the modem asks for.                              *)
Kept  == [owner |-> told.owner, zone |-> IF misread THEN Nowhere ELSE told.zone]
Asked == [owner |-> inbox.owner, zone |-> IF inbox.zone = Malformed THEN Nowhere ELSE inbox.zone]

(* What the configuration m leaves in a register, which is not the status.  *)
Image(item, m) == CASE item = "NUMBER"    -> {Strtol(m.owner)}
                    [] item = "RADIUS"    -> {m.zone.radius}
                    [] item = "LATITUDE"  -> Register(m.zone.latitude)
                    [] item = "LONGITUDE" -> Register(m.zone.longitude)

(***************************************************************************)
(* Whenever a reset comes and finds the status register loaded, the other  *)
(* registers are those of ONE message, the last one stored completely -    *)
(* number, radius, latitude and longitude are written one by one, and the  *)
(* status only after them (main.c 711-814).  While a loaded zone is being  *)
(* replaced, and after a reset in the middle of that, each register is of  *)
(* that message or of the one that is still in the modem and will be       *)
(* stored again, never of a third.                                         *)
(***************************************************************************)
RegistersWhole ==
    Loaded(gpreg) => /\ told # NoMessage
                     /\ \A item \in Items \ {"STATUS"} :
                           \/ gpreg[item] \in Image(item, Kept)
                           \/ (Storing \/ spoiled) /\ gpreg[item] \in Image(item, Asked)

(***************************************************************************)
(* The zone the device watches is that of the last well-formed message     *)
(* stored completely: exactly, until a reset; after any number of resets   *)
(* with the same radius and to within one unit of a register, for the loss *)
(* does not add up, but always in the south and west, since only the       *)
(* magnitude is stored (NVM.c 55, 60).  A message without exactly two      *)
(* commas changes the owner and not the zone, with the one exception of    *)
(* the first since power-up (misread).                                     *)
(***************************************************************************)
ZoneKept ==
    device_status = SZ_DATA_LOADED /\ ~spoiled /\ ~misread /\ ~Storing =>
        /\ told.zone \in Zones
        /\ sz.radius = told.zone.radius
        /\ \A c \in Coordinate :
              IF parsed THEN sz[c] = told.zone[c]
              ELSE sz[c] <= 0 /\ Abs(Abs(sz[c]) - Abs(told.zone[c])) <= Fine

(* The zone z, as a reset restores it.                                      *)
ZoneRestored(fields, z) ==
    /\ fields.radius = z.radius
    /\ \A c \in Coordinate : \E r \in Register(z[c]) : fields[c] = Restored(r)

(* The zone z, as it was told or as a reset restores it.                    *)
ZoneIs(fields, z) == (\A f \in Field : fields[f] = z[f]) \/ ZoneRestored(fields, z)

(***************************************************************************)
(* task_coordinates compares with one zone, not with parts of two.  The    *)
(* first zone is never seen half stored: device_status is set after its    *)
(* fields (main.c 195, 813).  Exempt are the comparisons that the code     *)
(* does not protect: those during which a field of a loaded zone was being *)
(* replaced, and those with a zone that a reset left mixed.                *)
(***************************************************************************)
ReadsOneZone ==
    unread = {} /\ ~disturbed => \E z \in Zones \cup {Nowhere} : ZoneIs(seen, z)

(***************************************************************************)
(* A configuration message is applied although resets interrupt its        *)
(* storing: it is deleted only afterwards (main.c 342-343), so the next    *)
(* round finds it again.                                                   *)
(***************************************************************************)
EventuallyApplied ==
    \A m \in Messages : m.zone # Malformed =>
        (inbox = m ~> Loaded(gpreg) /\ told = m /\ ~spoiled)
=============================================================================
