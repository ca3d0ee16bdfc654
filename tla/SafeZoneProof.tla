----------------------------- MODULE SafeZoneProof -----------------------------
(***************************************************************************)
(* Proofs about SafeZone, for any zones, owners, resolution and number of  *)
(* resets: loaded registers hold one whole message, or parts of the last   *)
(* two while one replaces the other; the zone in RAM is the one told, in   *)
(* magnitude and to within a unit after a reset; and task_coordinates      *)
(* reads one zone while no loaded one is being replaced.                   *)
(***************************************************************************)
EXTENDS SafeZone, TLAPS

-----------------------------------------------------------------------------
(* Types and conversions.                                                   *)

(* What the conversions return.                                             *)
LEMMA Conversions ==
    /\ \A v \in Int : Register(v) \subseteq Nat
    /\ \A r \in Nat : Restored(r) \in Int
    /\ \A n \in Nat : Strtol(n) \in Nat
<1>1. ASSUME NEW v \in Int PROVE Register(v) \subseteq Nat
  <2>1. Abs(v) \in Nat
    BY DEF Abs
  <2>2. Abs(v) \div Fine \in Nat
    BY <2>1, SafeZoneAssumption
  <2> QED
    BY <2>2 DEF Register
<1>2. ASSUME NEW r \in Nat PROVE Restored(r) \in Int
  BY SafeZoneAssumption DEF Restored
<1> QED
  BY <1>1, <1>2, SafeZoneAssumption DEF Strtol

(* The magnitude of a coordinate survives the register to within its        *)
(* resolution; what comes back is in the south or west.                     *)
LEMMA RoundTrip ==
    ASSUME NEW v \in Int, NEW r \in Register(v)
    PROVE  Restored(r) <= 0 /\ Abs(Abs(Restored(r)) - Abs(v)) <= Fine
<1> DEFINE a == Abs(v)
           q == a \div Fine
<1>1. a \in Nat
  BY DEF Abs
<1>2. q \in Nat /\ a % Fine \in 0..(Fine - 1) /\ a = Fine * q + (a % Fine)
  BY <1>1, SafeZoneAssumption, SMTT(30)
<1>3. r = q \/ (r = q - 1 /\ a % Fine = 0)
  BY <1>1 DEF Register
<1>4. r \in Nat
  BY <1>2 DEF Register
<1>5. r * Fine \in Nat /\ Restored(r) = -(r * Fine)
  BY <1>4, SafeZoneAssumption DEF Restored
<1>6. a - r * Fine \in 0..Fine
  <2> HIDE DEF a, q
  <2>1. CASE r = q
    BY <1>1, <1>2, <2>1, SafeZoneAssumption, SMTT(30)
  <2>2. CASE r = q - 1 /\ a % Fine = 0
    <3>1. (q - 1) * Fine = Fine * q - Fine
      BY <1>2, SafeZoneAssumption, SMTT(30)
    <3> QED
      BY <1>1, <1>2, <2>2, <3>1, SafeZoneAssumption, SMTT(30)
  <2> QED
    BY <1>3, <2>1, <2>2
<1>7. Abs(Restored(r)) = r * Fine /\ Restored(r) <= 0
  BY <1>5 DEF Abs
<1> HIDE DEF a, q
<1>8. Abs(r * Fine - a) <= Fine
  BY <1>1, <1>5, <1>6, SafeZoneAssumption DEF Abs
<1> QED
  BY <1>7, <1>8 DEF a

-----------------------------------------------------------------------------
(* The strengthening.                                                       *)

(* The statements between two zones, and those after a field was set.       *)
Between == {"header", "number", "body", "delete"}
FromRadius    == {"RADIUS", "sz_latitude", "LATITUDE", "sz_longitude", "LONGITUDE",
                  "device_status", "STATUS"}
FromLatitude  == {"LATITUDE", "sz_longitude", "LONGITUDE", "device_status", "STATUS"}
FromLongitude == {"LONGITUDE", "device_status", "STATUS"}

(* task_gsm has a message, and what the strings hold is in it or was told.  *)
Responding ==
    /\ pc # "header" => last_response \in Messages
    /\ gpreg["STATUS"] \in {0, SZ_DATA_LOADED}
    /\ ~parsed => strings = Nowhere
    /\ parsed /\ (pc \in Between \/ last_response.zone = Malformed)
          => told # NoMessage /\ ~misread /\ told.zone = strings
    /\ pc \notin Between /\ last_response.zone # Malformed
          => parsed /\ strings = last_response.zone

(* What a configuration leaves in the registers.                            *)
ImageOf(regs, m) ==
    /\ regs["NUMBER"] = Strtol(m.owner)
    /\ regs["RADIUS"] = m.zone.radius
    /\ regs["LATITUDE"] \in Register(m.zone.latitude)
    /\ regs["LONGITUDE"] \in Register(m.zone.longitude)

(* The registers: those written so far are of the present message.          *)
Registers ==
    /\ pc \notin {"header", "number", "delete"} =>
          gpreg["NUMBER"] = Strtol(last_response.owner)
    /\ pc \in FromRadius \ {"RADIUS"} => gpreg["RADIUS"] = strings.radius
    /\ pc \in FromLatitude \ {"LATITUDE"} =>
          gpreg["LATITUDE"] \in Register(strings.latitude)
    /\ pc \in FromLongitude \ {"LONGITUDE"} =>
          gpreg["LONGITUDE"] \in Register(strings.longitude)
    /\ pc \in {"header", "number", "delete"} /\ Loaded(gpreg) /\ ~spoiled =>
          told # NoMessage /\ ImageOf(gpreg, Kept)

(* There is a stored configuration exactly if the status register says so.  *)
Status ==
    /\ told # NoMessage <=> Loaded(gpreg)
    /\ device_status = SZ_DATA_LOADED /\ told = NoMessage => pc = "STATUS"
    /\ pc = "STATUS" => device_status = SZ_DATA_LOADED
    /\ Storing /\ ~replacing => told = NoMessage

(* The zone in RAM: between two messages the one told, within a message     *)
(* field by field the parsed one.                                           *)
Watched ==
    /\ pc \in FromRadius => sz.radius = strings.radius
    /\ pc \in FromLatitude => sz.latitude = strings.latitude
    /\ pc \in FromLongitude => sz.longitude = strings.longitude
    /\ device_status = SZ_DATA_LOADED /\ ~spoiled /\ pc \in Between \cup {"sz_radius"}
          => told # NoMessage /\ ZoneIs(sz, Kept.zone)
    /\ parsed /\ pc \in Between => \A f \in Field : sz[f] = strings[f]
    /\ device_status = SZ_DATA_LOADED /\ ~spoiled /\ ~parsed /\ pc \in Between
          => misread \/ ZoneRestored(sz, told.zone)

(* A zone that was told is a well-formed one.                               *)
ToldWell == told # NoMessage /\ ~misread => told.zone \in Zones

(* While a loaded zone is replaced, and after a reset in the middle of it,  *)
(* a register is of the message stored before or of the one in the modem.   *)
OfOneOfTwo(item) == \/ gpreg[item] \in Image(item, Kept)
                    \/ (Storing \/ spoiled) /\ gpreg[item] \in Image(item, Asked)

Pending ==
    /\ pc # "header" => inbox = last_response
    /\ pc = "delete" => ~spoiled
    /\ spoiled => inbox \in Messages
    /\ Loaded(gpreg) => \A item \in Items \ {"STATUS"} : OfOneOfTwo(item)

(* task_coordinates: what was read so far is what is still there.           *)
Checked ==
    /\ unread # {} => device_status = SZ_DATA_LOADED
    /\ unread # {} /\ ~disturbed =>
          /\ \E z \in Zones \cup {Nowhere} : ZoneIs(sz, z)
          /\ \A f \in Field \ unread : seen[f] = sz[f]

SafeZoneInv == /\ TypeOK /\ Responding /\ Registers /\ Status /\ ToldWell /\ Pending
               /\ Watched /\ Checked /\ ReadsOneZone

-----------------------------------------------------------------------------
(* The steps.                                                               *)

(* Every step keeps the variables in their ranges.                          *)
LEMMA TypeStep ==
    ASSUME TypeOK, Responding, [Next]_vars
    PROVE  TypeOK'
<1> USE DEF TypeOK
<1>1. CASE UNCHANGED vars
  BY <1>1 DEF vars, zoneVars, readVars, ghostVars
<1>2. CASE Arrive
  BY <1>2 DEF Arrive, zoneVars, readVars, ghostVars
<1>3. CASE Header
  BY <1>3, SafeZoneAssumption DEF Header, At, After, PCs, Listed, Messages, NoMessage, readVars
<1>4. CASE Number
  <2>1. Strtol(last_response.owner) \in Nat
    BY <1>4, Conversions, SafeZoneAssumption DEF Number, At, Responding, Messages
  <2> QED
    BY <1>4, <2>1 DEF Number, At, After, PCs, Nvm_set, Items, zoneVars, readVars, ghostVars
<1>5. CASE Body
  BY <1>5 DEF Body, At, After, PCs, Responding, Messages, Parsed, zoneVars, readVars
<1>6. CASE SzRadius \/ SzLatitude \/ SzLongitude
  <2>1. PICK field \in Field : SetField(field)
    BY <1>6 DEF SzRadius, SzLatitude, SzLongitude, Field, Coordinate
  <2>2. strings \in Zone
    BY SafeZoneAssumption DEF Zone, Nowhere
  <2>3. sz' \in Zone
    BY <2>1, <2>2 DEF SetField, Zone, Field, Coordinate
  <2>4. pc' \in PCs
    BY <1>6 DEF SzRadius, SzLatitude, SzLongitude, At, After, PCs
  <2> QED
    BY <2>1, <2>3, <2>4 DEF SetField, readVars
<1>7. CASE NvmRadius \/ NvmLatitude \/ NvmLongitude
  <2>1. strings \in Zone
    BY SafeZoneAssumption DEF Zone, Nowhere
  <2>2. PICK item \in Items, values \in SUBSET Nat : SetRegister(item, values)
    <3>1. {sz.radius} \subseteq Nat /\ Register(strings.latitude) \subseteq Nat
          /\ Register(strings.longitude) \subseteq Nat
      BY <2>1, Conversions DEF Zone
    <3> QED
      BY <1>7, <3>1 DEF NvmRadius, NvmLatitude, NvmLongitude, Items
  <2>3. gpreg' \in [Items -> Nat]
    BY <2>2 DEF SetRegister, Nvm_set
  <2>4. pc' \in PCs
    BY <1>7 DEF NvmRadius, NvmLatitude, NvmLongitude, At, After, PCs
  <2> QED
    BY <2>2, <2>3, <2>4 DEF SetRegister, zoneVars, readVars, ghostVars
<1>8. CASE DeviceStatus
  BY <1>8 DEF DeviceStatus, At, After, PCs, readVars, ghostVars
<1>9. CASE NvmStatus
  <2>1. gpreg' \in [Items -> Nat]
    BY <1>9 DEF NvmStatus, Nvm_set, Items, SZ_DATA_LOADED
  <2>2. told' \in [owner : Owners, zone : Zones \cup {Nowhere}]
    BY <1>9 DEF NvmStatus, At, Responding, Messages
  <2> QED
    BY <1>9, <2>1, <2>2 DEF NvmStatus, At, After, PCs, zoneVars, readVars
<1>10. CASE Delete
  BY <1>10 DEF Delete, At, After, PCs, zoneVars, readVars, ghostVars
<1>11. CASE Position
  BY <1>11, SafeZoneAssumption DEF Position, Zone, Nowhere, zoneVars
<1>12. ASSUME NEW field \in Field, Read(field)
       PROVE  TypeOK'
  <2>1. seen' \in Zone
    BY <1>12 DEF Read, Zone, Field, Coordinate
  <2> QED
    BY <1>12, <2>1 DEF Read, zoneVars, ghostVars
<1>13. CASE Reset
  <2>1. /\ sz' \in Zone /\ phone_number' \in [form : {"text", "bytes"}, of : Nat]
        /\ device_status' \in {0, SZ_DATA_LOADED}
    BY <1>13, Conversions DEF Reset, Nvm_init, Zone, Nowhere, Items, Responding, Loaded
  <2>2. resets' \in 0..MaxResets
    BY <1>13, SafeZoneAssumption DEF Reset
  <2>3. spoiled' \in BOOLEAN
    BY <1>13, Zenon DEF Reset
  <2>4. seen' \in Zone
    BY <1>13 DEF Reset, Zone, Nowhere
  <2> QED
    BY <1>13, <2>1, <2>2, <2>3, <2>4 DEF Reset, PCs
<1> QED
  BY <1>1, <1>2, <1>3, <1>4, <1>5, <1>6, <1>7, <1>8, <1>9, <1>10, <1>11, <1>12, <1>13
     DEF Next, Task_gsm, Task_coordinates

(* What the strings hold is in the message or was told.                     *)
LEMMA RespondingStep ==
    ASSUME TypeOK, Responding, [Next]_vars
    PROVE  Responding'
<1> USE DEF TypeOK, Responding
<1>1. CASE UNCHANGED vars
  BY <1>1 DEF vars, zoneVars, readVars, ghostVars
<1>2. CASE Arrive
  BY <1>2
     DEF Arrive, zoneVars, readVars, ghostVars, Between, Messages, NoMessage
<1>3. CASE Header
  BY <1>3
     DEF Header, At, After, Listed, zoneVars, readVars, ghostVars, Between, Messages, NoMessage
<1>4. CASE Number
  BY <1>4
     DEF Number, At, After, Nvm_set, Items, zoneVars, readVars, ghostVars, Between, Messages,
         NoMessage
<1>5. CASE Body
  <2>1. pc' = "sz_radius" /\ last_response' = last_response /\ gpreg' = gpreg /\ told' = told
    BY <1>5 DEF Body, At, After
  <2>2. CASE last_response.zone = Malformed
    BY <1>5, <2>1, <2>2 DEF Body, At, Parsed, Between
  <2>3. CASE last_response.zone # Malformed
    BY <1>5, <2>1, <2>3 DEF Body, At, Parsed, Between
  <2> QED
    BY <2>2, <2>3
<1>6. CASE SzRadius
  BY <1>6
     DEF SzRadius, At, After, SetField, zoneVars, readVars, ghostVars, Between, Messages,
         NoMessage
<1>7. CASE NvmRadius
  BY <1>7
     DEF NvmRadius, At, After, SetRegister, Nvm_set, Items, zoneVars, readVars, ghostVars,
         Between, Messages, NoMessage
<1>8. CASE SzLatitude
  BY <1>8
     DEF SzLatitude, At, After, SetField, zoneVars, readVars, ghostVars, Between, Messages,
         NoMessage
<1>9. CASE NvmLatitude
  BY <1>9
     DEF NvmLatitude, At, After, SetRegister, Nvm_set, Items, zoneVars, readVars, ghostVars,
         Between, Messages, NoMessage
<1>10. CASE SzLongitude
  BY <1>10
     DEF SzLongitude, At, After, SetField, zoneVars, readVars, ghostVars, Between, Messages,
         NoMessage
<1>11. CASE NvmLongitude
  BY <1>11
     DEF NvmLongitude, At, After, SetRegister, Nvm_set, Items, zoneVars, readVars, ghostVars,
         Between, Messages, NoMessage
<1>12. CASE DeviceStatus
  BY <1>12
     DEF DeviceStatus, At, After, zoneVars, readVars, ghostVars, Between, Messages, NoMessage
<1>13. CASE NvmStatus
  <2>1. /\ pc = "STATUS" /\ pc' = "delete"
        /\ UNCHANGED <<strings, parsed, last_response, device_status>>
        /\ gpreg' = [gpreg EXCEPT !["STATUS"] = device_status]
        /\ misread' = (last_response.zone = Malformed /\ ~parsed)
    BY <1>13 DEF NvmStatus, At, After, Nvm_set, zoneVars
  <2>2. told' # NoMessage
    BY <1>13, <2>1, SafeZoneAssumption DEF NvmStatus, Messages, NoMessage
  <2>3. parsed => told'.zone = strings
    BY <1>13, <2>1 DEF NvmStatus, Between
  <2>4. gpreg'["STATUS"] \in {0, SZ_DATA_LOADED}
    BY <2>1 DEF Items
  <2>5. parsed => ~misread'
    BY <2>1, Zenon
  <2> QED
    BY <2>1, <2>2, <2>3, <2>4, <2>5 DEF Between
<1>14. CASE Delete
  BY <1>14
     DEF Delete, At, After, zoneVars, readVars, ghostVars, Between, Messages, NoMessage
<1>15. CASE Position
  BY <1>15
     DEF Position, zoneVars, readVars, ghostVars, Between, Messages, NoMessage
<1>16. ASSUME NEW field \in Field, Read(field)
       PROVE  Responding'
  BY <1>16
     DEF Read, zoneVars, readVars, ghostVars, Between, Messages, NoMessage
<1>17. CASE Reset
  BY <1>17
     DEF Reset, Nvm_init, zoneVars, readVars, ghostVars, Between, Messages, NoMessage
<1> QED
  BY <1>1, <1>2, <1>3, <1>4, <1>5, <1>6, <1>7, <1>8, <1>9, <1>10, <1>11, <1>12, <1>13, <1>14,
     <1>15, <1>16, <1>17
     DEF Next, Task_gsm, Task_coordinates

(* Registers follow the message.                                            *)
LEMMA RegistersStep ==
    ASSUME TypeOK, Responding, Registers, Status, Watched, [Next]_vars
    PROVE  Registers'
<1> USE DEF TypeOK, Registers, Kept
<1>1. CASE UNCHANGED vars
  BY <1>1 DEF vars, zoneVars, readVars, ghostVars
<1>2. CASE Arrive
  BY <1>2
     DEF Arrive, zoneVars, readVars, ghostVars, Between, FromRadius, FromLatitude, FromLongitude,
         ImageOf, Loaded
<1>3. CASE Header
  BY <1>3
     DEF Header, At, After, Listed, zoneVars, readVars, ghostVars, Between, FromRadius,
         FromLatitude, FromLongitude, ImageOf, Loaded
<1>4. CASE Number
  BY <1>4
     DEF Number, At, After, Nvm_set, Items, zoneVars, readVars, ghostVars, Between, FromRadius,
         FromLatitude, FromLongitude, ImageOf, Loaded
<1>5. CASE Body
  BY <1>5
     DEF Body, At, After, Parsed, zoneVars, readVars, ghostVars, Between, FromRadius,
         FromLatitude, FromLongitude, ImageOf, Loaded
<1>6. CASE SzRadius
  BY <1>6
     DEF SzRadius, At, After, SetField, zoneVars, readVars, ghostVars, Between, FromRadius,
         FromLatitude, FromLongitude, ImageOf, Loaded
<1>7. CASE NvmRadius
  <2>1. pc = "RADIUS" /\ pc' = "sz_latitude" /\ sz.radius = strings.radius
    BY <1>7 DEF NvmRadius, At, After, Watched, FromRadius
  <2>2. gpreg' = [gpreg EXCEPT !["RADIUS"] = strings.radius]
    BY <1>7, <2>1 DEF NvmRadius, SetRegister, Nvm_set
  <2> QED
    BY <1>7, <2>1, <2>2 DEF NvmRadius, SetRegister, Items, zoneVars, ghostVars,
       FromRadius, FromLatitude, FromLongitude
<1>8. CASE SzLatitude
  BY <1>8
     DEF SzLatitude, At, After, SetField, zoneVars, readVars, ghostVars, Between, FromRadius,
         FromLatitude, FromLongitude, ImageOf, Loaded
<1>9. CASE NvmLatitude
  BY <1>9
     DEF NvmLatitude, At, After, SetRegister, Nvm_set, Items, zoneVars, readVars, ghostVars,
         Between, FromRadius, FromLatitude, FromLongitude, ImageOf, Loaded
<1>10. CASE SzLongitude
  BY <1>10
     DEF SzLongitude, At, After, SetField, zoneVars, readVars, ghostVars, Between, FromRadius,
         FromLatitude, FromLongitude, ImageOf, Loaded
<1>11. CASE NvmLongitude
  BY <1>11
     DEF NvmLongitude, At, After, SetRegister, Nvm_set, Items, zoneVars, readVars, ghostVars,
         Between, FromRadius, FromLatitude, FromLongitude, ImageOf, Loaded
<1>12. CASE DeviceStatus
  BY <1>12
     DEF DeviceStatus, At, After, zoneVars, readVars, ghostVars, Between, FromRadius,
         FromLatitude, FromLongitude, ImageOf, Loaded
<1>13. CASE NvmStatus
  <2>1. /\ pc = "STATUS" /\ pc' = "delete" /\ strings' = strings
        /\ gpreg' = [gpreg EXCEPT !["STATUS"] = device_status]
    BY <1>13 DEF NvmStatus, At, After, Nvm_set
  <2>2. told'.owner = last_response.owner /\ Kept'.zone = strings
    BY <1>13, <2>1, SafeZoneAssumption DEF NvmStatus, Responding, Between, Messages
  <2>3. told' # NoMessage
    BY <1>13, <2>1, SafeZoneAssumption DEF NvmStatus, Responding, Messages, NoMessage
  <2>4. ImageOf(gpreg', Kept')
    BY <2>1, <2>2 DEF ImageOf, Items, FromRadius, FromLatitude, FromLongitude
  <2> QED
    BY <2>1, <2>3, <2>4 DEF FromRadius, FromLatitude, FromLongitude
<1>14. CASE Delete
  BY <1>14
     DEF Delete, At, After, zoneVars, readVars, ghostVars, Between, FromRadius, FromLatitude,
         FromLongitude, ImageOf, Loaded
<1>15. CASE Position
  BY <1>15
     DEF Position, zoneVars, readVars, ghostVars, Between, FromRadius, FromLatitude,
         FromLongitude, ImageOf, Loaded
<1>16. ASSUME NEW field \in Field, Read(field)
       PROVE  Registers'
  BY <1>16
     DEF Read, zoneVars, readVars, ghostVars, Between, FromRadius, FromLatitude, FromLongitude,
         ImageOf, Loaded
<1>17. CASE Reset
  BY <1>17
     DEF Reset, Nvm_init, zoneVars, readVars, ghostVars, Storing, Status, Loaded, Between,
         FromRadius, FromLatitude, FromLongitude, ImageOf
<1> QED
  BY <1>1, <1>2, <1>3, <1>4, <1>5, <1>6, <1>7, <1>8, <1>9, <1>10, <1>11, <1>12, <1>13, <1>14,
     <1>15, <1>16, <1>17
     DEF Next, Task_gsm, Task_coordinates

(* The status register tells whether there is a configuration.              *)
LEMMA StatusStep ==
    ASSUME TypeOK, Responding, Status, [Next]_vars
    PROVE  Status'
<1> USE DEF TypeOK, Status
<1>1. CASE UNCHANGED vars
  BY <1>1 DEF vars, zoneVars, readVars, ghostVars, Storing
<1>2. CASE Arrive
  BY <1>2
     DEF Arrive, zoneVars, readVars, ghostVars, Between, Storing, Loaded, NoMessage, Responding, Messages
<1>3. CASE Header
  <2>1. pc = "header" /\ pc' = "number"
    BY <1>3 DEF Header, At, After
  <2>2. gpreg' = gpreg /\ told' = told /\ device_status' = device_status
        /\ replacing' = (told # NoMessage)
    BY <1>3 DEF Header, ghostVars
  <2> QED
    BY <2>1, <2>2 DEF Storing, Loaded
<1>4. CASE Number
  BY <1>4
     DEF Number, At, After, Nvm_set, Items, zoneVars, readVars, ghostVars, Between, Storing,
         Loaded, NoMessage, Responding, Messages
<1>5. CASE Body
  BY <1>5
     DEF Body, At, After, Parsed, zoneVars, readVars, ghostVars, Between, Storing, Loaded,
         NoMessage, Responding, Messages
<1>6. CASE SzRadius
  BY <1>6
     DEF SzRadius, At, After, SetField, zoneVars, readVars, ghostVars, Between, Storing, Loaded,
         NoMessage, Responding, Messages
<1>7. CASE NvmRadius
  BY <1>7
     DEF NvmRadius, At, After, SetRegister, Nvm_set, Items, zoneVars, readVars, ghostVars,
         Between, Storing, Loaded, NoMessage, Responding, Messages
<1>8. CASE SzLatitude
  BY <1>8
     DEF SzLatitude, At, After, SetField, zoneVars, readVars, ghostVars, Between, Storing, Loaded,
         NoMessage, Responding, Messages
<1>9. CASE NvmLatitude
  BY <1>9
     DEF NvmLatitude, At, After, SetRegister, Nvm_set, Items, zoneVars, readVars, ghostVars,
         Between, Storing, Loaded, NoMessage, Responding, Messages
<1>10. CASE SzLongitude
  BY <1>10
     DEF SzLongitude, At, After, SetField, zoneVars, readVars, ghostVars, Between, Storing,
         Loaded, NoMessage, Responding, Messages
<1>11. CASE NvmLongitude
  BY <1>11
     DEF NvmLongitude, At, After, SetRegister, Nvm_set, Items, zoneVars, readVars, ghostVars,
         Between, Storing, Loaded, NoMessage, Responding, Messages
<1>12. CASE DeviceStatus
  BY <1>12
     DEF DeviceStatus, At, After, zoneVars, readVars, ghostVars, Between, Storing, Loaded,
         NoMessage, Responding, Messages
<1>13. CASE NvmStatus
  <2>1. pc = "STATUS" /\ pc' = "delete" /\ device_status' = device_status
        /\ gpreg' = [gpreg EXCEPT !["STATUS"] = device_status]
    BY <1>13 DEF NvmStatus, At, After, Nvm_set, zoneVars
  <2>2. told' # NoMessage
    BY <1>13, <2>1, SafeZoneAssumption DEF NvmStatus, Responding, Messages, NoMessage
  <2>3. Loaded(gpreg')
    BY <2>1 DEF Loaded, Items
  <2> QED
    BY <2>1, <2>2, <2>3 DEF Storing
<1>14. CASE Delete
  BY <1>14
     DEF Delete, At, After, zoneVars, readVars, ghostVars, Between, Storing, Loaded, NoMessage, Responding, Messages
<1>15. CASE Position
  BY <1>15
     DEF Position, zoneVars, readVars, ghostVars, Between, Storing, Loaded, NoMessage, Responding, Messages
<1>16. ASSUME NEW field \in Field, Read(field)
       PROVE  Status'
  BY <1>16
     DEF Read, zoneVars, readVars, ghostVars, Between, Storing, Loaded, NoMessage,
         Responding, Messages
<1>17. CASE Reset
  BY <1>17
     DEF Reset, Nvm_init, zoneVars, readVars, ghostVars, Between, Storing, Loaded, NoMessage, Responding, Messages
<1> QED
  BY <1>1, <1>2, <1>3, <1>4, <1>5, <1>6, <1>7, <1>8, <1>9, <1>10, <1>11, <1>12, <1>13, <1>14,
     <1>15, <1>16, <1>17
     DEF Next, Task_gsm, Task_coordinates

(* The zone in RAM is the one told, or is being replaced field by field.    *)
LEMMA WatchedStep ==
    ASSUME TypeOK, Responding, Registers, Status, Watched, [Next]_vars
    PROVE  Watched'
<1> USE DEF TypeOK, Watched, ZoneIs, ZoneRestored, Kept, Field
<1>1. CASE UNCHANGED <<pc, strings, sz, device_status, parsed, spoiled, told, misread>>
  BY <1>1
<1>2. CASE Header \/ Number \/ Delete
  BY <1>2 DEF Header, Number, Delete, At, After, zoneVars, ghostVars, Between,
     FromRadius, FromLatitude, FromLongitude
<1>3. CASE Body
  BY <1>3 DEF Body, At, After, zoneVars, Between, FromRadius, FromLatitude, FromLongitude
<1>4. CASE SzRadius \/ SzLatitude \/ SzLongitude
  BY <1>4 DEF SzRadius, SzLatitude, SzLongitude, SetField, At, After, Zone, Between,
     FromRadius, FromLatitude, FromLongitude
<1>5. CASE NvmRadius \/ NvmLatitude \/ NvmLongitude \/ DeviceStatus
  <2>1. UNCHANGED <<strings, sz>>
    BY <1>5 DEF NvmRadius, NvmLatitude, NvmLongitude, DeviceStatus, SetRegister, zoneVars
  <2>2. \/ pc = "RADIUS" /\ pc' = "sz_latitude"
        \/ pc = "LATITUDE" /\ pc' = "sz_longitude"
        \/ pc = "LONGITUDE" /\ pc' = "device_status"
        \/ pc = "device_status" /\ pc' = "STATUS"
    BY <1>5 DEF NvmRadius, NvmLatitude, NvmLongitude, DeviceStatus, At, After
  <2> QED
    BY <2>1, <2>2 DEF Between, FromRadius, FromLatitude, FromLongitude
<1>6. CASE NvmStatus
  <2>1. /\ pc = "STATUS" /\ pc' = "delete" /\ UNCHANGED <<strings, sz, parsed>>
        /\ misread' = (last_response.zone = Malformed /\ ~parsed)
    BY <1>6 DEF NvmStatus, At, After, zoneVars
  <2>2. Kept'.zone = strings
    BY <1>6, <2>1 DEF NvmStatus, Responding, Between
  <2>3. told' # NoMessage
    BY <1>6, <2>1, SafeZoneAssumption DEF NvmStatus, Responding, Messages, NoMessage
  <2>4. \A f \in Field : sz[f] = strings[f]
    BY <2>1 DEF FromRadius, FromLatitude, FromLongitude, Coordinate
  <2>5. ~parsed => misread'
    <3>1. ~parsed => last_response.zone = Malformed
      BY <2>1 DEF Responding, Between
    <3> QED
      BY <2>1, <3>1, Zenon
  <2>6. ZoneIs(sz', Kept'.zone) /\ \A f \in Field : sz'[f] = strings'[f]
    BY <2>1, <2>2, <2>4
  <2> HIDE DEF ZoneIs, ZoneRestored, Kept
  <2> QED
    BY <2>1, <2>3, <2>5, <2>6 DEF FromRadius, FromLatitude, FromLongitude
<1>7. CASE Reset
  <2>1. /\ pc' = "header" /\ told' = told /\ misread' = misread /\ parsed' = FALSE
        /\ device_status' = gpreg["STATUS"]
    BY <1>7 DEF Reset, Nvm_init
  <2>2. ASSUME device_status' = SZ_DATA_LOADED, ~spoiled'
        PROVE  told # NoMessage /\ ZoneRestored(sz', Kept.zone)
    <3>1. Loaded(gpreg) /\ told # NoMessage
      BY <2>1, <2>2 DEF Loaded, Status
    <3>2. ~spoiled /\ ~Storing
      BY <1>7, <2>2, <3>1 DEF Reset, Status
    <3>3. ImageOf(gpreg, Kept)
      BY <3>1, <3>2 DEF Storing, Registers
    <3>4. sz' = [latitude  |-> Restored(gpreg["LATITUDE"]),
                 longitude |-> Restored(gpreg["LONGITUDE"]),
                 radius    |-> gpreg["RADIUS"]]
      BY <1>7, <3>1 DEF Reset, Nvm_init
    <3> HIDE DEF Kept
    <3> QED
      BY <3>1, <3>3, <3>4 DEF ImageOf, Coordinate
  <2>3. Kept' = Kept /\ (~misread => Kept.zone = told.zone)
    BY <2>1
  <2> HIDE DEF ZoneRestored, Kept
  <2> QED
    BY <2>1, <2>2, <2>3 DEF FromRadius, FromLatitude, FromLongitude
<1> QED
  BY <1>1, <1>2, <1>3, <1>4, <1>5, <1>6, <1>7
     DEF Next, Task_gsm, Task_coordinates, Arrive, Position, Read, vars, zoneVars, ghostVars

(* Only a well-formed message or one that is kept from before is told.      *)
LEMMA ToldWellStep ==
    ASSUME TypeOK, Responding, ToldWell, [Next]_vars
    PROVE  ToldWell'
<1> USE DEF ToldWell
<1>1. CASE UNCHANGED <<told, misread>>
  BY <1>1
<1>2. CASE NvmStatus
  <2>1. pc = "STATUS" /\ misread' = (last_response.zone = Malformed /\ ~parsed)
    BY <1>2 DEF NvmStatus, At
  <2>2. CASE last_response.zone = Malformed
    <3>1. ~misread' => parsed
      BY <2>1, <2>2, Zenon
    <3>2. parsed => told # NoMessage /\ ~misread /\ told'.zone = told.zone
      BY <1>2, <2>1, <2>2 DEF NvmStatus, Responding
    <3> QED
      BY <3>1, <3>2
  <2>3. CASE last_response.zone # Malformed
    <3>1. told'.zone = last_response.zone
      BY <1>2, <2>3 DEF NvmStatus
    <3> QED
      BY <2>1, <2>3, <3>1 DEF Responding, Messages
  <2> QED
    BY <2>2, <2>3
<1> QED
  BY <1>1, <1>2
     DEF Next, Task_gsm, Task_coordinates, Arrive, Header, Number, Body, SzRadius, NvmRadius,
         SzLatitude, NvmLatitude, SzLongitude, NvmLongitude, SetField, SetRegister, DeviceStatus,
         Delete, Position, Read, Reset, vars, ghostVars

(* A register written from the strings is of one of the two messages.       *)
LEMMA WrittenOfTwo ==
    ASSUME TypeOK, Responding, Pending, pc \notin Between
    PROVE  strings = Kept.zone \/ strings = Asked.zone
<1>1. inbox = last_response
  BY DEF Pending, Between
<1>2. CASE last_response.zone # Malformed
  BY <1>1, <1>2 DEF Responding, Asked
<1>3. CASE last_response.zone = Malformed
  <2>1. parsed => strings = Kept.zone
    BY <1>3 DEF Responding, Kept
  <2>2. ~parsed => strings = Asked.zone
    BY <1>1, <1>3 DEF Responding, Asked
  <2> QED
    BY <2>1, <2>2
<1> QED
  BY <1>2, <1>3

(* A statement that leaves the registers alone and does not end a message   *)
(* leaves each register of one of the two messages.                         *)
LEMMA PendingKept ==
    ASSUME TypeOK, Pending, UNCHANGED <<gpreg, told, misread, inbox>>,
           Storing \/ spoiled => Storing' \/ spoiled'
    PROVE  \A item \in Items \ {"STATUS"} : OfOneOfTwo(item) => OfOneOfTwo(item)'
  BY DEF OfOneOfTwo, Kept, Asked

(* No statement writes a third message's value.                             *)
LEMMA PendingStep ==
    ASSUME TypeOK, Responding, Registers, Status, Watched, Pending, [Next]_vars
    PROVE  Pending'
<1> DEFINE Data == Items \ {"STATUS"}
<1>0. /\ Loaded(gpreg) => \A item \in Data : OfOneOfTwo(item)
      /\ pc # "header" => inbox = last_response
      /\ pc = "delete" => ~spoiled
      /\ spoiled => inbox \in Messages
  BY DEF Pending
<1>1. CASE UNCHANGED vars
  BY <1>1 DEF vars, ghostVars, Pending, OfOneOfTwo, Kept, Asked, Storing, Loaded
<1>2. CASE Arrive
  <2>1. /\ pc = "header" /\ ~spoiled /\ ~Storing /\ inbox' \in Messages
        /\ UNCHANGED <<pc, gpreg, told, misread, spoiled, last_response>>
    BY <1>2, SafeZoneAssumption, <1>0
       DEF Arrive, ghostVars, Responding, NoMessage, Messages, Storing
  <2>2. ASSUME NEW item \in Data, OfOneOfTwo(item) PROVE OfOneOfTwo(item)'
    BY <2>1, <2>2 DEF OfOneOfTwo, Kept
  <2> QED
    BY <1>0, <2>1, <2>2 DEF Pending, Loaded
<1>3. CASE Header
  <2>1. /\ pc' = "number" /\ inbox' = inbox /\ last_response' = inbox
        /\ UNCHANGED <<gpreg, told, misread, spoiled>>
    BY <1>3 DEF Header, At, After, Listed
  <2>2. ASSUME NEW item \in Data, OfOneOfTwo(item) PROVE OfOneOfTwo(item)'
    BY <2>1, <2>2, PendingKept DEF Storing
  <2> QED
    BY <1>0, <2>1, <2>2 DEF Pending, Loaded
<1>4. CASE Body \/ SzRadius \/ SzLatitude \/ SzLongitude \/ DeviceStatus
  <2>1. /\ pc' \notin {"header", "delete"} /\ pc # "header"
        /\ UNCHANGED <<inbox, last_response, gpreg, told, misread, spoiled>>
    BY <1>4 DEF Body, SzRadius, SzLatitude, SzLongitude, SetField, DeviceStatus, At, After,
                zoneVars, ghostVars
  <2>2. ASSUME NEW item \in Data, OfOneOfTwo(item) PROVE OfOneOfTwo(item)'
    BY <2>1, <2>2, PendingKept DEF Storing
  <2> QED
    BY <1>0, <2>1, <2>2 DEF Pending, Loaded
<1>5. ASSUME NEW item \in Data, NEW value \in Image(item, Kept) \cup Image(item, Asked),
             pc \notin {"header", "delete"}, pc' \notin {"header", "delete"},
             gpreg' = [gpreg EXCEPT ![item] = value],
             UNCHANGED <<inbox, last_response, told, misread, spoiled>>
      PROVE  Pending'
  <2>1. item \in Items /\ item # "STATUS" /\ "STATUS" \in Items
    BY DEF Items
  <2>2. Loaded(gpreg') => Loaded(gpreg)
    BY <1>5, <2>1 DEF Loaded, TypeOK
  <2>3. Storing' /\ Kept' = Kept /\ Asked' = Asked
    BY <1>5 DEF Storing, Kept, Asked
  <2>4. ASSUME NEW other \in Data, OfOneOfTwo(other) PROVE OfOneOfTwo(other)'
    <3>1. CASE other = item
      BY <1>5, <2>1, <2>3, <3>1 DEF OfOneOfTwo, TypeOK
    <3>2. CASE other # item
      <4>1. gpreg'[other] = gpreg[other]
        BY <1>5, <2>1, <3>2 DEF TypeOK
      <4> QED
        BY <2>3, <2>4, <4>1 DEF OfOneOfTwo
    <3> QED
      BY <3>1, <3>2
  <2> QED
    BY <1>0, <1>5, <2>2, <2>4 DEF Pending
<1>6. CASE Number
  <2> DEFINE value == Strtol(last_response.owner)
  <2>1. /\ pc = "number" /\ pc' = "body" /\ gpreg' = [gpreg EXCEPT !["NUMBER"] = value]
        /\ UNCHANGED <<inbox, last_response, told, misread, spoiled>>
    BY <1>6 DEF Number, At, After, Nvm_set, ghostVars
  <2>2. value \in Image("NUMBER", Asked)
    BY <1>0, <2>1 DEF Image, Asked
  <2> QED
    BY <1>5, <2>1, <2>2 DEF Items
<1>7. CASE NvmRadius
  <2>1. /\ pc = "RADIUS" /\ pc' = "sz_latitude" /\ gpreg' = [gpreg EXCEPT !["RADIUS"] = sz.radius]
        /\ UNCHANGED <<inbox, last_response, told, misread, spoiled>>
    BY <1>7 DEF NvmRadius, At, After, SetRegister, Nvm_set, ghostVars
  <2>2. sz.radius = strings.radius
    BY <2>1 DEF Watched, FromRadius
  <2>3. sz.radius \in Image("RADIUS", Kept) \cup Image("RADIUS", Asked)
    BY <2>1, <2>2, WrittenOfTwo DEF Image, Between
  <2> QED
    BY <1>5, <2>1, <2>3 DEF Items
<1>8. CASE NvmLatitude
  <2>1. PICK r \in Register(strings.latitude) : gpreg' = [gpreg EXCEPT !["LATITUDE"] = r]
    BY <1>8 DEF NvmLatitude, SetRegister, Nvm_set
  <2>2. /\ pc = "LATITUDE" /\ pc' = "sz_longitude"
        /\ UNCHANGED <<inbox, last_response, told, misread, spoiled>>
    BY <1>8 DEF NvmLatitude, At, After, SetRegister, ghostVars
  <2>3. r \in Image("LATITUDE", Kept) \cup Image("LATITUDE", Asked)
    BY <2>2, WrittenOfTwo DEF Image, Between
  <2> QED
    BY <1>5, <2>1, <2>2, <2>3 DEF Items
<1>9. CASE NvmLongitude
  <2>1. PICK r \in Register(strings.longitude) : gpreg' = [gpreg EXCEPT !["LONGITUDE"] = r]
    BY <1>9 DEF NvmLongitude, SetRegister, Nvm_set
  <2>2. /\ pc = "LONGITUDE" /\ pc' = "device_status"
        /\ UNCHANGED <<inbox, last_response, told, misread, spoiled>>
    BY <1>9 DEF NvmLongitude, At, After, SetRegister, ghostVars
  <2>3. r \in Image("LONGITUDE", Kept) \cup Image("LONGITUDE", Asked)
    BY <2>2, WrittenOfTwo DEF Image, Between
  <2> QED
    BY <1>5, <2>1, <2>2, <2>3 DEF Items
<1>10. CASE NvmStatus
  <2>1. pc' = "delete" /\ pc # "header" /\ ~spoiled' /\ UNCHANGED <<inbox, last_response>>
    BY <1>10 DEF NvmStatus, At, After
  <2>2. Registers'
    BY RegistersStep
  <2>3. Loaded(gpreg') => ImageOf(gpreg', Kept')
    BY <2>1, <2>2 DEF Registers
  <2>4. ASSUME NEW item \in Data, Loaded(gpreg') PROVE OfOneOfTwo(item)'
    BY <2>3, <2>4 DEF OfOneOfTwo, Image, ImageOf, Items
  <2> QED
    BY <1>0, <2>1, <2>4 DEF Pending
<1>11. CASE Delete
  <2>1. /\ pc = "delete" /\ pc' = "header" /\ ~spoiled
        /\ UNCHANGED <<gpreg, told, misread, spoiled>>
    BY <1>0, <1>11 DEF Delete, At, After, ghostVars
  <2>2. ASSUME NEW item \in Data, OfOneOfTwo(item) PROVE OfOneOfTwo(item)'
    BY <2>1, <2>2 DEF OfOneOfTwo, Kept, Storing
  <2> QED
    BY <1>0, <2>1, <2>2 DEF Pending, Loaded
<1>12. CASE Task_coordinates
  <2>1. UNCHANGED <<pc, inbox, last_response, gpreg, told, misread, spoiled>>
    BY <1>12 DEF Task_coordinates, Position, Read, ghostVars
  <2>2. ASSUME NEW item \in Data, OfOneOfTwo(item) PROVE OfOneOfTwo(item)'
    BY <2>1, <2>2, PendingKept DEF Storing
  <2> QED
    BY <1>0, <2>1, <2>2 DEF Pending, Loaded
<1>13. CASE Reset
  <2>1. /\ pc' = "header" /\ UNCHANGED <<inbox, gpreg, told, misread>>
        /\ spoiled' = (spoiled \/ (Storing /\ replacing))
    BY <1>13 DEF Reset
  <2>2. spoiled' => inbox \in Messages
    BY <1>0, <2>1 DEF Storing, Responding
  <2>3. Loaded(gpreg) /\ (Storing \/ spoiled) => spoiled'
    BY <2>1 DEF Status
  <2>4. ASSUME NEW item \in Data, Loaded(gpreg), OfOneOfTwo(item) PROVE OfOneOfTwo(item)'
    BY <2>1, <2>3, <2>4, PendingKept
  <2> QED
    BY <1>0, <2>1, <2>2, <2>4 DEF Pending, Loaded
<1> QED
  BY <1>1, <1>2, <1>3, <1>4, <1>6, <1>7, <1>8, <1>9, <1>10, <1>11, <1>12, <1>13
     DEF Next, Task_gsm

(* Whoever reads fields of a loaded zone that is not disturbed finds one    *)
(* zone.                                                                    *)
LEMMA WholeToRead ==
    ASSUME TypeOK, Status, Watched, device_status = SZ_DATA_LOADED, ~spoiled,
           ~(replacing /\ HalfStored)
    PROVE  \E z \in Zones \cup {Nowhere} : ZoneIs(sz, z)
<1>1. CASE pc \in FromLongitude
  <2>1. \A f \in Field : sz[f] = strings[f]
    BY <1>1 DEF Watched, Field, Coordinate, FromRadius, FromLatitude, FromLongitude
  <2> QED
    BY <2>1 DEF ZoneIs, TypeOK
<1>2. CASE pc \notin FromLongitude
  <2>1. told # NoMessage
    BY <1>2 DEF Status, FromLongitude
  <2>2. pc \in Between \cup {"sz_radius"}
    BY <1>2, <2>1
       DEF Status, Storing, HalfStored, Between, FromLongitude, TypeOK, PCs
  <2>3. Kept.zone \in Zones \cup {Nowhere}
    BY <2>1 DEF Kept, TypeOK
  <2> QED
    BY <2>2, <2>3 DEF Watched
<1> QED
  BY <1>1, <1>2

(* What task_coordinates has read is what is there, unless disturbed.       *)
LEMMA CheckedStep ==
    ASSUME TypeOK, Status, Watched, Checked, ReadsOneZone, [Next]_vars
    PROVE  Checked' /\ ReadsOneZone'
<1> USE DEF Checked, ReadsOneZone
<1>1. CASE /\ UNCHANGED <<sz, unread, seen, disturbed>>
           /\ device_status' \in {device_status, SZ_DATA_LOADED}
  BY <1>1
<1>2. CASE SzRadius \/ SzLatitude \/ SzLongitude
  <2>1. UNCHANGED <<unread, seen, device_status>>
    BY <1>2 DEF SzRadius, SzLatitude, SzLongitude, SetField, readVars
  <2>2. unread # {} => disturbed'
    <3>1. Storing /\ pc # "STATUS"
      BY <1>2 DEF SzRadius, SzLatitude, SzLongitude, At, Storing
    <3>2. unread # {} => replacing
      BY <3>1 DEF Status
    <3> QED
      BY <1>2, <3>2 DEF SzRadius, SzLatitude, SzLongitude, SetField
  <2>3. unread = {} => disturbed' = disturbed
    BY <1>2 DEF SzRadius, SzLatitude, SzLongitude, SetField, TypeOK
  <2> QED
    BY <2>1, <2>2, <2>3
<1>3. CASE Position
  <2>1. /\ UNCHANGED <<sz, device_status>> /\ device_status = SZ_DATA_LOADED
        /\ unread' = Field /\ disturbed' = (spoiled \/ (replacing /\ HalfStored))
    BY <1>3 DEF Position, MayCompare, zoneVars
  <2>2. ~disturbed' => \E z \in Zones \cup {Nowhere} : ZoneIs(sz, z)
    BY <2>1, WholeToRead
  <2> QED
    BY <2>1, <2>2 DEF Field, ZoneIs, ZoneRestored
<1>4. ASSUME NEW field \in Field, Read(field)
      PROVE  Checked' /\ ReadsOneZone'
  <2>1. /\ UNCHANGED <<sz, device_status, disturbed>>
        /\ unread' = unread \ {field}
        /\ seen' = [seen EXCEPT ![field] = sz[field]] /\ unread # {}
    BY <1>4 DEF Read, zoneVars, ghostVars
  <2>2. ~disturbed => \A f \in Field \ unread' : seen'[f] = sz[f]
    BY <2>1 DEF TypeOK, Zone, Field, Coordinate
  <2>3. ~disturbed /\ unread' = {} => \E z \in Zones \cup {Nowhere} : ZoneIs(seen', z)
    BY <2>1, <2>2 DEF ZoneIs, ZoneRestored, Field, Coordinate
  <2> QED
    BY <2>1, <2>2, <2>3
<1>5. CASE Reset
  <2>1. unread' = {} /\ seen' = Nowhere
    BY <1>5 DEF Reset
  <2>2. \A f \in Field : seen'[f] = Nowhere[f]
    BY <2>1
  <2>3. ZoneIs(seen', Nowhere)
    BY <2>2 DEF ZoneIs
  <2> HIDE DEF ReadsOneZone
  <2>4. ReadsOneZone'
    BY <2>3 DEF ReadsOneZone
  <2> QED
    BY <2>1, <2>4
<1> QED
  BY <1>1, <1>2, <1>3, <1>4, <1>5
     DEF Next, Task_gsm, Task_coordinates, Arrive, Header, Number, Body, NvmRadius, NvmLatitude,
         NvmLongitude, SetRegister, DeviceStatus, NvmStatus, Delete, vars, zoneVars, readVars,
         ghostVars

-----------------------------------------------------------------------------
(* The theorems.                                                            *)

(* The strengthening holds in every state.                                  *)
LEMMA SafeZoneInvariant == Safety => []SafeZoneInv
<1>1. Init => SafeZoneInv
  <2> SUFFICES ASSUME Init PROVE SafeZoneInv
    OBVIOUS
  <2> USE DEF Init
  <2>1. TypeOK
    <3>1. sz \in Zone /\ seen \in Zone
      BY DEF Zone, Nowhere
    <3>2. resets \in 0..MaxResets
      BY SafeZoneAssumption
    <3>3. phone_number \in [form : {"text", "bytes"}, of : Nat] /\ gpreg \in [Items -> Nat]
      OBVIOUS
    <3> QED
      BY <3>1, <3>2, <3>3 DEF TypeOK, PCs
  <2>2. Responding /\ Registers /\ Status
    BY DEF Responding, Registers, Status, Loaded, Storing, Items, SZ_DATA_LOADED, Between,
       FromRadius, FromLatitude, FromLongitude
  <2>3. Watched /\ Checked
    BY DEF Watched, Checked, SZ_DATA_LOADED, FromRadius, FromLatitude, FromLongitude
  <2>4. ReadsOneZone
    BY DEF ReadsOneZone, ZoneIs
  <2>5. ToldWell
    BY DEF ToldWell
  <2>6. Pending
    BY DEF Pending, Loaded, Items, SZ_DATA_LOADED
  <2> QED
    BY <2>1, <2>2, <2>3, <2>4, <2>5, <2>6 DEF SafeZoneInv
<1>2. SafeZoneInv /\ [Next]_vars => SafeZoneInv'
  BY TypeStep, RespondingStep, RegistersStep, StatusStep, ToldWellStep, PendingStep,
     WatchedStep, CheckedStep
     DEF SafeZoneInv
<1> QED
  BY <1>1, <1>2, PTL DEF Safety

(* Storing, resets and reading keep every variable in its range; coordinates *)
(* of any size stay natural numbers in the registers.                       *)
THEOREM SafeZoneTypeCorrect == Safety => []TypeOK
<1>1. SafeZoneInv => TypeOK
  BY DEF SafeZoneInv
<1> QED
  BY <1>1, SafeZoneInvariant, PTL

(***************************************************************************)
(* At whatever statement a reset comes, loaded registers are those of the  *)
(* last message stored completely or, if it interrupts the replacement of  *)
(* a zone, each of that one or of the message still in the modem.          *)
(***************************************************************************)
THEOREM RegistersCorrect == Safety => []RegistersWhole
<1>1. SafeZoneInv => RegistersWhole
  <2> SUFFICES ASSUME SafeZoneInv, Loaded(gpreg) PROVE RegistersWhole
    BY DEF RegistersWhole
  <2>1. told # NoMessage
    BY DEF SafeZoneInv, Status
  <2>2. \A item \in Items \ {"STATUS"} : OfOneOfTwo(item)
    BY DEF SafeZoneInv, Pending
  <2> QED
    BY <2>1, <2>2 DEF RegistersWhole, OfOneOfTwo
<1> QED
  BY <1>1, SafeZoneInvariant, PTL

(***************************************************************************)
(* The device watches the zone it was told, and after resets one that is   *)
(* in magnitude within one unit of a register of it, whatever the          *)
(* resolution of the registers and however often it is reset.              *)
(***************************************************************************)
THEOREM ZoneCorrect == Safety => []ZoneKept
<1>1. SafeZoneInv => ZoneKept
  <2> SUFFICES ASSUME SafeZoneInv, device_status = SZ_DATA_LOADED, ~spoiled, ~misread,
                      ~Storing
               PROVE  /\ told.zone \in Zones
                      /\ sz.radius = told.zone.radius
                      /\ \A c \in Coordinate :
                            IF parsed THEN sz[c] = told.zone[c]
                            ELSE sz[c] <= 0 /\ Abs(Abs(sz[c]) - Abs(told.zone[c])) <= Fine
    BY DEF ZoneKept
  <2>1. told # NoMessage /\ pc \in Between
    BY DEF SafeZoneInv, Watched, Storing, Between
  <2>2. told.zone \in Zones
    BY <2>1 DEF SafeZoneInv, ToldWell
  <2>3. CASE parsed
    <3>1. \A f \in Field : sz[f] = told.zone[f]
      BY <2>1, <2>3 DEF SafeZoneInv, Responding, Watched
    <3> QED
      BY <2>2, <2>3, <3>1 DEF Field
  <2>4. CASE ~parsed
    <3>1. ZoneRestored(sz, told.zone)
      BY <2>1, <2>4 DEF SafeZoneInv, Watched
    <3>2. ASSUME NEW c \in Coordinate
          PROVE  sz[c] <= 0 /\ Abs(Abs(sz[c]) - Abs(told.zone[c])) <= Fine
      <4>1. told.zone[c] \in Int
        BY <2>2, SafeZoneAssumption DEF Zone, Coordinate
      <4> QED
        BY <3>1, <4>1, RoundTrip DEF ZoneRestored
    <3> QED
      BY <2>2, <2>4, <3>1, <3>2 DEF ZoneRestored
  <2> QED
    BY <2>3, <2>4
<1> QED
  BY <1>1, SafeZoneInvariant, PTL

(***************************************************************************)
(* task_coordinates compares with one zone at whatever statements it and   *)
(* task_gsm are preempted, unless a field of a loaded zone is being        *)
(* replaced or a reset left the zone mixed.                                *)
(***************************************************************************)
THEOREM ReadingCorrect == Safety => []ReadsOneZone
<1>1. SafeZoneInv => ReadsOneZone
  BY DEF SafeZoneInv
<1> QED
  BY <1>1, SafeZoneInvariant, PTL
=============================================================================
