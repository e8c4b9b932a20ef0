------------------------------ MODULE XcomRegisters ------------------------------
(***************************************************************************)
(* A device of the Xcom-485i and the registers behind its properties.      *)
(*                                                                         *)
(* A property is a float in two registers, the high word first.  Settings  *)
(* and signals are holding registers; a write that is not permanent goes   *)
(* to a copy of them 6000 registers further on.  What the device does with *)
(* a value beside keeping it is outside the model.                         *)
(*                                                                         *)
(* One device is enough: the modbus address keeps devices apart.           *)
(***************************************************************************)
EXTENDS XcomTables, Integers

CONSTANTS
  Readings,   \* bound of the model: readings of the model registers
  Multicasts, \* bound of the model: multicast devices
  Numbers,    \* bound of the model: numbers a client writes
  Times       \* bound of the model: times of day, records [hour, minute, second]

\* What Qt makes of a text that is no number, and of one that is no time: the
\* hour, minute and second of an invalid QTime are -1.
Unparsed == -1
NoTime == [hour |-> -1, minute |-> -1, second |-> -1]

\* Numbers, truth values and nothing at all come in CBOR over Bluetooth, texts
\* over both transports; everything a WebSocket client writes is a text, an
\* empty one if the header is missing.  A text is what it converts to: a
\* number, a time or neither.
Values ==
  [kind : {"number"}, number : Numbers]
    \cup [kind : {"text"}, number : Numbers \cup {Unparsed}, time : {NoTime}]
    \cup [kind : {"text"}, number : {Unparsed}, time : Times]
    \cup {[kind |-> "invalid"]}

ASSUME MulticastAssumption == Multicasts \subseteq {"XtenderMulticast", "VarioTrackMulticast", "VarioStringMulticast"}

Families == {"Xtender", "VarioTrack", "VarioString", "BatteryManager"}

ASSUME ReadingAssumption == DOMAIN Readings \subseteq Families

\* What two words hold.
ASSUME ValueAssumption ==
  /\ \A number \in Numbers : number \in Nat /\ number < 32768
  /\ Times \subseteq [hour : 0..23, minute : 0..59, second : 0..59]

VARIABLES
  device,     \* the model that model() has found, "Invalid" when there is none
  holding,    \* holding registers that have been written
  written     \* the last request of a write and its result

vars == <<device, holding, written>>

Nothing == [id |-> 0, value |-> [kind |-> "invalid"], permanent |-> FALSE, status |-> "none"]

-----------------------------------------------------------------------------

Type(id) ==
  CASE id \in TimeIds[device] -> "TimeOfDay"
    [] id \in SignalIds[device] -> "Signal"
    [] OTHER -> "Float"

\* Mutant: the volatile copy begins where settings still are.
AddressNear(id, permanent) == IF permanent THEN Register[id] ELSE Register[id] + 600

Address(id, permanent) == IF permanent THEN Register[id] ELSE Register[id] + 6000

\* Two words with a sign stand for the four bytes of a float.
High(number) == (number \div 256) % 256
Low(number) == number % 256
Signed(number) == IF number < 32768 THEN number ELSE number - 65536

\* The number writeHoldingRegister_ sends for a value.  A time of day is cut
\* to its hour, and its seconds are added: -61 if it is none.
NumberOf(type, value) ==
  CASE type = "Signal" -> 1
    [] type = "TimeOfDay" -> value.time.hour * 60 + value.time.second
    [] type = "Float" /\ value.number = Unparsed -> 0
    [] type = "Float" /\ value.number # Unparsed -> value.number

WordAt(address) == IF address \in DOMAIN holding THEN holding[address] ELSE 0

\* Mutant: the words are taken as they come.
NumberAtSwapped(address) == Signed(256 * WordAt(address + 1) + WordAt(address))

NumberAt(address) == Signed(256 * WordAt(address) + WordAt(address + 1))

\* The time readHoldingRegister_ makes of a number, if there is one.
TimeAt(number) ==
  IF number \in 0..1439 THEN [hour |-> number \div 60, minute |-> number % 60, second |-> 0] ELSE NoTime

\* readProperty_ with the conversion of readHoldingRegister_.
ReadSetting(id) ==
  LET number == NumberAt(Address(id, TRUE)) IN
  IF Type(id) = "TimeOfDay"
  THEN [kind |-> "time", time |-> TimeAt(number)]
  ELSE [kind |-> "number", number |-> number]

\* The checks of writeProperty_ and writeHoldingRegister_, in their order.  Any
\* text may be converted to a time, a number never.
Refusal(id, value) ==
  CASE id \notin Ids[device] -> "NoProperty"
    [] id \in Ids[device] \ WriteableIds[device] -> "Error"
    [] id \in WriteableIds[device] /\ Type(id) # "Signal" /\ value.kind = "invalid" -> "InvalidValue"
    [] id \in WriteableIds[device] /\ Type(id) = "TimeOfDay" /\ value.kind = "number" -> "Error"
    [] OTHER -> "none"

Init ==
  /\ \E family \in DOMAIN Readings : \E reading \in Readings[family] : device = ModelOf(family, reading)
  /\ device # "Invalid"
  /\ holding = <<>>
  /\ written = Nothing

\* The multicast devices stand for all devices of their family.
InitMulticast ==
  /\ device \in Multicasts
  /\ holding = <<>>
  /\ written = Nothing

RefuseWrite(id, value, permanent) ==
  /\ Refusal(id, value) # "none"
  /\ written' = [id |-> id, value |-> value, permanent |-> permanent, status |-> Refusal(id, value)]
  /\ UNCHANGED <<device, holding>>

\* The request reaches the device.  Its answer may be lost or late.
WriteProperty(id, value, permanent, answered) ==
  /\ Refusal(id, value) = "none"
  /\ LET number == NumberOf(Type(id), value)
         address == Address(id, permanent) IN
       holding' = [a \in DOMAIN holding \cup {address, address + 1} |->
                     CASE a = address -> High(number)
                       [] a = address + 1 -> Low(number)
                       [] OTHER -> holding[a]]
  /\ written' = [id |-> id, value |-> value, permanent |-> permanent,
                 status |-> IF answered THEN "Success" ELSE "Error"]
  /\ UNCHANGED device

\* The request is lost.
LoseWrite(id, value, permanent) ==
  /\ Refusal(id, value) = "none"
  /\ written' = [id |-> id, value |-> value, permanent |-> permanent, status |-> "Error"]
  /\ UNCHANGED <<device, holding>>

\* One write in each behaviour: the properties look at all other settings.
Next ==
  /\ written = Nothing
  /\ \E id \in Ids[device] \cup {1}, value \in Values, permanent \in BOOLEAN :
       \/ RefuseWrite(id, value, permanent)
       \/ \E answered \in BOOLEAN : WriteProperty(id, value, permanent, answered)
       \/ LoseWrite(id, value, permanent)

RegistersSpec == (Init \/ InitMulticast) /\ [][Next]_vars

-----------------------------------------------------------------------------

RegistersTypeOK ==
  /\ device \in Models
  /\ written.status \in {"none", "Success", "Error", "NoProperty", "InvalidValue"}
  /\ \A address \in DOMAIN holding : holding[address] \in 0..255

(***************************************************************************)
(* A write changes the registers of its own property, in the copy it is    *)
(* meant for, and of no other property of the device: no two rows of the   *)
(* tables share a register, no copy reaches into the settings.             *)
(***************************************************************************)
WriteTouchesOne ==
  [][LET changed == {address \in DOMAIN holding' : WordAt(address)' # WordAt(address)} IN
       changed # {} =>
         \A id \in WriteableIds[device], permanent \in BOOLEAN :
           <<id, permanent>> # <<written'.id, written'.permanent>>
             => {Address(id, permanent), Address(id, permanent) + 1} \cap changed = {}]_vars

(***************************************************************************)
(* How a setting reads back after a write for good that was answered with  *)
(* Success: the words are put together in the order they were taken apart. *)
(* A number, or a text that is one, reads back as that number.  A time of  *)
(* day reads back with its hour; the minutes that are read are the seconds *)
(* that were written, as the write adds seconds where the read expects     *)
(* minutes.  Success is answered to any text: one that is no number sets a *)
(* number to 0, a time's too, and one that is no time reads back as none.  *)
(***************************************************************************)
WrittenIsRead ==
  written.status = "Success" /\ written.permanent =>
    /\ Type(written.id) = "Float" =>
         ReadSetting(written.id).number = IF written.value.number = Unparsed THEN 0 ELSE written.value.number
    /\ Type(written.id) = "TimeOfDay" =>
         /\ ReadSetting(written.id).time.hour = written.value.time.hour
         /\ ReadSetting(written.id).time.minute = written.value.time.second

=============================================================================
