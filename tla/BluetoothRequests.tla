--------------------------- MODULE BluetoothRequests ---------------------------
(***************************************************************************)
(* SIBluetoothProtocolV1: the handlers of the Bluetooth protocol.  A frame *)
(* has a command and a sequence of parameters, each with its kind: "null", *)
(* "datum", a text or a number, or "container", which no frame may hold.   *)
(***************************************************************************)
EXTENDS SessionRequests

\* fromBytes: a parameter of a type it does not know makes the frame INVALID.
FromBytes(frame) ==
  IF \E i \in DOMAIN frame.parameters : frame.parameters[i].kind = "container"
  THEN [command |-> "INVALID", parameters |-> <<>>]
  ELSE frame

\* QVariant::canConvert: text and numbers convert into each other, null only
\* into null.
CanConvert(parameter, type) ==
  IF parameter.kind = "null" THEN type = "Invalid" ELSE type # "Invalid"

\* validateParameters: one set of types per parameter, the empty set for any.
ValidParameters(frame, types, allowAdditional) ==
  /\ IF allowAdditional THEN Len(frame.parameters) >= Len(types) ELSE Len(frame.parameters) = Len(types)
  /\ \A i \in DOMAIN types :
       types[i] # {} => \E type \in types[i] : CanConvert(frame.parameters[i], type)

Id == <<{"String"}>>

IsNull(frame, i) == frame.parameters[i].kind = "null"

Value(frame, i) == frame.parameters[i].value

\* The listings of a description leave the session's level aside.
BtDescribeId(level, id) ==
  CASE Len(id) \in {1, 2} /\ id[1] # Access -> Reply("NoDeviceAccess")
    [] Len(id) = 1 /\ id[1] = Access -> Listing({<<Access, d>> : d \in devices})
    [] Len(id) = 2 /\ id[1] = Access ->
         IF id[2] \in devices THEN Listing({<<Access, id[2], n>> : n \in DOMAIN Table[id[2]]})
         ELSE Reply("NoDevice")
    [] Len(id) = 3 -> IF Hidden(level, id) THEN Reply("NoProperty") ELSE Listing({id})
    [] OTHER -> InvalidFrame

BtDescribe(level, frame) ==
  CASE ~ValidParameters(frame, <<{"String", "Invalid"}>>, FALSE) -> InvalidFrame
    [] ValidParameters(frame, Id, FALSE) -> BtDescribeId(level, Value(frame, 1))
    [] OTHER -> Listing({<<Access>>})

BtReadProperty(level, frame) ==
  IF ~ValidParameters(frame, Id, FALSE) THEN InvalidFrame
  ELSE LET id == Value(frame, 1) IN
       CASE Hidden(level, id) -> Reply("NoProperty")
         [] ~Hidden(level, id) /\ ~PropertyOf(id).readable -> Reply("Error")
         [] OTHER -> Queued("read", <<id>>)

\* The flags are a number whose bits are taken as they are, the value is of any
\* kind, also null.
BtWriteProperty(level, frame) ==
  IF ~ValidParameters(frame, <<{"String"}, {"Int", "Invalid"}, {}>>, FALSE) THEN InvalidFrame
  ELSE LET id == Value(frame, 1) IN
       CASE Hidden(level, id) -> Reply("NoProperty")
         [] ~Hidden(level, id) /\ ~PropertyOf(id).writeable -> Reply("Error")
         [] OTHER -> QueuedWrite(id, IF IsNull(frame, 2) THEN DefaultWriteFlags ELSE Value(frame, 2),
                       IF IsNull(frame, 3) THEN "null" ELSE Value(frame, 3))

BtSubscribeProperty(level, frame) ==
  IF ~ValidParameters(frame, Id, FALSE) THEN InvalidFrame
  ELSE LET id == Value(frame, 1) IN
       CASE Hidden(level, id) -> Reply("NoProperty")
         [] ~Hidden(level, id) /\ ~PropertyOf(id).readable -> Reply("Error")
         [] OTHER -> Subscribe(id)

BtUnsubscribeProperty(frame) ==
  CASE ~ValidParameters(frame, Id, FALSE) -> InvalidFrame
    [] ValidParameters(frame, Id, FALSE) /\ ~IsValid(Value(frame, 1)) -> Reply("NoProperty")
    [] OTHER -> Unsubscribe(Value(frame, 1))

Time == {"ULongLong", "Invalid"}

UpTo == {"UInt", "Invalid"}

\* A number of seconds, 0 for a text that is no number.
Seconds(frame, i, default) ==
  CASE IsNull(frame, i) -> default
    [] ~IsNull(frame, i) /\ Value(frame, i) = "bad" -> "epoch"
    [] OTHER -> Value(frame, i)

\* A text converts to a number or not; of a number the low 32 bits are taken,
\* which are few in the one that is "wide".
ReadableLimit(frame, i) == IsNull(frame, i) \/ Value(frame, i) # "bad"

Low(limit) == IF limit = "wide" THEN "few" ELSE limit

\* qMin(1000U, limit).
Capped(limit) == IF limit = "many" THEN "1000" ELSE limit

BtReadMessages(frame) ==
  IF ValidParameters(frame, <<Time, Time, UpTo>>, FALSE) /\ ReadableLimit(frame, 3)
  THEN Stored("messages", <<Seconds(frame, 1, "epoch"), Seconds(frame, 2, "now"),
                            IF IsNull(frame, 3) THEN "all" ELSE Low(Value(frame, 3))>>)
  ELSE InvalidFrame

\* At most 1000 values; the limit is read for a list of ids too, without use.
BtReadDatalog(frame) ==
  LET valid == /\ ValidParameters(frame, <<{"String", "Invalid"}, Time, Time, UpTo>>, FALSE)
               /\ IsNull(frame, 1) \/ IsValid(Value(frame, 1))
               /\ ReadableLimit(frame, 4)
      from == Seconds(frame, 2, "epoch")
      to == Seconds(frame, 3, "now")
  IN  CASE ~valid -> InvalidFrame
        [] valid /\ IsNull(frame, 1) -> Stored("logged", <<from, to>>)
        [] OTHER -> Stored("values", <<Value(frame, 1), from, to,
                      IF IsNull(frame, 4) THEN "1000" ELSE Capped(Low(Value(frame, 4)))>>)

\* No virtual devices, every function.
BtFindProperties(frame) ==
  CASE ~ValidParameters(frame, Id, FALSE) -> InvalidFrame
    [] ValidParameters(frame, Id, FALSE) /\ ~IsValid(Value(frame, 1)) -> InvalidFrame
    [] OTHER -> Listing(FindProperties(Value(frame, 1), FALSE, FunctionNames))

\* The braces around the two types make one set of them: one parameter is
\* asked for, two are used, and using one that is missing is undefined.
BtCallExtension(user, frame) ==
  CASE ~ValidParameters(frame, Id, TRUE) -> InvalidFrame
    [] ValidParameters(frame, Id, TRUE) /\ Len(frame.parameters) < 2 -> Reply("undefined")
    [] ValidParameters(frame, Id, TRUE) /\ Len(frame.parameters) >= 2 ->
         LET x == Value(frame, 1) IN
         CASE x \notin OnBluetooth -> Reply("UnsupportedExtension")
           [] x \in OnBluetooth /\ ~AllowedForUser(user, x) -> Reply("Forbidden")
           [] OTHER -> Reply("run")

\* handleFrame.
BluetoothReply(level, user, frame) ==
  CASE frame.command = "AUTHORIZE" -> Reply("invalid state")
    [] frame.command = "ENUMERATE" ->
         IF frame.parameters # <<>> THEN InvalidFrame ELSE Queued("enumerate", <<>>)
    [] frame.command = "DESCRIBE" -> BtDescribe(level, frame)
    [] frame.command = "READ_PROPERTY" -> BtReadProperty(level, frame)
    [] frame.command = "WRITE_PROPERTY" -> BtWriteProperty(level, frame)
    [] frame.command = "SUBSCRIBE_PROPERTY" -> BtSubscribeProperty(level, frame)
    [] frame.command = "UNSUBSCRIBE_PROPERTY" -> BtUnsubscribeProperty(frame)
    [] frame.command = "READ_MESSAGES" -> BtReadMessages(frame)
    [] frame.command = "READ_DATALOG" -> BtReadDatalog(frame)
    [] frame.command = "FIND_PROPERTIES" -> BtFindProperties(frame)
    [] frame.command = "CALL_EXTENSION" -> BtCallExtension(user, frame)
    [] OTHER -> InvalidFrame

=============================================================================
