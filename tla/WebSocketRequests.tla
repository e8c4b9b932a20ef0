--------------------------- MODULE WebSocketRequests ---------------------------
(***************************************************************************)
(* SIWebSocketProtocolV1: the handlers of the WebSocket protocol.  A frame *)
(* has a command, headers by name and a body, which is NoBody, BadBody or  *)
(* the ids of a JSON array.  The text of a frame is read into these by     *)
(* fromMessage and written by toMessage.                                   *)
(***************************************************************************)
EXTENDS SessionRequests

\* The commands as fromMessage reads them.
ReadCommand(text) ==
  CASE text = "AUTHORIZE" -> "AUTHORIZE" [] text = "ENUMERATE" -> "ENUMERATE" [] text = "DESCRIBE" -> "DESCRIBE"
    [] text = "READ PROPERTY" -> "READ_PROPERTY" [] text = "READ PROPERTIES" -> "READ_PROPERTIES"
    [] text = "WRITE PROPERTY" -> "WRITE_PROPERTY" [] text = "SUBSCRIBE PROPERTY" -> "SUBSCRIBE_PROPERTY"
    [] text = "SUBSCRIBE PROPERTIES" -> "SUBSCRIBE_PROPERTIES"
    [] text = "UNSUBSCRIBE PROPERTY" -> "UNSUBSCRIBE_PROPERTY"
    [] text = "UNSUBSCRIBE PROPERTIES" -> "UNSUBSCRIBE_PROPERTIES" [] text = "READ MESSAGES" -> "READ_MESSAGES"
    [] text = "READ DATALOG" -> "READ_DATALOG" [] text = "FIND PROPERTIES" -> "FIND_PROPERTIES"
    [] text = "CALL EXTENSION" -> "CALL_EXTENSION" [] text = "ERROR" -> "ERROR"
    [] text = "AUTHORIZED" -> "AUTHORIZED" [] text = "ENUMERATED" -> "ENUMERATED"
    [] text = "DESCRIPTION" -> "DESCRIPTION" [] text = "PROPERTY READ" -> "PROPERTY_READ"
    [] text = "PROPERTIES READ" -> "PROPERTIES_READ" [] text = "PROPERTY WRITTEN" -> "PROPERTY_WRITTEN"
    [] text = "PROPERTY SUBSCRIBED" -> "PROPERTY_SUBSCRIBED"
    [] text = "PROPERTIES SUBSCRIBED" -> "PROPERTIES_SUBSCRIBED"
    [] text = "PROPERTY UNSUBSCRIBED" -> "PROPERTY_UNSUBSCRIBED"
    [] text = "PROPERTIES UNSUBSCRIBED" -> "PROPERTIES_UNSUBSCRIBED"
    [] text = "PROPERTY UPDATE" -> "PROPERTY_UPDATE" [] text = "DEVICE MESSAGE" -> "DEVICE_MESSAGE"
    [] text = "MESSAGES_READ" -> "MESSAGES_READ" [] text = "DATALOG READ" -> "DATALOG_READ"
    [] text = "PROPERTIES FOUND" -> "PROPERTIES_FOUND" [] text = "EXTENSION CALLED" -> "EXTENSION_CALLED"
    [] OTHER -> "INVALID"

\* The commands as to_string writes them.
WrittenAs ==
  [AUTHORIZE |-> "AUTHORIZE", ENUMERATE |-> "ENUMERATE", DESCRIBE |-> "DESCRIBE",
   READ_PROPERTY |-> "READ PROPERTY", READ_PROPERTIES |-> "READ PROPERTIES",
   WRITE_PROPERTY |-> "WRITE PROPERTY",
   SUBSCRIBE_PROPERTY |-> "SUBSCRIBE PROPERTY", SUBSCRIBE_PROPERTIES |-> "SUBSCRIBE PROPERTIES",
   UNSUBSCRIBE_PROPERTY |-> "UNSUBSCRIBE PROPERTY", UNSUBSCRIBE_PROPERTIES |-> "UNSUBSCRIBE PROPERTIES",
   READ_MESSAGES |-> "READ MESSAGES", READ_DATALOG |-> "READ DATALOG",
   FIND_PROPERTIES |-> "FIND PROPERTIES", CALL_EXTENSION |-> "CALL EXTENSION",
   ERROR |-> "ERROR", AUTHORIZED |-> "AUTHORIZED", ENUMERATED |-> "ENUMERATED",
   DESCRIPTION |-> "DESCRIPTION", PROPERTY_READ |-> "PROPERTY READ", PROPERTIES_READ |-> "PROPERTIES READ",
   PROPERTY_WRITTEN |-> "PROPERTY WRITTEN",
   PROPERTY_SUBSCRIBED |-> "PROPERTY SUBSCRIBED", PROPERTIES_SUBSCRIBED |-> "PROPERTIES SUBSCRIBED",
   PROPERTY_UNSUBSCRIBED |-> "PROPERTY UNSUBSCRIBED", PROPERTIES_UNSUBSCRIBED |-> "PROPERTIES UNSUBSCRIBED",
   PROPERTY_UPDATE |-> "PROPERTY UPDATE", DEVICE_MESSAGE |-> "DEVICE MESSAGE",
   MESSAGES_READ |-> "MESSAGES READ", DATALOG_READ |-> "DATALOG READ",
   PROPERTIES_FOUND |-> "PROPERTIES FOUND", EXTENSION_CALLED |-> "EXTENSION CALLED"]

\* toMessage: the text of the command, the headers and the body.
ToMessage(frame) == [frame EXCEPT !.command = WrittenAs[@]]

\* fromMessage: a header line without a colon makes the whole frame INVALID.
FromMessage(message) ==
  IF "noColon" \in DOMAIN message.headers
  THEN [command |-> "INVALID", headers |-> <<>>, body |-> NoBody]
  ELSE [message EXCEPT !.command = ReadCommand(@)]

-----------------------------------------------------------------------------

HasBody(frame) == frame.body # NoBody

Has(frame, header) == header \in DOMAIN frame.headers

ValidHeaders(frame, required, optional) ==
  /\ required \subseteq DOMAIN frame.headers
  /\ DOMAIN frame.headers \subseteq required \cup optional

\* SIDevice::jsonDescription: the properties within the session's level.
ListedInDevice(level, d, flags) ==
  IF "IncludePropertyInformation" \in flags
  THEN {<<Access, d, n>> : n \in {m \in DOMAIN Table[d] : Table[d][m].level <= level}}
  ELSE {}

\* SIDeviceAccess::jsonDescription: its devices, and what each of them lists.
ListedInAccess(level, flags) ==
  IF "IncludeDeviceInformation" \in flags
  THEN {<<Access, d>> : d \in devices} \cup UNION {ListedInDevice(level, d, flags) : d \in devices}
  ELSE {}

ListedInRegistry(level, flags) ==
  IF "IncludeAccessInformation" \in flags THEN {<<Access>>} \cup ListedInAccess(level, flags) ELSE {}

DefaultFlags == {"IncludeAccessInformation", "IncludeDeviceInformation"}

DescriptionFlags == DefaultFlags \cup {"IncludePropertyInformation", "IncludeDriverInformation"}

WsDescribeId(level, id, flags) ==
  CASE Len(id) \in {1, 2} /\ id[1] # Access -> Reply("NoDeviceAccess")
    [] Len(id) = 1 /\ id[1] = Access -> Listing(ListedInAccess(level, flags))
    [] Len(id) = 2 /\ id[1] = Access ->
         IF id[2] \in devices THEN Listing(ListedInDevice(level, id[2], flags)) ELSE Reply("NoDevice")
    [] Len(id) = 3 -> IF Hidden(level, id) THEN Reply("NoProperty") ELSE Listing({id})
    [] OTHER -> InvalidFrame

WsDescribe(level, frame) ==
  LET flags == IF Has(frame, "flags") THEN frame.headers.flags ELSE DefaultFlags
  IN  IF HasBody(frame) \/ ~ValidHeaders(frame, {}, {"id", "flags"}) \/ ~(flags \subseteq DescriptionFlags)
      THEN InvalidFrame
      ELSE IF Has(frame, "id") THEN WsDescribeId(level, frame.headers.id, flags)
           ELSE Listing(ListedInRegistry(level, flags))

\* Mutant: the level of the session is not compared.
WsReadPropertyOfAny(level, frame) ==
  IF HasBody(frame) \/ ~ValidHeaders(frame, {"id"}, {}) THEN InvalidFrame
  ELSE LET id == frame.headers.id IN
       CASE ~Resolves(id) -> Reply("NoProperty")
         [] Resolves(id) /\ ~PropertyOf(id).readable -> Reply("Error")
         [] OTHER -> Queued("read", <<id>>)

WsReadProperty(level, frame) ==
  IF HasBody(frame) \/ ~ValidHeaders(frame, {"id"}, {}) THEN InvalidFrame
  ELSE LET id == frame.headers.id IN
       CASE Hidden(level, id) -> Reply("NoProperty")
         [] ~Hidden(level, id) /\ ~PropertyOf(id).readable -> Reply("Error")
         [] OTHER -> Queued("read", <<id>>)

\* The ids have to name properties, not to resolve.
WsReadProperties(frame) ==
  IF frame.body \in {NoBody, BadBody, <<>>} \/ ~ValidHeaders(frame, {}, {})
     \/ \E i \in DOMAIN frame.body : ~IsValid(frame.body[i]) \/ IsWildcard(frame.body[i])
  THEN InvalidFrame
  ELSE Queued("readBatch", frame.body)

\* The flags are looked at after the property; their text may be empty.  The
\* value is the text of its header, an empty one without the header.
WsWriteProperty(level, frame) ==
  IF HasBody(frame) \/ ~ValidHeaders(frame, {"id"}, {"value", "flags"}) THEN InvalidFrame
  ELSE LET id == frame.headers.id IN
       CASE Hidden(level, id) -> Reply("NoProperty")
         [] ~Hidden(level, id) /\ ~PropertyOf(id).writeable -> Reply("Error")
         [] OTHER -> IF Has(frame, "flags") /\ ~(frame.headers.flags \subseteq {"Permanent"})
                     THEN InvalidFrame
                     ELSE QueuedWrite(id, IF Has(frame, "flags") THEN frame.headers.flags ELSE DefaultWriteFlags,
                            IF Has(frame, "value") THEN "text" ELSE "empty text")

\* SUBSCRIBE PROPERTY once its frame is accepted.
WsSubscribeId(level, id) ==
  CASE Hidden(level, id) -> Reply("NoProperty")
    [] ~Hidden(level, id) /\ ~PropertyOf(id).readable -> Reply("Error")
    [] OTHER -> Subscribe(id)

WsSubscribeProperty(level, frame) ==
  IF HasBody(frame) \/ ~ValidHeaders(frame, {"id"}, {}) THEN InvalidFrame
  ELSE WsSubscribeId(level, frame.headers.id)

\* Mutant: the loop over the batch does not test whether a value can be read.
WsSubscribeEntryUnreadable(level, id) ==
  IF Hidden(level, id) THEN Reply("NoProperty") ELSE Subscribe(id)

\* An entry of SUBSCRIBE PROPERTIES.
WsSubscribeEntry(level, id) ==
  CASE Hidden(level, id) -> Reply("NoProperty")
    [] ~Hidden(level, id) /\ ~PropertyOf(id).readable -> Reply("Error")
    [] OTHER -> Subscribe(id)

IsArray(body) == body \notin {NoBody, BadBody}

WsSubscribeProperties(level, frame) ==
  IF ~IsArray(frame.body) \/ ~ValidHeaders(frame, {}, {}) THEN InvalidFrame
  ELSE Batch([i \in DOMAIN frame.body |-> WsSubscribeEntry(level, frame.body[i])])

\* UNSUBSCRIBE PROPERTY once its frame is accepted, and an entry of a batch.
WsUnsubscribeId(id) == IF IsValid(id) THEN Unsubscribe(id) ELSE Reply("NoProperty")

WsUnsubscribeProperty(frame) ==
  IF HasBody(frame) \/ ~ValidHeaders(frame, {"id"}, {}) THEN InvalidFrame
  ELSE WsUnsubscribeId(frame.headers.id)

WsUnsubscribeEntry(id) == IF ~IsValid(id) THEN Reply("NoProperty") ELSE Unsubscribe(id)

WsUnsubscribeProperties(frame) ==
  IF ~IsArray(frame.body) \/ ~ValidHeaders(frame, {}, {}) THEN InvalidFrame
  ELSE Batch([i \in DOMAIN frame.body |-> WsUnsubscribeEntry(frame.body[i])])

\* The range and the limit of a query: a text, "bad" if it cannot be read.
From(frame) == IF Has(frame, "from") THEN frame.headers.from ELSE "epoch"

To(frame) == IF Has(frame, "to") THEN frame.headers.to ELSE "now"

Limit(frame) == IF Has(frame, "limit") THEN frame.headers.limit ELSE "all"

\* from and limit have to be readable, the limit in 32 bits.  Of "to", "from"
\* is tested again: a bad one stays, an invalid date.
WsRange(frame) == From(frame) # "bad" /\ Limit(frame) \notin {"bad", "wide"}

WsReadMessages(frame) ==
  IF HasBody(frame) \/ ~ValidHeaders(frame, {}, {"from", "to", "limit"}) \/ ~WsRange(frame)
  THEN InvalidFrame
  ELSE Stored("messages", <<From(frame), To(frame), Limit(frame)>>)

WsReadDatalog(frame) ==
  IF HasBody(frame) \/ ~ValidHeaders(frame, {}, {"id", "from", "to", "limit"})
     \/ (Has(frame, "id") /\ ~IsValid(frame.headers.id)) \/ ~WsRange(frame)
  THEN InvalidFrame
  ELSE IF Has(frame, "id")
       THEN Stored("values", <<frame.headers.id, From(frame), To(frame), Limit(frame)>>)
       ELSE Stored("logged", <<From(frame), To(frame)>>)

AskedFunctions(names) == IF "all" \in names THEN FunctionNames ELSE names

WsFindProperties(frame) ==
  IF HasBody(frame) \/ ~ValidHeaders(frame, {"id"}, {"virtual", "functions"}) THEN InvalidFrame
  ELSE LET names == IF Has(frame, "functions") THEN frame.headers.functions ELSE {"all"}
           virtual == Has(frame, "virtual") /\ frame.headers.virtual = "true"
       IN  IF ~IsValid(frame.headers.id) \/ ~(names \subseteq FunctionNames \cup {"all"})
           THEN InvalidFrame
           ELSE Listing(FindProperties(frame.headers.id, virtual, AskedFunctions(names)))

\* callExtension and runCommand up to the extension's own command.  The other
\* headers and the body are the extension's to look at.
WsCallExtension(user, frame) ==
  IF ~Has(frame, "extension") \/ ~Has(frame, "command") THEN InvalidFrame
  ELSE LET x == frame.headers.extension IN
       CASE x \notin Extensions -> Reply("UnsupportedExtension")
         [] x \in Extensions /\ ~AllowedForUser(user, x) -> Reply("Forbidden")
         [] OTHER -> Reply("run")

\* handleFrame.
WebSocketReply(level, user, frame) ==
  CASE frame.command = "AUTHORIZE" -> Reply("invalid state")
    [] frame.command = "ENUMERATE" ->
         IF HasBody(frame) \/ DOMAIN frame.headers # {} THEN InvalidFrame ELSE Queued("enumerate", <<>>)
    [] frame.command = "DESCRIBE" -> WsDescribe(level, frame)
    [] frame.command = "READ_PROPERTY" -> WsReadProperty(level, frame)
    [] frame.command = "READ_PROPERTIES" -> WsReadProperties(frame)
    [] frame.command = "WRITE_PROPERTY" -> WsWriteProperty(level, frame)
    [] frame.command = "SUBSCRIBE_PROPERTY" -> WsSubscribeProperty(level, frame)
    [] frame.command = "SUBSCRIBE_PROPERTIES" -> WsSubscribeProperties(level, frame)
    [] frame.command = "UNSUBSCRIBE_PROPERTY" -> WsUnsubscribeProperty(frame)
    [] frame.command = "UNSUBSCRIBE_PROPERTIES" -> WsUnsubscribeProperties(frame)
    [] frame.command = "READ_MESSAGES" -> WsReadMessages(frame)
    [] frame.command = "READ_DATALOG" -> WsReadDatalog(frame)
    [] frame.command = "FIND_PROPERTIES" -> WsFindProperties(frame)
    [] frame.command = "CALL_EXTENSION" -> WsCallExtension(user, frame)
    [] OTHER -> InvalidFrame

=============================================================================
