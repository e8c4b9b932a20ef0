------------------------------- MODULE Sessions -------------------------------
(***************************************************************************)
(* The sessions of clients of both transports over one device access       *)
(* manager: clients are authorized, ask, subscribe and leave, enumerations *)
(* add and remove devices, the poll timer drops subscriptions nobody uses. *)
(*                                                                         *)
(* A request is what a client wants to ask; it is put into a frame of the  *)
(* client's transport, and the handlers of WebSocketRequests and of        *)
(* BluetoothRequests answer it.                                            *)
(*                                                                         *)
(* What happens to the operations a request puts into the queue is the     *)
(* subject of ClientRequests and PropertyPolling, what a client's link     *)
(* does to the frames that of BluetoothLink.                               *)
(***************************************************************************)
EXTENDS WebSocketRequests, BluetoothRequests

CONSTANTS
  Clients,
  Bluetooth,     \* those that are connected by Bluetooth
  Users,         \* names a client gives
  Nobody,        \* the client gives no name
  LevelOf,       \* [Users -> level of the user in the user file]
  GuestLevel,    \* Authorize/guestAccessLevel
  Authorizing,   \* Authorize/enabled
  Ids,           \* ids the clients ask with
  Batches,       \* batches of ids the clients ask with
  Absent,        \* an argument a request does not have
  MaxSubscribed  \* bound on the subscription objects

ASSUME SessionAssumption ==
  /\ Bluetooth \subseteq Clients
  /\ Nobody \notin Users
  /\ LevelOf \in [Users -> Nat]
  /\ GuestLevel \in Nat
  /\ Authorizing \in BOOLEAN
  /\ Absent \notin Ids \cup Extensions \cup {Unknown}

VARIABLES
  sessions,   \* [client -> level and user name of its protocol object]
  granted     \* history: ids each client was told to be subscribed to

sessionVars == <<devices, subscriptions, sessions, granted>>

Parts == {Access, Star, Unknown, Word} \cup Devices \cup Numbers

\* Of the ids that can be written, a client asks with some, among them those
\* of all the properties.
ASSUME IdAssumption ==
  /\ Ids \subseteq Seq(Parts)
  /\ \A d \in Devices : \A n \in DOMAIN Table[d] : <<Access, d, n>> \in Ids

\* A batch is an array of ids, told from no body and from one that is no array.
ASSUME BatchAssumption ==
  /\ Batches \subseteq Seq(Ids)
  /\ NoBody \notin Batches
  /\ BadBody \notin Batches

-----------------------------------------------------------------------------
(* Requests and their frames.  A request is a command with its arguments by *)
(* name; "extra" stands for one that no command has.                        *)

\* The arguments that have a place in a Bluetooth frame, in the order of these.
Order ==
  [ENUMERATE |-> <<>>, DESCRIBE |-> <<"id">>, READ_PROPERTY |-> <<"id">>,
   WRITE_PROPERTY |-> <<"id", "flags", "value">>, SUBSCRIBE_PROPERTY |-> <<"id">>,
   UNSUBSCRIBE_PROPERTY |-> <<"id">>, READ_MESSAGES |-> <<"from", "to", "limit">>,
   READ_DATALOG |-> <<"id", "from", "to", "limit">>, FIND_PROPERTIES |-> <<"id">>,
   CALL_EXTENSION |-> <<"extension", "command">>]

Optional(values) == values \cup {Absent}

Extra == Optional({Unknown})

Times == Optional({"good", "bad"})

Limits == Optional({"few", "many", "wide", "bad"})

\* What a client may give for each argument.  Times are dates or not; limits
\* are up to 1000, above, beyond 32 bits or no number; flags are names or the
\* bits of a number; the value to write is a text or, over Bluetooth, a number.
Forms ==
  [ENUMERATE |-> [extra : Extra],
   DESCRIBE |-> [id : Optional(Ids), extra : Extra,
                 flags : Optional({{}, {"IncludePropertyInformation"}, DescriptionFlags, {"other"}})],
   READ_PROPERTY |-> [id : Optional(Ids), extra : Extra],
   WRITE_PROPERTY |-> [id : Optional(Ids), extra : Extra, flags : Optional(SUBSET {"Permanent", "other"}),
                       value : Optional({"text", "number"})],
   SUBSCRIBE_PROPERTY |-> [id : Optional(Ids), extra : Extra],
   UNSUBSCRIBE_PROPERTY |-> [id : Optional(Ids), extra : Extra],
   READ_MESSAGES |-> [from : Times, to : Times, limit : Limits, extra : Extra],
   READ_DATALOG |-> [id : Optional(Ids), from : Times, to : Times, limit : Limits, extra : Extra],
   FIND_PROPERTIES |-> [id : Optional(Ids), extra : Extra, virtual : Optional({"true", "false"}),
                        functions : Optional({{}, {"battery"}, {"all"}, {"other"}})],
   CALL_EXTENSION |-> [extension : Optional(Extensions \cup {Unknown}), command : Optional({Unknown}),
                       extra : Extra]]

Given(form) == [name \in {x \in DOMAIN form : form[x] # Absent} |-> form[name]]

Requests ==
  UNION {[command : {command}, arguments : {Given(form) : form \in Forms[command]}] : command \in DOMAIN Forms}

WebSocketFrame(r) ==
  FromMessage(ToMessage([command |-> r.command, headers |-> r.arguments, body |-> NoBody]))

ParameterOf(r, name) ==
  IF name \in DOMAIN r.arguments
  THEN [kind |-> "datum", value |-> r.arguments[name]]
  ELSE [kind |-> "null", value |-> Unknown]

\* The places of the parameters; an extension call may end with the extension.
Places(r) ==
  IF r.command = "CALL_EXTENSION" /\ "command" \notin DOMAIN r.arguments
  THEN <<"extension">>
  ELSE Order[r.command]

\* Arguments for WebSocket only, flags of a description or devices to look for.
Placeless(r) ==
  \/ r.command = "DESCRIBE" /\ "flags" \in DOMAIN r.arguments
  \/ r.command = "FIND_PROPERTIES" /\ {"virtual", "functions"} \cap DOMAIN r.arguments # {}

\* An argument without a place makes the frame longer than it should be.
BluetoothFrame(r) ==
  LET places == Places(r)
      behind == IF "extra" \in DOMAIN r.arguments \/ Placeless(r) THEN <<ParameterOf(r, "extra")>> ELSE <<>>
  IN  FromBytes([command |-> r.command,
                 parameters |-> [i \in DOMAIN places |-> ParameterOf(r, places[i])] \o behind])

\* The reply of the client's protocol object.
ReplyTo(c, r) ==
  IF c \in Bluetooth
  THEN BluetoothReply(sessions[c].level, sessions[c].user, BluetoothFrame(r))
  ELSE WebSocketReply(sessions[c].level, sessions[c].user, WebSocketFrame(r))

-----------------------------------------------------------------------------

SessionsInit ==
  /\ devices \in SUBSET Devices
  /\ subscriptions = <<>>
  /\ sessions = <<>>
  /\ granted = [c \in Clients |-> {}]

\* Level for a name and a password; a level of 0 is no authorization.
LevelFor(user, password) ==
  IF Authorizing /\ user # Nobody /\ password # "none"
  THEN IF password = "right" THEN LevelOf[user] ELSE 0
  ELSE GuestLevel

\* AUTHORIZE: the name is the session's whether or not there is a password.
Authorize(c, user, password) ==
  /\ c \notin DOMAIN sessions
  /\ LevelFor(user, password) > 0
  /\ sessions' = [x \in DOMAIN sessions \cup {c} |->
                    IF x = c THEN [level |-> LevelFor(user, password), user |-> user] ELSE sessions[x]]
  /\ UNCHANGED <<devices, subscriptions, granted>>

\* The subscriptions after client c was answered.  A set of ids is inserted
\* into the list, each with its subscribers.
Subscriptions(c, reply) ==
  [id \in DOMAIN subscriptions \cup reply.add |->
    IF id \in reply.add
    THEN (IF id \in DOMAIN subscriptions THEN subscriptions[id] ELSE {}) \cup {c}
    ELSE IF id \in reply.remove THEN subscriptions[id] \ {c} ELSE subscriptions[id]]

\* Bound: subscription objects.
MayAdd(ids) == Cardinality(DOMAIN subscriptions \cup ids) <= MaxSubscribed

\* A frame of one request is handled.
Handle(c, r) ==
  /\ c \in DOMAIN sessions
  /\ LET reply == ReplyTo(c, r) IN
     /\ MayAdd(reply.add)
     /\ subscriptions' = Subscriptions(c, reply)
     /\ granted' = [granted EXCEPT ![c] =
          CASE r.command = "SUBSCRIBE_PROPERTY" /\ reply.status = "Success" -> @ \cup {r.arguments.id}
            [] r.command = "UNSUBSCRIBE_PROPERTY" /\ reply.status = "Success" -> @ \ {r.arguments.id}
            [] OTHER -> @]
  /\ UNCHANGED <<devices, sessions>>

\* The ids of a batch that are answered with Success.
Granted(ids, reply) == {ids[i] : i \in {j \in DOMAIN reply.each : reply.each[j] = "Success"}}

\* A frame with a batch of ids is handled; only WebSocket clients have them.
HandleBatch(c, command, ids) ==
  /\ c \in DOMAIN sessions \ Bluetooth
  /\ LET reply == WebSocketReply(sessions[c].level, sessions[c].user,
                    [command |-> command, headers |-> <<>>, body |-> ids]) IN
     /\ MayAdd(reply.add)
     /\ subscriptions' = Subscriptions(c, reply)
     /\ granted' = [granted EXCEPT ![c] =
          CASE command = "SUBSCRIBE_PROPERTIES" -> @ \cup Granted(ids, reply)
            [] command = "UNSUBSCRIBE_PROPERTIES" -> @ \ Granted(ids, reply)
            [] OTHER -> @]
  /\ UNCHANGED <<devices, sessions>>

\* The connection ends: unsubscribeFromAllProperties, then the protocol goes.
Leave(c) ==
  /\ c \in DOMAIN sessions
  /\ subscriptions' = [id \in DOMAIN subscriptions |-> subscriptions[id] \ {c}]
  /\ sessions' = [x \in DOMAIN sessions \ {c} |-> sessions[x]]
  /\ granted' = [granted EXCEPT ![c] = {}]
  /\ UNCHANGED devices

\* An enumeration finds other devices than before.
Enumerated(found) ==
  /\ found # devices
  /\ devices' = found
  /\ UNCHANGED <<subscriptions, sessions, granted>>

Unused == {id \in DOMAIN subscriptions : subscriptions[id] = {}}

\* Mutant: subscriptions are dropped when their property does not resolve.
TimerEventUnresolved ==
  /\ subscriptions' = [id \in {x \in DOMAIN subscriptions : Resolves(x)} |-> subscriptions[id]]
  /\ UNCHANGED <<devices, sessions, granted>>

\* The poll timer: unused subscriptions go unless they are still pending.
TimerEvent ==
  /\ Unused # {}
  /\ \E pending \in SUBSET Unused :
       subscriptions' = [id \in (DOMAIN subscriptions \ Unused) \cup pending |-> subscriptions[id]]
  /\ UNCHANGED <<devices, sessions, granted>>

BatchCommands == {"SUBSCRIBE_PROPERTIES", "UNSUBSCRIBE_PROPERTIES", "READ_PROPERTIES"}

SessionsNext ==
  \/ \E c \in Clients : \E user \in Users \cup {Nobody} : \E password \in {"none", "wrong", "right"} :
       Authorize(c, user, password)
  \/ \E c \in Clients : \E r \in Requests : Handle(c, r)
  \/ \E c \in Clients : \E ids \in Batches : \E command \in BatchCommands :
       HandleBatch(c, command, ids)
  \/ \E c \in Clients : Leave(c)
  \/ \E found \in SUBSET Devices : Enumerated(found)
  \/ TimerEvent

SessionsSpec == SessionsInit /\ [][SessionsNext]_sessionVars

-----------------------------------------------------------------------------

Levels == {LevelOf[user] : user \in Users} \cup {GuestLevel}

\* The sessions have a level, subscriptions have sessions, and a value can be
\* read of what is subscribed: by its address and by the session's level.
SessionsTypeOK ==
  /\ devices \subseteq Devices
  /\ DOMAIN sessions \subseteq Clients
  /\ \A c \in DOMAIN sessions :
       sessions[c] \in [level : Levels \ {0}, user : Users \cup {Nobody}]
  /\ \A id \in DOMAIN subscriptions : subscriptions[id] \subseteq DOMAIN sessions
  /\ granted \in [Clients -> SUBSET Ids]

\* Whoever was told to be subscribed to a property gets its updates until they
\* unsubscribe or leave, through the removal and the return of the device and
\* whatever the timer and the others do; nobody else does, and never for a
\* property that the same session could not read.
UpdatesAsAnswered ==
  \A c \in Clients :
    /\ granted[c] = {id \in DOMAIN subscriptions : c \in subscriptions[id]}
    /\ \A id \in granted[c] :
         /\ PropertyOf(id).readable
         /\ PropertyOf(id).level <= sessions[c].level

\* Requests the handlers of the two transports treat differently:
\* a description with flags or a search with "virtual" or "functions", which
\* have no place in a Bluetooth frame;
\* a written number, which WebSocket has as its text, no value, which is an
\* empty text or null, and flags that do not exist, which only WebSocket refuses;
\* a time that is no date, which WebSocket refuses or takes as no date at all and
\* Bluetooth takes as 0, and a limit beyond 32 bits, which Bluetooth cuts;
\* logged values without a limit of at most 1000, Bluetooth's own limit;
\* an extension that does not support Bluetooth, or one called without a command.
MayDiffer(r) ==
  LET Is(name, values) == name \in DOMAIN r.arguments /\ r.arguments[name] \in values
      Lacks(name) == name \notin DOMAIN r.arguments
  IN  \/ Placeless(r)
      \/ r.command = "WRITE_PROPERTY" /\ (Lacks("value") \/ Is("value", {"number"}))
      \/ r.command = "WRITE_PROPERTY" /\ Is("flags", {{"other"}, {"Permanent", "other"}})
      \/ r.command \in {"READ_MESSAGES", "READ_DATALOG"} /\ (Is("from", {"bad"}) \/ Is("to", {"bad"}))
      \/ r.command \in {"READ_MESSAGES", "READ_DATALOG"} /\ Is("limit", {"wide"})
      \/ r.command = "READ_DATALOG" /\ ~Lacks("id") /\ (Lacks("limit") \/ Is("limit", {"many"}))
      \/ r.command = "CALL_EXTENSION" /\ (Is("extension", Extensions \ OnBluetooth) \/ Lacks("command"))

\* What a reply says and does.  What a description lists is compared for a
\* property only: the other ones are each transport's own.
Outcome(r, reply) ==
  IF r.command = "DESCRIBE" /\ ("id" \in DOMAIN r.arguments => Len(r.arguments.id) # 3)
  THEN [reply EXCEPT !.listed = {}]
  ELSE reply

\* The two handlers, each reading its own kind of frame, answer r alike.
AnsweredAlike(level, user, r) ==
  Outcome(r, WebSocketReply(level, user, WebSocketFrame(r))) = Outcome(r, BluetoothReply(level, user, BluetoothFrame(r)))

\* A client gets the same from both transports: for every session and request,
\* but for those that MayDiffer, the two handlers answer with the same status
\* and list, enqueue the same operation, ask the storage for the same and change
\* the same subscriptions.
TransportsAgree ==
  \A c \in DOMAIN sessions, r \in Requests :
    ~MayDiffer(r) => AnsweredAlike(sessions[c].level, sessions[c].user, r)

\* What a WebSocket session answers to a command for one id and for a batch.
AnswerTo(level, command, id) ==
  WebSocketReply(level, Nobody, [command |-> command, headers |-> [id |-> id], body |-> NoBody])

AnswerToBatch(level, command, ids) ==
  WebSocketReply(level, Nobody, [command |-> command, headers |-> <<>>, body |-> ids])

SingleOf == [SUBSCRIBE_PROPERTIES |-> "SUBSCRIBE_PROPERTY", UNSUBSCRIBE_PROPERTIES |-> "UNSUBSCRIBE_PROPERTY"]

SubscribesAsSingle(level, command, ids) ==
  LET batch == AnswerToBatch(level, command, ids)
      Single(i) == AnswerTo(level, SingleOf[command], ids[i])
  IN  /\ batch.each = [i \in DOMAIN ids |-> Single(i).status]
      /\ batch.add = UNION {Single(i).add : i \in DOMAIN ids}
      /\ batch.remove = UNION {Single(i).remove : i \in DOMAIN ids}

ReadsAsSingle(level, ids) ==
  ids # <<>> /\ (\A i \in DOMAIN ids : AnswerTo(level, "READ_PROPERTY", ids[i]).operation = <<"read", <<ids[i]>>>>)
    => AnswerToBatch(level, "READ_PROPERTIES", ids).operation = <<"readBatch", ids>>

\* A batch of subscriptions answers each of its ids as the request for the one
\* id does and has the effects of these together.  A batch of reads goes to the
\* queue with all its ids if each of them would.  Not only then: a batch of
\* reads has no look at the level, see ReadsWithinLevel.
BatchAsSingle ==
  \A c \in DOMAIN sessions \ Bluetooth, ids \in Batches :
    /\ \A command \in DOMAIN SingleOf : SubscribesAsSingle(sessions[c].level, command, ids)
    /\ ReadsAsSingle(sessions[c].level, ids)

\* What a batch of reads puts into the queue is within the session's level, as
\* config/gateway.conf (62-65) has it of the levels: some properties only a
\* higher one gives access to.  It does not hold: READ_PROPERTIES
\* (siwebsocketprotocolv1.cpp:140-162) compares no level.
ReadsWithinLevel ==
  \A c \in DOMAIN sessions \ Bluetooth, ids \in Batches :
    AnswerToBatch(sessions[c].level, "READ_PROPERTIES", ids).operation # <<>>
      => \A i \in DOMAIN ids : Resolves(ids[i]) => PropertyOf(ids[i]).level <= sessions[c].level

\* What a WebSocket session is shown agrees with what it may ask for: the
\* description of a device lists exactly the properties that can be described
\* one by one, and these are the ones that reading, writing and subscribing do
\* not take for unknown; what is found for an id with "*" resolves and is all
\* that the id stands for, for whichever level; an extension is announced if and
\* only if calls of it run.  Over Bluetooth the announced extensions run too; a
\* device's description there lists every property of it.
ShownAsAnswered ==
  \A c \in DOMAIN sessions :
    LET level == sessions[c].level
        user == sessions[c].user
        Described(id) == WebSocketReply(level, user,
          [command |-> "DESCRIBE", headers |-> [id |-> id, flags |-> {"IncludePropertyInformation"}], body |-> NoBody])
        Found(n, virtual) == FindProperties(<<Star, Star, n>>, virtual, FunctionNames)
    IN  /\ \A d \in devices :
             Described(<<Access, d>>).listed = {id \in Ids : Len(id) = 3 /\ id[2] = d /\ Described(id).status = "Success"}
        /\ \A id \in Ids : \A command \in {"READ_PROPERTY", "WRITE_PROPERTY", "SUBSCRIBE_PROPERTY"} :
             Len(id) = 3 =>
               (Described(id).status = "Success" <=> AnswerTo(level, command, id).status # "NoProperty")
        /\ \A n \in Numbers :
             /\ Found(n, FALSE) \cup Found(n, TRUE) = {id \in Ids : Resolves(id) /\ id[3] = n}
             /\ Found(n, FALSE) \cap Found(n, TRUE) = {}
        /\ \A x \in Extensions :
             LET call == [command |-> "CALL_EXTENSION", arguments |-> [extension |-> x, command |-> Unknown]] IN
             /\ x \in WebSocketExtensions(user) <=> WsCallExtension(user, WebSocketFrame(call)).status = "run"
             /\ x \in BluetoothExtensions(user) <=> BtCallExtension(user, BluetoothFrame(call)).status = "run"

=============================================================================
