------------------------------ MODULE BluetoothLink ------------------------------
(***************************************************************************)
(* The Bluetooth manager: one client at a time, frames cut into fragments  *)
(* and put together again, the authorization of each connection, the loss  *)
(* of the connection and the new advertisement that follows it.            *)
(*                                                                         *)
(* A fragment is a header, the number of fragments of the frame that still *)
(* follow, and at most MaxFragment bytes.  The client does the same with   *)
(* its frames.  The radio link keeps the order of fragments and loses none *)
(* while the connection lasts.                                             *)
(***************************************************************************)
EXTENDS Naturals, Sequences, SequencesExt

CONSTANTS
  MaxFragment,     \* MAX_FRAGMENT_SIZE, 508 bytes
  MaxHeader,       \* 255, the largest number a header can name
  Length,          \* [Kinds -> 1, 2, ...], bytes of an encoded frame
  Nesting,         \* TRUE: extension calls run an event loop of their own
  MaxConnections,  \* bound of the model: connections
  MaxSent,         \* bound of the model: frames a client sends in a connection,
                   \* and frames said to it before messages stop
  MaxNested        \* bound of the model: extension calls in progress

ClientKinds == {"authorize", "refused", "ask", "later", "call"}
GatewayKinds == {"authorized", "error", "answer", "message"}
Kinds == ClientKinds \cup GatewayKinds

ASSUME LinkAssumption ==
  /\ MaxFragment \in Nat \ {0}
  /\ MaxHeader \in Nat \ {0}
  /\ Length \in [Kinds -> Nat \ {0}]
  /\ Nesting \in BOOLEAN
  /\ MaxConnections \in Nat
  /\ MaxSent \in Nat
  /\ MaxNested \in Nat

VARIABLES
  link,             \* life of peripheral_, as the radio and the daemon see it
  connectionCount,  \* connections so far
  protocol,         \* protocol_ is not null: the client is authorized
  receiving,        \* receivingFrame_
  calls,            \* extension calls in progress, innermost first
  toGateway,        \* fragments on their way
  toClient,
  clientReceiving,  \* the client's part of a frame
  askedBy, served,  \* frames sent and delivered to the gateway
  saidBy, heard     \* frames sent and delivered to the client

up == <<toGateway, receiving, askedBy, served>>
down == <<toClient, clientReceiving, saidBy, heard>>
bluetoothVars == <<link, connectionCount, protocol, calls, up, down>>

-----------------------------------------------------------------------------

\* Every byte knows the frame it is of: a mixture of two frames is no frame.
BytesOf(kind) == [i \in 1..Length[kind] |-> <<kind, i>>]

FrameOf(bytes) ==
  IF \E kind \in Kinds : BytesOf(kind) = bytes
  THEN CHOOSE kind \in Kinds : BytesOf(kind) = bytes
  ELSE "garbage"

\* Mutant: a remainder gets no fragment of its own.
FragmentCountDown(kind) == Length[kind] \div MaxFragment

FragmentCount(kind) == (Length[kind] + MaxFragment - 1) \div MaxFragment

Header(remaining) == IF remaining > MaxHeader THEN MaxHeader ELSE remaining

\* What sendFrame_ writes.  The last fragment takes all that is left.
Fragments(kind) ==
  LET count == FragmentCount(kind) IN
  [i \in 1..count |->
    [remaining |-> Header(count - i),
     bytes |-> SubSeq(BytesOf(kind), (i - 1) * MaxFragment + 1,
                      IF i < count THEN i * MaxFragment ELSE Length[kind])]]

\* sendFrame_.  Only a client that is connected hears of it.
SendFrame(kind) ==
  IF link = "connected"
  THEN /\ toClient' = toClient \o Fragments(kind)
       /\ saidBy' = Append(saidBy, kind)
       /\ UNCHANGED <<clientReceiving, heard>>
  ELSE UNCHANGED down

\* An event handler runs: at the top level or in the loop of an extension call.
HandlersMayRun == calls = <<>> \/ (Nesting /\ Len(calls) < MaxNested)

BluetoothInit ==
  /\ link = "down"
  /\ connectionCount = 0
  /\ protocol = FALSE
  /\ receiving = <<>> /\ clientReceiving = <<>>
  /\ calls = <<>>
  /\ toGateway = <<>> /\ toClient = <<>>
  /\ askedBy = <<>> /\ served = <<>> /\ saidBy = <<>> /\ heard = <<>>

\* The posted call of startAdvertise, by the daemon's start or onDisconnected_.
StartAdvertise ==
  /\ HandlersMayRun
  /\ link = "down"
  /\ link' = "advertising"
  /\ UNCHANGED <<connectionCount, protocol, calls, up, down>>

\* A client connects.
Connect ==
  /\ link = "advertising"
  /\ connectionCount < MaxConnections
  /\ link' = "connected"
  /\ connectionCount' = connectionCount + 1
  /\ UNCHANGED <<protocol, calls, up, down>>

\* The client sends a frame; nothing makes it wait for an answer.
ClientSends(kind) ==
  /\ link = "connected"
  /\ Len(askedBy) < MaxSent
  /\ toGateway' = toGateway \o Fragments(kind)
  /\ askedBy' = Append(askedBy, kind)
  /\ UNCHANGED <<link, connectionCount, protocol, calls, receiving, served, down>>

\* Mutant: an authorization may be refused after protocol_ has been set.
AuthorizeEarly(kind) ==
  /\ protocol' = (kind \in {"authorize", "refused"})
  /\ SendFrame(IF kind = "authorize" THEN "authorized" ELSE "error")

\* The first frame has to be an AUTHORIZE that is accepted.
Authorize(kind) ==
  /\ protocol' = (kind = "authorize")
  /\ SendFrame(IF kind = "authorize" THEN "authorized" ELSE "error")

\* handleFrame of the protocol object.  A call's answer has to wait for the
\* extension; the answer of an asynchronous request comes later.
HandleFrame(kind) ==
  /\ UNCHANGED protocol
  /\ CASE kind = "ask" -> SendFrame("answer") /\ UNCHANGED calls
       [] kind = "later" -> UNCHANGED <<calls, down>>
       [] kind = "call" -> calls' = <<connectionCount>> \o calls /\ UNCHANGED down
       [] OTHER -> SendFrame("error") /\ UNCHANGED calls

\* A complete frame.
Dispatch(kind) ==
  /\ served' = Append(served, kind)
  /\ IF protocol THEN HandleFrame(kind) ELSE Authorize(kind) /\ UNCHANGED calls

OnCharacteristicChanged ==
  /\ HandlersMayRun
  /\ toGateway # <<>>
  /\ LET fragment == Head(toGateway)
         bytes == receiving \o fragment.bytes IN
       IF fragment.remaining # 0
       THEN receiving' = bytes /\ UNCHANGED <<protocol, calls, served, down>>
       ELSE receiving' = <<>> /\ Dispatch(FrameOf(bytes))
  /\ toGateway' = Tail(toGateway)
  /\ UNCHANGED <<link, connectionCount, askedBy>>

\* The extension returns and handleFrame's response is sent.
CallReturns ==
  /\ calls # <<>>
  /\ SendFrame("answer")
  /\ calls' = Tail(calls)
  /\ UNCHANGED <<link, connectionCount, protocol, up>>

\* A device message, a property update or a late answer.
OnDeviceMessageReceived ==
  /\ HandlersMayRun
  /\ protocol
  /\ link = "connected"
  /\ Len(saidBy) < MaxSent
  /\ SendFrame("message")
  /\ UNCHANGED <<link, connectionCount, protocol, calls, up>>

\* The client puts fragments together as the gateway does.
ClientReceives ==
  /\ toClient # <<>>
  /\ LET fragment == Head(toClient)
         bytes == clientReceiving \o fragment.bytes IN
       IF fragment.remaining # 0
       THEN clientReceiving' = bytes /\ UNCHANGED heard
       ELSE clientReceiving' = <<>> /\ heard' = Append(heard, FrameOf(bytes))
  /\ toClient' = Tail(toClient)
  /\ UNCHANGED <<link, connectionCount, protocol, calls, up, saidBy>>

\* The connection breaks.  The daemon has not heard of it, and what the
\* client sent before may still arrive.
Lose ==
  /\ link = "connected"
  /\ link' = "lost"
  /\ toClient' = <<>> /\ clientReceiving' = <<>> /\ saidBy' = <<>> /\ heard' = <<>>
  /\ UNCHANGED <<connectionCount, protocol, calls, up>>

\* Mutant: startAdvertise is not posted.
OnDisconnectedSilent ==
  /\ HandlersMayRun
  /\ link = "lost"
  /\ link' = "off"
  /\ protocol' = FALSE
  /\ receiving' = <<>> /\ toGateway' = <<>> /\ askedBy' = <<>> /\ served' = <<>>
  /\ UNCHANGED <<connectionCount, calls, down>>

\* onDisconnected_: the protocol and the peripheral are deleted, and
\* startAdvertise is posted.
OnDisconnected ==
  /\ HandlersMayRun
  /\ link = "lost"
  /\ link' = "down"
  /\ protocol' = FALSE
  /\ receiving' = <<>> /\ toGateway' = <<>> /\ askedBy' = <<>> /\ served' = <<>>
  /\ UNCHANGED <<connectionCount, calls, down>>

BluetoothNext ==
  \/ StartAdvertise
  \/ Connect
  \/ \E kind \in ClientKinds : ClientSends(kind)
  \/ OnCharacteristicChanged
  \/ CallReturns
  \/ OnDeviceMessageReceived
  \/ ClientReceives
  \/ Lose
  \/ OnDisconnected

\* Handlers of events that have occurred run, extensions return, and the
\* client reads.  Nobody has to connect, to send or to lose the connection.
BluetoothFairness ==
  /\ WF_bluetoothVars(StartAdvertise)
  /\ WF_bluetoothVars(OnCharacteristicChanged)
  /\ WF_bluetoothVars(CallReturns)
  /\ WF_bluetoothVars(ClientReceives)
  /\ WF_bluetoothVars(OnDisconnected)

BluetoothSpec == BluetoothInit /\ [][BluetoothNext]_bluetoothVars /\ BluetoothFairness

-----------------------------------------------------------------------------

Fragment == [remaining : 0..MaxHeader, bytes : Seq(Kinds \X (Nat \ {0}))]

BluetoothTypeOK ==
  /\ link \in {"down", "advertising", "connected", "lost"}
  /\ connectionCount \in 0..MaxConnections
  /\ protocol \in BOOLEAN
  /\ calls \in Seq(0..MaxConnections)
  /\ toGateway \in Seq(Fragment) /\ toClient \in Seq(Fragment)
  /\ receiving \in Seq(Kinds \X (Nat \ {0})) /\ clientReceiving \in Seq(Kinds \X (Nat \ {0}))
  /\ askedBy \in Seq(ClientKinds) /\ served \in Seq(ClientKinds)
  /\ saidBy \in Seq(GatewayKinds) /\ heard \in Seq(GatewayKinds)

(***************************************************************************)
(* Requests are served and device messages are sent in a connection only   *)
(* after an AUTHORIZE of that connection: none is inherited from the       *)
(* client before, also when the disconnect is handled inside a call.       *)
(***************************************************************************)
AuthorizedInThisConnection ==
  /\ protocol => "authorize" \in ToSet(served)
  /\ "message" \in ToSet(saidBy) => protocol

\* An ended connection is followed by an advertisement, and the next client
\* can connect.
AdvertisesAgain == link = "lost" ~> link = "advertising"

Upward == INSTANCE FrameLink WITH Frames <- ClientKinds, sent <- askedBy, delivered <- served
Downward == INSTANCE FrameLink WITH Frames <- GatewayKinds, sent <- saidBy, delivered <- heard

(***************************************************************************)
(* Frames of any length arrive whole, once, in order and eventually, and a *)
(* connection starts with no byte of the one before.  The header saturates *)
(* and only its zero is used.                                              *)
(***************************************************************************)
FramesArrive == Upward!LinkSpec /\ Downward!LinkSpec

=============================================================================
