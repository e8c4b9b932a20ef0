----------------------------- MODULE ClientRequests -----------------------------
(***************************************************************************)
(* Clients, the operations they cause and the answers they get.  A request *)
(* creates an operation object of the device access manager; its parts (one *)
(* for a read, a write or an enumeration, one per property for a batch      *)
(* read) go into the operation queue; when the last part has finished, the  *)
(* object's finished signal reaches the protocol object of the client,      *)
(* which sends the answer and schedules the deletion of the operation.      *)
(*                                                                         *)
(* Nothing else deletes an operation, the queue keeps plain pointers to the *)
(* parts, and the client may leave at any time: then its protocol object    *)
(* and with it the connection of the signal goes, the operation stays.      *)
(* WebSocket connections are deleted from the event loop after they have    *)
(* closed, the Bluetooth client's protocol by the disconnect handler.       *)
(*                                                                         *)
(* The queue is used through what OperationQueue shows of it: parts start   *)
(* in the order of the queue and finish innermost first.                    *)
(***************************************************************************)
EXTENDS Naturals, Sequences, SequencesExt

CONSTANTS
  Clients,
  Bluetooth,   \* those that are connected by Bluetooth
  Requests,    \* each of them is asked once
  ClientOf,    \* [Requests -> Clients]
  PartCount,   \* [Requests -> 1, 2, ...], operations_.count() of a batch read
  Refusable,   \* reads and writes of one property
  BusWaits     \* TRUE: the driver calls processEvents while it waits

ASSUME ClientAssumption ==
  /\ Bluetooth \subseteq Clients
  /\ ClientOf \in [Requests -> Clients]
  /\ PartCount \in [Requests -> Nat \ {0}]
  /\ Refusable \subseteq Requests
  /\ BusWaits \in BOOLEAN

VARIABLES
  session,     \* state of each client's connection
  protocols,   \* clients whose protocol object exists: they are authorized
  queue,       \* operationQueue_
  stack,       \* parts being executed, innermost first
  completed,   \* completedOperationCount_ of each request's operation
  object,      \* life of each request's operation object
  answers      \* requests answered, in the order of their answers

queueVars == <<queue, stack, completed>>
vars == <<session, protocols, queueVars, object, answers>>

Parts == {part \in Requests \X Nat : part[2] \in 1..PartCount[part[1]]}

-----------------------------------------------------------------------------

\* An event handler runs: at the top level or inside a driver's processEvents.
MayDispatch == BusWaits \/ stack = <<>>

Init ==
  /\ session = [c \in Clients |-> "absent"]
  /\ protocols = {}
  /\ queue = <<>>
  /\ stack = <<>>
  /\ completed = [r \in Requests |-> 0]
  /\ object = [r \in Requests |-> "none"]
  /\ answers = <<>>

Connect(c) ==
  /\ MayDispatch
  /\ session[c] = "absent"
  /\ session' = [session EXCEPT ![c] = "open"]
  /\ UNCHANGED <<protocols, queueVars, object, answers>>

\* The AUTHORIZE frame is accepted.  A refused one leaves the session as it
\* was, as does every other frame before it.
Authorize(c) ==
  /\ MayDispatch
  /\ session[c] = "open"
  /\ c \notin protocols
  /\ protocols' = protocols \cup {c}
  /\ UNCHANGED <<session, queueVars, object, answers>>

Fresh(r) == object[r] = "none" /\ r \notin ToSet(answers)

PartsOf(r) == [i \in 1..PartCount[r] |-> <<r, i>>]

\* A frame that reads, writes or enumerates: the operation is created, its
\* parts are enqueued, its finished signal is connected to the protocol.
Ask(r) ==
  /\ MayDispatch
  /\ session[ClientOf[r]] = "open"
  /\ ClientOf[r] \in protocols
  /\ Fresh(r)
  /\ object' = [object EXCEPT ![r] = "alive"]
  /\ queue' = queue \o PartsOf(r)
  /\ UNCHANGED <<session, protocols, stack, completed, answers>>

\* A frame about a property that is unknown, above the client's access level
\* or not readable or writeable is answered by the handler itself.
Refuse(r) ==
  /\ MayDispatch
  /\ session[ClientOf[r]] = "open"
  /\ ClientOf[r] \in protocols
  /\ Fresh(r)
  /\ r \in Refusable
  /\ answers' = Append(answers, r)
  /\ UNCHANGED <<session, protocols, queueVars, object>>

\* Mutant: the operations are owned by the protocol object.
LeaveWithOperations(c) ==
  /\ MayDispatch
  /\ c \in Bluetooth
  /\ session[c] = "open"
  /\ session' = [session EXCEPT ![c] = "gone"]
  /\ protocols' = protocols \ {c}
  /\ object' = [r \in Requests |-> IF ClientOf[r] = c /\ object[r] = "alive" THEN "deleted" ELSE object[r]]
  /\ UNCHANGED <<queueVars, answers>>

\* The Bluetooth link ends: the handler deletes the protocol object.
LeaveBluetooth(c) ==
  /\ MayDispatch
  /\ c \in Bluetooth
  /\ session[c] = "open"
  /\ session' = [session EXCEPT ![c] = "gone"]
  /\ protocols' = protocols \ {c}
  /\ UNCHANGED <<queueVars, object, answers>>

\* The WebSocket closes: the deletion of its connection is posted.
CloseWebSocket(c) ==
  /\ MayDispatch
  /\ c \notin Bluetooth
  /\ session[c] = "open"
  /\ session' = [session EXCEPT ![c] = "closing"]
  /\ UNCHANGED <<protocols, queueVars, object, answers>>

\* The posted deletion: the protocol object goes with the connection.
DeleteConnection(c) ==
  /\ MayDispatch
  /\ session[c] = "closing"
  /\ session' = [session EXCEPT ![c] = "gone"]
  /\ protocols' = protocols \ {c}
  /\ UNCHANGED <<queueVars, object, answers>>

StartPart ==
  /\ MayDispatch
  /\ queue # <<>>
  /\ stack' = <<Head(queue)>> \o stack
  /\ queue' = Tail(queue)
  /\ UNCHANGED <<session, protocols, completed, object, answers>>

\* Mutant: the batch is finished with its first part.
IsLastPartAny(r) == TRUE

\* Mutant: completedOperationCount_++ in place of ++completedOperationCount_.
IsLastPartPostIncrement(r) == completed[r] = PartCount[r]

\* The part that makes the operation emit finished.
IsLastPart(r) == completed[r] + 1 = PartCount[r]

\* Mutant: the handler answers and does not delete the operation.
OnFinishedKeeps(r) ==
  /\ answers' = IF session[ClientOf[r]] = "open" THEN Append(answers, r) ELSE answers
  /\ UNCHANGED object

\* The finished handler of the protocol object, if there still is one.  The
\* frame is lost when the socket has closed.
OnFinished(r) ==
  IF ClientOf[r] \in protocols
  THEN /\ answers' = IF session[ClientOf[r]] = "open" THEN Append(answers, r) ELSE answers
       /\ object' = [object EXCEPT ![r] = "releasing"]
  ELSE UNCHANGED <<answers, object>>

\* execute_ of the innermost part returns.
FinishPart ==
  /\ stack # <<>>
  /\ LET r == Head(stack)[1] IN
       /\ completed' = [completed EXCEPT ![r] = @ + 1]
       /\ IF IsLastPart(r) THEN OnFinished(r) ELSE UNCHANGED <<answers, object>>
  /\ stack' = Tail(stack)
  /\ UNCHANGED <<session, protocols, queue>>

\* The posted deletion of an operation and of its parts.
DeleteOperation(r) ==
  /\ MayDispatch
  /\ object[r] = "releasing"
  /\ object' = [object EXCEPT ![r] = "deleted"]
  /\ UNCHANGED <<session, protocols, queueVars, answers>>

Next ==
  \/ \E c \in Clients : Connect(c) \/ Authorize(c) \/ LeaveBluetooth(c) \/ CloseWebSocket(c) \/ DeleteConnection(c)
  \/ \E r \in Requests : Ask(r) \/ Refuse(r) \/ DeleteOperation(r)
  \/ StartPart
  \/ FinishPart

Safety == Init /\ [][Next]_vars

\* The queue goes on (OperationQueue) and driver calls return.  Clients need
\* do nothing, and posted deletions may take their time.
Fairness == WF_vars(StartPart) /\ WF_vars(FinishPart)

Spec == Safety /\ Fairness

-----------------------------------------------------------------------------

TypeOK ==
  /\ session \in [Clients -> {"absent", "open", "closing", "gone"}]
  /\ protocols \in SUBSET Clients
  /\ queue \in Seq(Parts)
  /\ stack \in Seq(Parts)
  /\ completed \in [Requests -> Nat]
  /\ object \in [Requests -> {"none", "alive", "releasing", "deleted"}]
  /\ answers \in Seq(Requests)

Outstanding(r) == \E part \in ToSet(queue) \cup ToSet(stack) : part[1] = r

(***************************************************************************)
(* The queue holds plain pointers.  Every part that is queued or executing *)
(* belongs to an operation object that exists and whose deletion is not    *)
(* scheduled, also when its client has left and when the other parts of    *)
(* its batch have finished.                                                *)
(***************************************************************************)
QueuedAlive == \A r \in Requests : Outstanding(r) => object[r] = "alive"

(***************************************************************************)
(* A batch is answered when all its reads have been executed: no answer    *)
(* carries a value of a part that is still queued or being read, in        *)
(* whatever nesting the parts were executed.                               *)
(***************************************************************************)
AnswerComplete ==
  \A r \in ToSet(answers) : ~Outstanding(r) /\ (object[r] # "none" => completed[r] = PartCount[r])

(***************************************************************************)
(* Operations are freed by the handler of their answer only.  One that has *)
(* been executed and is still there belongs to a client that left before   *)
(* the answer; no operation of a client that stayed is left behind.        *)
(***************************************************************************)
LeftBehindByLeaversOnly ==
  \A r \in Requests :
    object[r] = "alive" /\ ~Outstanding(r) => session[ClientOf[r]] = "gone"

\* How the client sees a request.
StateOf(r) ==
  LET replies == {i \in DOMAIN answers : answers[i] = r} IN
  CASE \E i \in replies : replies = {i} -> "replied"
    [] \E i, j \in replies : i # j -> "replied twice"
    [] OTHER -> IF object[r] = "none" THEN "idle"
                ELSE IF session[ClientOf[r]] = "open" THEN "asked" ELSE "abandoned"

Promise == INSTANCE RequestReply WITH state <- [r \in Requests |-> StateOf(r)]

(***************************************************************************)
(* Every request of a client that stays is answered, once, and no request  *)
(* of a client that left is answered to anybody, whatever the order in     *)
(* which parts finish, connections close and objects are deleted.          *)
(***************************************************************************)
ImplementsRequestReply == Promise!RRSpec

=============================================================================
