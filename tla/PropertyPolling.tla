----------------------------- MODULE PropertyPolling -----------------------------
(***************************************************************************)
(* The device access manager's subscriptions.  Clients subscribe to        *)
(* properties; every poll interval the manager's timer drops the           *)
(* subscriptions nobody uses, enqueues the message retrieval and enqueues  *)
(* every subscription that is not pending; an executed subscription reads  *)
(* the property and hands the value to its subscribers.                    *)
(*                                                                         *)
(* Each subscription is an operation object of the queue, deleted by the   *)
(* timer handler, while enumerations come and go between the polls, remove *)
(* devices and, with a driver that waits for its bus, run nested inside    *)
(* the read of a subscription.                                             *)
(*                                                                         *)
(* The queue is used through what OperationQueue shows of it: operations   *)
(* start in the order of the queue and finish innermost first.             *)
(***************************************************************************)
EXTENDS Naturals, Sequences, FiniteSets, SequencesExt

CONSTANTS
  Properties,      \* ids of properties that clients subscribe to
  Devices,
  DeviceOf,        \* [Properties -> Devices]
  Subscribers,     \* protocol objects of client connections
  Retrieval,       \* the manager's only SIMessagesRetrieveOperation
  Enumeration,     \* an enumeration a client asked for
  Removable,       \* devices that may disappear from the bus
  BusWaits,        \* TRUE: the driver calls processEvents while it waits
  MaxOutstanding   \* bound on the Retrieval and Enumeration entries enqueued

ASSUME PollingAssumption ==
  /\ IsFiniteSet(Properties)
  /\ DeviceOf \in [Properties -> Devices]
  /\ Removable \subseteq Devices
  /\ BusWaits \in BOOLEAN
  /\ MaxOutstanding \in Nat \ {0}
  /\ Retrieval \notin Properties
  /\ Enumeration \notin Properties
  /\ Retrieval # Enumeration

VARIABLES
  present,         \* devices the device access holds
  connected,       \* subscribers whose protocol object exists
  subscriptions,   \* properties that have a SIPropertySubscriptions object
  subscribers,     \* subscriptions_ of each object
  pending,         \* pending_ of each object
  queue,           \* operationQueue_
  stack            \* operations being executed, innermost first

clientVars == <<connected, subscriptions, subscribers, pending>>
vars == <<present, clientVars, queue, stack>>

Operations == Properties \cup {Retrieval, Enumeration}

-----------------------------------------------------------------------------

\* An event handler runs: at the top level or inside a driver's processEvents.
MayDispatch == BusWaits \/ stack = <<>>

\* Bound of the model: entries of op that are queued or being executed.
Outstanding(op) ==
  Cardinality({i \in DOMAIN queue : queue[i] = op}) + Cardinality({i \in DOMAIN stack : stack[i] = op})

\* The daemon has enumerated the devices before the first client connects.
Init ==
  /\ present \in SUBSET Devices
  /\ connected = {}
  /\ subscriptions = {}
  /\ subscribers = [p \in Properties |-> {}]
  /\ pending = {}
  /\ queue = <<>>
  /\ stack = <<>>

\* A client was authorized: its protocol object is created.
Connect(s) ==
  /\ MayDispatch
  /\ s \notin connected
  /\ connected' = connected \cup {s}
  /\ UNCHANGED <<present, subscriptions, subscribers, pending, queue, stack>>

\* subscribeToProperty: refused without effect unless the property resolves.
Subscribe(s, p) ==
  /\ MayDispatch
  /\ s \in connected
  /\ DeviceOf[p] \in present
  /\ subscriptions' = subscriptions \cup {p}
  /\ subscribers' = [subscribers EXCEPT ![p] = @ \cup {s}]
  /\ UNCHANGED <<present, connected, pending, queue, stack>>

\* unsubscribeFromProperty.
Unsubscribe(s, p) ==
  /\ MayDispatch
  /\ s \in connected
  /\ p \in subscriptions
  /\ subscribers' = [subscribers EXCEPT ![p] = @ \ {s}]
  /\ UNCHANGED <<present, connected, subscriptions, pending, queue, stack>>

\* Mutant: the loop stops at the first subscription of the client.
UnsubscribeFromFirst(s) ==
  \E p \in Properties : subscribers' = [subscribers EXCEPT ![p] = @ \ {s}]

\* unsubscribeFromAllProperties.
UnsubscribeFromAll(s) ==
  subscribers' = [p \in Properties |-> IF p \in subscriptions THEN subscribers[p] \ {s} ELSE subscribers[p]]

\* The connection ends: all its subscriptions, then the protocol object.
Disconnect(s) ==
  /\ MayDispatch
  /\ s \in connected
  /\ UnsubscribeFromAll(s)
  /\ connected' = connected \ {s}
  /\ UNCHANGED <<present, subscriptions, pending, queue, stack>>

\* A client asks for an enumeration.
EnumerateDevices ==
  /\ MayDispatch
  /\ connected # {}
  /\ Outstanding(Enumeration) < MaxOutstanding
  /\ queue' = Append(queue, Enumeration)
  /\ UNCHANGED <<present, clientVars, stack>>

\* Mutant: isPending() is not asked before the deletion.
KeptIfSubscribed == {p \in subscriptions : subscribers[p] # {}}

\* Mutant: unused subscriptions are not removed.
KeptAlways == subscriptions

\* The subscriptions the poll timer keeps.
Kept == {p \in subscriptions : p \in pending \/ subscribers[p] # {}}

\* Mutant: pending subscriptions are enqueued again.
TimerEventIgnoresPending ==
  /\ MayDispatch
  /\ Outstanding(Retrieval) < MaxOutstanding
  /\ subscriptions' = Kept
  /\ pending' = Kept
  /\ \E polled \in SetToSeqs(Kept) :
       queue' = queue \o <<Retrieval>> \o polled
  /\ UNCHANGED <<present, connected, subscribers, stack>>

\* The poll timer.  The order of the subscriptions is left open.
TimerEvent ==
  /\ MayDispatch
  /\ Outstanding(Retrieval) < MaxOutstanding
  /\ subscriptions' = Kept
  /\ pending' = Kept
  /\ \E polled \in SetToSeqs(Kept \ pending) :
       queue' = queue \o <<Retrieval>> \o polled
  /\ UNCHANGED <<present, connected, subscribers, stack>>

\* The next operation starts.  A subscription whose device is not there
\* returns before it has touched pending_.
StartOperation ==
  /\ MayDispatch
  /\ queue # <<>>
  /\ queue' = Tail(queue)
  /\ IF Head(queue) \in Properties /\ DeviceOf[Head(queue)] \notin present
     THEN UNCHANGED stack
     ELSE stack' = <<Head(queue)>> \o stack
  /\ UNCHANGED <<present, clientVars>>

\* Mutant: pending_ is cleared after a successful read only.
FinishSubscriptionOnSuccess(p) ==
  /\ stack # <<>>
  /\ Head(stack) = p
  /\ pending' \in {pending, pending \ {p}}
  /\ stack' = Tail(stack)
  /\ UNCHANGED <<present, connected, subscriptions, subscribers, queue>>

\* The read returns.  On success the subscribers get the value, which
\* changes nothing here; pending_ is cleared whatever the result.
FinishSubscription(p) ==
  /\ stack # <<>>
  /\ Head(stack) = p
  /\ pending' = pending \ {p}
  /\ stack' = Tail(stack)
  /\ UNCHANGED <<present, connected, subscriptions, subscribers, queue>>

FinishRetrieval ==
  /\ stack # <<>>
  /\ Head(stack) = Retrieval
  /\ stack' = Tail(stack)
  /\ UNCHANGED <<present, clientVars, queue>>

\* The enumeration returns: devices that did not answer are deleted, new
\* ones added; after an error of the bus nothing changes.
FinishEnumeration ==
  /\ stack # <<>>
  /\ Head(stack) = Enumeration
  /\ present' \in {found \in SUBSET Devices : present \ Removable \subseteq found}
  /\ stack' = Tail(stack)
  /\ UNCHANGED <<clientVars, queue>>

Client ==
  \/ \E s \in Subscribers : Connect(s) \/ Disconnect(s)
  \/ \E s \in Subscribers, p \in Properties : Subscribe(s, p) \/ Unsubscribe(s, p)
  \/ EnumerateDevices

Finish == (\E p \in Properties : FinishSubscription(p)) \/ FinishRetrieval \/ FinishEnumeration

Next == Client \/ TimerEvent \/ StartOperation \/ Finish

Safety == Init /\ [][Next]_vars

\* One pass of the event loop delivers the calls posted before it and every
\* expired timer, and ends: the timer fires however busy the queue is, and a
\* driver that waits looks at its answer again and again, also after nested
\* executions.  Clients and the bus do what they like.
Fairness ==
  /\ SF_vars(TimerEvent)
  /\ WF_vars(StartOperation)
  /\ \A p \in Properties : SF_vars(FinishSubscription(p))
  /\ SF_vars(FinishRetrieval)
  /\ SF_vars(FinishEnumeration)

Spec == Safety /\ Fairness

-----------------------------------------------------------------------------

TypeOK ==
  /\ present \in SUBSET Devices
  /\ connected \in SUBSET Subscribers
  /\ subscriptions \in SUBSET Properties
  /\ subscribers \in [Properties -> SUBSET Subscribers]
  /\ pending \in SUBSET Properties
  /\ queue \in Seq(Operations)
  /\ stack \in Seq(Operations)

AtMostOnce(x, s) == \A i, j \in DOMAIN s : s[i] = x /\ s[j] = x => i = j

Polled == (ToSet(queue) \cup ToSet(stack)) \cap Properties

(***************************************************************************)
(* The timer handler deletes subscription objects while the operation      *)
(* queue holds pointers to them and executions of them are on the stack.   *)
(* None of those is ever deleted: pending_ protects an object from its     *)
(* enqueueing to the end of its execution.                                 *)
(***************************************************************************)
PolledAlive == Polled \subseteq subscriptions \cap pending

(***************************************************************************)
(* A subscription is outstanding at most once: polls that come faster than *)
(* the bus answers, also in the middle of its own read, neither queue it   *)
(* again nor start it twice.                                               *)
(***************************************************************************)
PolledOnce ==
  \A p \in Properties :
    /\ AtMostOnce(p, queue)
    /\ AtMostOnce(p, stack)
    /\ ~ (p \in ToSet(queue) /\ p \in ToSet(stack))

(***************************************************************************)
(* A subscription holds plain pointers to its subscribers.  A client that  *)
(* has gone is in none of them, however many polls and reads were under    *)
(* way when it went, so propertyChanged is called on live objects only.    *)
(***************************************************************************)
SubscribersAlive == \A p \in Properties : subscribers[p] \subseteq connected

Stuck(p) == p \in pending \ Polled

(***************************************************************************)
(* A subscription whose pending_ stays set although nothing is outstanding *)
(* is never polled again.  The only step that strands one is the start of  *)
(* its poll while its device is absent, the early return of execute_.      *)
(***************************************************************************)
StrandedOnlyByAbsentDevice ==
  [][\A p \in Properties :
       ~Stuck(p) /\ Stuck(p)' => DeviceOf[p] \notin present /\ Head(queue) = p]_vars

(***************************************************************************)
(* "Interval in milliseconds, at which properties with real-time           *)
(* subscriptions (from WebSocket or Bluetooth clients) will be             *)
(* periodically read" (config/gateway.conf:9): while a property keeps a    *)
(* subscriber and its device is there, it is read again and again.         *)
(***************************************************************************)
SubscribedIsPolled ==
  \A p \in Properties :
    <>[](subscribers[p] # {} /\ DeviceOf[p] \in present) => []<><<FinishSubscription(p)>>_vars

(***************************************************************************)
(* "Remove unused subscriptions." (sideviceaccessmanager.cpp:235): a       *)
(* subscription that stays without subscribers is deleted.                 *)
(***************************************************************************)
UnusedIsRemoved ==
  \A p \in Properties : <>[](subscribers[p] = {}) => <>[](p \notin subscriptions)

=============================================================================
