----------------------------- MODULE OperationQueue -----------------------------
(***************************************************************************)
(* The sequential property manager: every access to a device (reads,       *)
(* writes, enumerations, polled subscriptions, message retrieval) is an    *)
(* operation object put into a queue and executed from the Qt event loop.  *)
(*                                                                         *)
(* The daemon has one thread.  An enqueue or a finished operation posts a  *)
(* call of executeNext_ to the event loop; a posted call takes the head of *)
(* the queue and executes it synchronously.  A driver that waits for its   *)
(* bus calls processEvents inside that execution, so posted calls, timers  *)
(* and client frames can be handled while the operation is on the C++      *)
(* stack, and they return before it does.                                  *)
(*                                                                         *)
(* Every enqueue connects the operation's aboutToFinish signal once more,  *)
(* also when the object has been connected before: an object enqueued k    *)
(* times posts k calls of executeNext_ each time it finishes.              *)
(***************************************************************************)
EXTENDS Naturals, Sequences, SequencesExt

CONSTANTS
  Requests,    \* one element for each enqueue of an operation
  Objects,     \* the operation objects
  ObjectOf,    \* [Requests -> Objects]; polled objects are enqueued repeatedly
  Waiting,     \* requests whose driver calls processEvents until the bus answers
  None         \* the null pointer

ASSUME RequestAssumption ==
  /\ ObjectOf \in [Requests -> Objects]
  /\ Waiting \subseteq Requests
  /\ None \notin Requests

VARIABLES
  operationQueue,       \* operationQueue_
  operationInProgress,  \* operationInProgress_
  posted,               \* calls of executeNext_ posted and not yet delivered
  stack,                \* executions on the C++ stack, innermost first
  connections,          \* connections of each object's aboutToFinish signal
  done                  \* requests whose finished signal was emitted

vars == <<operationQueue, operationInProgress, posted, stack, connections, done>>

-----------------------------------------------------------------------------

\* The event loop handles an event: at the top level, or inside the
\* processEvents call of the innermost execution.
MayDispatch == stack # <<>> => Head(stack) \in Waiting

Fresh(r) == r \notin ToSet(operationQueue) \cup ToSet(stack) \cup done

Init ==
  /\ operationQueue = <<>>
  /\ operationInProgress = None
  /\ posted = 0
  /\ stack = <<>>
  /\ connections = [o \in Objects |-> 0]
  /\ done = {}

Idle == operationQueue = <<>> /\ operationInProgress = None

\* Mutant: the idle test comes after the append and never succeeds.
EnqueueOperationTestsLate(r) ==
  /\ MayDispatch
  /\ Fresh(r)
  /\ connections' = [connections EXCEPT ![ObjectOf[r]] = @ + 1]
  /\ operationQueue' = Append(operationQueue, r)
  /\ UNCHANGED <<operationInProgress, posted, stack, done>>

\* A handler (client frame, poll timer, data log timer) calls enqueueOperation_.
EnqueueOperation(r) ==
  /\ MayDispatch
  /\ Fresh(r)
  /\ connections' = [connections EXCEPT ![ObjectOf[r]] = @ + 1]
  /\ operationQueue' = Append(operationQueue, r)
  /\ posted' = IF Idle THEN posted + 1 ELSE posted
  /\ UNCHANGED <<operationInProgress, stack, done>>

\* A posted executeNext_ finds nothing to do.
ExecuteNextEmpty ==
  /\ MayDispatch
  /\ posted > 0
  /\ operationQueue = <<>>
  /\ posted' = posted - 1
  /\ UNCHANGED <<operationQueue, operationInProgress, stack, connections, done>>

\* Mutant: first() in place of takeFirst().
ExecuteNextKeepsHead ==
  /\ MayDispatch
  /\ posted > 0
  /\ operationQueue # <<>>
  /\ posted' = posted - 1
  /\ operationInProgress' = Head(operationQueue)
  /\ stack' = <<Head(operationQueue)>> \o stack
  /\ UNCHANGED <<operationQueue, connections, done>>

\* Mutant: takeLast() in place of takeFirst().
ExecuteNextTakesLast ==
  /\ MayDispatch
  /\ posted > 0
  /\ operationQueue # <<>>
  /\ posted' = posted - 1
  /\ operationInProgress' = Last(operationQueue)
  /\ stack' = <<Last(operationQueue)>> \o stack
  /\ operationQueue' = Front(operationQueue)
  /\ UNCHANGED <<connections, done>>

\* A posted executeNext_ takes the oldest operation and enters its execute().
ExecuteNext ==
  /\ MayDispatch
  /\ posted > 0
  /\ operationQueue # <<>>
  /\ posted' = posted - 1
  /\ operationInProgress' = Head(operationQueue)
  /\ stack' = <<Head(operationQueue)>> \o stack
  /\ operationQueue' = Tail(operationQueue)
  /\ UNCHANGED <<connections, done>>

\* Mutant: operationInProgress_ is not reset.
OnAboutToFinishKeepsPointer(o) ==
  /\ posted' = posted + connections[o]
  /\ UNCHANGED operationInProgress

\* onAboutToFinish_ runs once per connection of the finishing object.
OnAboutToFinish(o) ==
  /\ operationInProgress' = None
  /\ posted' = posted + connections[o]

\* execute_() returns: aboutToFinish is emitted, then finished.
FinishExecution ==
  /\ stack # <<>>
  /\ OnAboutToFinish(ObjectOf[Head(stack)])
  /\ stack' = Tail(stack)
  /\ done' = done \cup {Head(stack)}
  /\ UNCHANGED <<operationQueue, connections>>

Next ==
  \/ \E r \in Requests : EnqueueOperation(r)
  \/ ExecuteNextEmpty
  \/ ExecuteNext
  \/ FinishExecution

Safety == Init /\ [][Next]_vars

\* The event loop delivers posted calls, and a driver call returns: the bus
\* library reports an answer or a timeout.  Nobody is obliged to enqueue.
Fairness ==
  /\ WF_vars(ExecuteNextEmpty \/ ExecuteNext)
  /\ WF_vars(FinishExecution)

Spec == Safety /\ Fairness

-----------------------------------------------------------------------------

TypeOK ==
  /\ operationQueue \in Seq(Requests)
  /\ operationInProgress \in Requests \cup {None}
  /\ posted \in Nat
  /\ stack \in Seq(Requests)
  /\ connections \in [Objects -> Nat]
  /\ done \in SUBSET Requests

(***************************************************************************)
(* No lost wakeup.  When the event loop is back at the top level, an       *)
(* operation left in the queue has a posted executeNext_ that will take    *)
(* it: the idle test of enqueueOperation_ and the reposting in             *)
(* onAboutToFinish_ leave no gap between them, also after nested           *)
(* executions have cleared operationInProgress_ under an outer one.        *)
(***************************************************************************)
NoLostWakeup == operationQueue # <<>> /\ stack = <<>> => posted > 0

(***************************************************************************)
(* operationInProgress_ never outlives its execution: it is null or the    *)
(* innermost operation on the stack, so it never points to an operation    *)
(* whose finished handler has scheduled its deletion.                      *)
(***************************************************************************)
NoStaleInProgress ==
  operationInProgress # None => stack # <<>> /\ operationInProgress = Head(stack)

(***************************************************************************)
(* An enqueued request is in one place only: queued once, or executing     *)
(* once, or finished; none is executed twice by surplus executeNext_       *)
(* calls, and none is executed again after it has finished.                *)
(***************************************************************************)
ExecutedOnce ==
  /\ IsInjective(operationQueue)
  /\ IsInjective(stack)
  /\ ToSet(operationQueue) \cap ToSet(stack) = {}
  /\ (ToSet(operationQueue) \cup ToSet(stack)) \cap done = {}

\* The mechanism implements the abstract life cycle of requests.
Execution == INSTANCE OperationExecution WITH
  waiting <- operationQueue,
  running <- stack,
  finished <- done

(***************************************************************************)
(* The queue, the pointer and the posted events together start requests in *)
(* the order of their enqueueing, once each, and keep starting and         *)
(* finishing them: the posted-event mechanism implements the promise of    *)
(* OperationExecution, its fairness included.                              *)
(***************************************************************************)
ImplementsExecution == Execution!ExecSpec

=============================================================================
