-------------------------- MODULE OperationQueueProofs --------------------------
(***************************************************************************)
(* Proofs about OperationQueue, for every set of requests and objects and  *)
(* for every choice of the requests whose driver dispatches events.        *)
(*                                                                         *)
(* NoLostWakeup is not inductive: it speaks of the top level only, while   *)
(* the wakeup may be lost inside a nested execution.  Its strengthening    *)
(* follows operationInProgress_: while the pointer is null, a non-empty    *)
(* queue has a posted call; while it is not null, the innermost execution  *)
(* on the stack is the one it points to, and that execution will repost    *)
(* because its object has at least one connection.                         *)
(*                                                                         *)
(* A posted call that finds the queue empty changes nothing but the posted *)
(* calls: each proof takes it together with the steps that stutter.        *)
(***************************************************************************)
EXTENDS OperationQueue, SequenceLemmas

\* A queue that no execution looks after has a posted executeNext_.
WakeupPosted ==
  operationQueue # <<>> /\ operationInProgress = None => posted > 0

\* An operation that will finish will call onAboutToFinish_.
Connected ==
  \A r \in ToSet(operationQueue) \cup ToSet(stack) : connections[ObjectOf[r]] > 0

WakeupInv == TypeOK /\ NoStaleInProgress /\ WakeupPosted /\ Connected

-----------------------------------------------------------------------------

\* Type correctness of the operation queue.
THEOREM TypeCorrect == Safety => []TypeOK
<1>1. Init => TypeOK
  BY DEF Init, TypeOK
<1>2. TypeOK /\ [Next]_vars => TypeOK'
  <2> SUFFICES ASSUME TypeOK, [Next]_vars
               PROVE  TypeOK'
    OBVIOUS
  <2> USE RequestAssumption DEF TypeOK
  <2>1. CASE ExecuteNextEmpty \/ UNCHANGED vars
    BY <2>1 DEF ExecuteNextEmpty, vars
  <2>2. ASSUME NEW r \in Requests, EnqueueOperation(r)
        PROVE  TypeOK'
    <3>1. operationQueue' \in Seq(Requests)
      BY <2>2, ToSetAppend DEF EnqueueOperation
    <3>2. connections' \in [Objects -> Nat]
      BY <2>2 DEF EnqueueOperation
    <3>3. posted' \in Nat
      BY <2>2 DEF EnqueueOperation
    <3>4. QED
      BY <2>2, <3>1, <3>2, <3>3 DEF EnqueueOperation
  <2>3. CASE ExecuteNext
    <3>1. /\ Head(operationQueue) \in Requests
          /\ operationQueue' \in Seq(Requests)
      BY <2>3, ToSetHeadTail DEF ExecuteNext
    <3>2. stack' \in Seq(Requests)
      BY <2>3, <3>1, ToSetPush DEF ExecuteNext
    <3>3. QED
      BY <2>3, <3>1, <3>2 DEF ExecuteNext
  <2>4. CASE FinishExecution
    <3>1. Head(stack) \in Requests /\ stack' \in Seq(Requests)
      BY <2>4, ToSetHeadTail DEF FinishExecution
    <3>2. connections[ObjectOf[Head(stack)]] \in Nat
      BY <3>1
    <3>3. QED
      BY <2>4, <3>1, <3>2 DEF FinishExecution, OnAboutToFinish
  <2>5. QED
    BY <2>1, <2>2, <2>3, <2>4 DEF Next
<1>3. QED
  BY <1>1, <1>2, PTL DEF Safety

-----------------------------------------------------------------------------

\* Connections are only ever added.
LEMMA EnqueueConnects ==
  ASSUME TypeOK, NEW r \in Requests, EnqueueOperation(r)
  PROVE  /\ connections'[ObjectOf[r]] > 0
         /\ \A q \in Requests : connections[ObjectOf[q]] > 0 => connections'[ObjectOf[q]] > 0
BY RequestAssumption DEF TypeOK, EnqueueOperation

\* The strengthening of NoLostWakeup and NoStaleInProgress is inductive.
THEOREM WakeupInductive == Safety => []WakeupInv
<1> USE RequestAssumption
<1>1. Init => WakeupInv
  <2> SUFFICES ASSUME Init
               PROVE  WakeupInv
    OBVIOUS
  <2>1. TypeOK
    BY DEF Init, TypeOK
  <2>2. NoStaleInProgress /\ WakeupPosted
    BY DEF Init, NoStaleInProgress, WakeupPosted
  <2>3. Connected
    BY DEF Init, Connected, ToSet
  <2>4. QED
    BY <2>1, <2>2, <2>3 DEF WakeupInv
<1>2. TypeOK /\ TypeOK' /\ WakeupInv /\ [Next]_vars => WakeupInv'
  <2> SUFFICES ASSUME TypeOK, TypeOK', NoStaleInProgress, WakeupPosted, Connected, [Next]_vars
               PROVE  NoStaleInProgress' /\ WakeupPosted' /\ Connected'
    BY DEF WakeupInv
  <2>1. ASSUME NEW r \in Requests, EnqueueOperation(r)
        PROVE  NoStaleInProgress' /\ WakeupPosted' /\ Connected'
    <3>1. NoStaleInProgress'
      BY <2>1 DEF NoStaleInProgress, EnqueueOperation
    <3>2. WakeupPosted'
      \* Either the manager was idle and posts now, or the queue was not
      \* empty under a null pointer and a call is posted already.
      BY <2>1 DEF WakeupPosted, EnqueueOperation, Idle, TypeOK
    <3>3. Connected'
      <4>1. ToSet(operationQueue') = ToSet(operationQueue) \cup {r}
        BY <2>1, ToSetAppend DEF EnqueueOperation, TypeOK
      <4>2. ToSet(operationQueue) \subseteq Requests /\ ToSet(stack) \subseteq Requests
        BY SMTT(30) DEF TypeOK, ToSet
      <4>3. stack' = stack
        BY <2>1 DEF EnqueueOperation
      <4>4. QED
        BY <2>1, <4>1, <4>2, <4>3, EnqueueConnects DEF Connected
    <3>4. QED
      BY <3>1, <3>2, <3>3
  <2>2. CASE ExecuteNextEmpty \/ UNCHANGED vars
    BY <2>2 DEF ExecuteNextEmpty, vars, NoStaleInProgress, WakeupPosted, Connected
  <2>3. CASE ExecuteNext
    <3>1. /\ Head(operationQueue) \in Requests
          /\ ToSet(operationQueue) = ToSet(operationQueue') \cup {Head(operationQueue)}
      BY <2>3, ToSetHeadTail DEF ExecuteNext, TypeOK
    <3>2. /\ stack' # <<>>
          /\ Head(stack') = Head(operationQueue)
          /\ ToSet(stack') = ToSet(stack) \cup {Head(operationQueue)}
      BY <2>3, <3>1, ToSetPush DEF ExecuteNext, TypeOK
    <3>3. NoStaleInProgress'
      BY <2>3, <3>2 DEF NoStaleInProgress, ExecuteNext
    <3>4. WakeupPosted'
      BY <2>3, <3>1 DEF WakeupPosted, ExecuteNext
    <3>5. Connected'
      BY <2>3, <3>1, <3>2 DEF Connected, ExecuteNext
    <3>6. QED
      BY <3>3, <3>4, <3>5
  <2>4. CASE FinishExecution
    <3>1. /\ Head(stack) \in Requests
          /\ ToSet(stack) = ToSet(stack') \cup {Head(stack)}
      BY <2>4, ToSetHeadTail DEF FinishExecution, TypeOK
    <3>2. connections[ObjectOf[Head(stack)]] > 0
      BY <3>1 DEF Connected
    <3>3. NoStaleInProgress'
      BY <2>4 DEF NoStaleInProgress, FinishExecution, OnAboutToFinish
    <3>4. WakeupPosted'
      BY <2>4, <3>1, <3>2 DEF WakeupPosted, FinishExecution, OnAboutToFinish, TypeOK
    <3>5. Connected'
      BY <2>4, <3>1 DEF Connected, FinishExecution
    <3>6. QED
      BY <3>3, <3>4, <3>5
  <2>5. QED
    BY <2>1, <2>2, <2>3, <2>4 DEF Next
<1>3. QED
  BY <1>1, <1>2, TypeCorrect, PTL DEF Safety

\* No operation stays in the queue at the top level without a posted
\* executeNext_ that will take it.
THEOREM WakeupNeverLost == Safety => []NoLostWakeup
<1>1. WakeupInv => NoLostWakeup
  BY DEF WakeupInv, WakeupPosted, NoStaleInProgress, NoLostWakeup
<1>2. QED
  BY <1>1, WakeupInductive, PTL

\* operationInProgress_ is null or the innermost execution on the stack.
THEOREM InProgressNeverStale == Safety => []NoStaleInProgress
<1>1. WakeupInv => NoStaleInProgress
  BY DEF WakeupInv
<1>2. QED
  BY <1>1, WakeupInductive, PTL

-----------------------------------------------------------------------------

\* Every enqueued request is in one place, and executed once.
THEOREM RequestsExecutedOnce == Safety => []ExecutedOnce
<1> USE RequestAssumption
<1>1. Init => ExecutedOnce
  BY DEF Init, ExecutedOnce, IsInjective, ToSet
<1>2. TypeOK /\ ExecutedOnce /\ [Next]_vars => ExecutedOnce'
  <2> SUFFICES ASSUME TypeOK, ExecutedOnce, [Next]_vars
               PROVE  ExecutedOnce'
    OBVIOUS
  <2>1. ASSUME NEW r \in Requests, EnqueueOperation(r)
        PROVE  ExecutedOnce'
    <3>1. /\ ToSet(operationQueue') = ToSet(operationQueue) \cup {r}
          /\ IsInjective(operationQueue')
      BY <2>1, ToSetAppend, InjectiveAdd DEF EnqueueOperation, TypeOK, ExecutedOnce, Fresh
    <3>2. QED
      BY <2>1, <3>1 DEF ExecutedOnce, EnqueueOperation, Fresh
  <2>2. CASE ExecuteNextEmpty \/ UNCHANGED vars
    BY <2>2 DEF ExecuteNextEmpty, vars, ExecutedOnce
  <2>3. CASE ExecuteNext
    <3> DEFINE h == Head(operationQueue)
    <3>1. /\ h \in Requests
          /\ ToSet(operationQueue) = ToSet(operationQueue') \cup {h}
          /\ IsInjective(operationQueue')
          /\ h \notin ToSet(operationQueue')
      BY <2>3, ToSetHeadTail, InjectiveTail DEF ExecuteNext, TypeOK, ExecutedOnce
    <3>2. h \notin ToSet(stack)
      BY <3>1 DEF ExecutedOnce
    <3>3. /\ ToSet(stack') = ToSet(stack) \cup {h}
          /\ IsInjective(stack')
      BY <2>3, <3>1, <3>2, ToSetPush, InjectiveAdd DEF ExecuteNext, TypeOK, ExecutedOnce
    <3>4. QED
      BY <2>3, <3>1, <3>3 DEF ExecutedOnce, ExecuteNext
  <2>4. CASE FinishExecution
    <3>1. /\ ToSet(stack) = ToSet(stack') \cup {Head(stack)}
          /\ IsInjective(stack')
          /\ Head(stack) \notin ToSet(stack')
      BY <2>4, ToSetHeadTail, InjectiveTail DEF FinishExecution, TypeOK, ExecutedOnce
    <3>2. QED
      BY <2>4, <3>1 DEF ExecutedOnce, FinishExecution
  <2>5. QED
    BY <2>1, <2>2, <2>3, <2>4 DEF Next
<1>3. QED
  BY <1>1, <1>2, TypeCorrect, PTL DEF Safety

-----------------------------------------------------------------------------

\* The safety part of ImplementsExecution: posted calls, idle test and
\* pointer together start requests in the order of their enqueueing and
\* execute each of them once.
THEOREM ImplementsExecutionSafety == Safety => Execution!ExecSafety
<1>1. Init => Execution!ExecInit
  BY DEF Init, Execution!ExecInit
<1>2. [Next]_vars => [Execution!ExecNext]_Execution!execVars
  <2> SUFFICES ASSUME [Next]_vars
               PROVE  Execution!ExecNext \/ UNCHANGED Execution!execVars
    OBVIOUS
  <2>1. ASSUME NEW r \in Requests, EnqueueOperation(r)
        PROVE  Execution!Submit(r)
    BY <2>1 DEF EnqueueOperation, Fresh, MayDispatch, ToSet, Execution!Submit,
                Execution!Submitted, Execution!MayDispatch, Execution!ToSet
  <2>2. CASE ExecuteNextEmpty \/ UNCHANGED vars
    BY <2>2 DEF ExecuteNextEmpty, vars, Execution!execVars
  <2>3. CASE ExecuteNext
    BY <2>3 DEF ExecuteNext, MayDispatch, Execution!Start, Execution!MayDispatch, Execution!ExecNext
  <2>4. CASE FinishExecution
    BY <2>4 DEF FinishExecution, Execution!Finish, Execution!ExecNext
  <2>5. QED
    BY <2>1, <2>2, <2>3, <2>4 DEF Next, Execution!ExecNext
<1>3. QED
  BY <1>1, <1>2, PTL DEF Safety, Execution!ExecSafety

=============================================================================
