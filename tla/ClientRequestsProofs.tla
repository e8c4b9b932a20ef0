-------------------------- MODULE ClientRequestsProofs --------------------------
(***************************************************************************)
(* Theorems about ClientRequests, for every set of clients and requests    *)
(* and every size of the batches.                                          *)
(*                                                                         *)
(* That a queued part belongs to an operation that is alive, and that an   *)
(* answer is complete, both rest on the counter of the operation: the      *)
(* parts queued or executing and the parts counted make up the operation.  *)
(* Cardinalities are needed because the counter does not tell which parts  *)
(* have finished, and parts finish in any order.                           *)
(***************************************************************************)
EXTENDS ClientRequests, SequenceLemmas, SequenceTheorems, FiniteSetTheorems

\* The parts of r that have not finished, by their numbers.
Remaining(r) == {i \in 1..PartCount[r] : <<r, i>> \in ToSet(queue) \cup ToSet(stack)}

\* No part is queued twice, executed twice or queued while it is executed.
Distinct ==
  /\ IsInjective(queue)
  /\ IsInjective(stack)
  /\ ToSet(queue) \cap ToSet(stack) = {}

Counted ==
  \A r \in Requests :
    Cardinality(Remaining(r)) + completed[r] = IF object[r] = "none" THEN 0 ELSE PartCount[r]

Released ==
  \A r \in Requests : object[r] \in {"releasing", "deleted"} => completed[r] = PartCount[r]

\* An answer to a request with an operation is sent when all parts are counted.
AnsweredCounted ==
  \A r \in ToSet(answers) : object[r] # "none" => completed[r] = PartCount[r]

CountInv == TypeOK /\ Distinct /\ Counted /\ Released /\ AnsweredCounted

-----------------------------------------------------------------------------

\* The numbers of remaining parts are a finite set, empty if the counter has
\* reached its end.
LEMMA RemainingFinite ==
  ASSUME NEW r \in Requests
  PROVE  /\ PartCount[r] \in Nat
         /\ IsFiniteSet(Remaining(r))
         /\ Cardinality(Remaining(r)) \in Nat
         /\ Cardinality(Remaining(r)) = 0 <=> Remaining(r) = {}
<1>1. PartCount[r] \in Nat
  BY ClientAssumption
<1>2. IsFiniteSet(1..PartCount[r])
  BY <1>1, FS_Interval
<1>3. IsFiniteSet(Remaining(r))
  BY <1>2, FS_Subset DEF Remaining
<1>4. QED
  BY <1>1, <1>3, FS_CardinalityType, FS_EmptySet

\* Outstanding parts are the remaining ones.
LEMMA OutstandingRemaining ==
  ASSUME TypeOK, NEW r \in Requests
  PROVE  Outstanding(r) <=> Remaining(r) # {}
<1>1. ToSet(queue) \subseteq Parts /\ ToSet(stack) \subseteq Parts
  BY DEF TypeOK, ToSet
<1>2. \A part \in Parts : part[1] = r => part[2] \in 1..PartCount[r] /\ part = <<r, part[2]>>
  BY DEF Parts
<1>3. QED
  BY <1>1, <1>2 DEF Outstanding, Remaining

\* What the counting says of a request with outstanding parts.
LEMMA OutstandingCounted ==
  ASSUME CountInv, NEW r \in Requests, Outstanding(r)
  PROVE  object[r] = "alive" /\ completed[r] < PartCount[r]
<1>1. Cardinality(Remaining(r)) \in Nat /\ Cardinality(Remaining(r)) > 0
  BY OutstandingRemaining, RemainingFinite DEF CountInv
<1>2. completed[r] \in Nat /\ PartCount[r] \in Nat
  BY RemainingFinite DEF CountInv, TypeOK
<1>3. Cardinality(Remaining(r)) + completed[r] = IF object[r] = "none" THEN 0 ELSE PartCount[r]
  BY DEF CountInv, Counted
<1>4. object[r] # "none" /\ completed[r] < PartCount[r]
  BY <1>1, <1>2, <1>3
<1>5. object[r] \in {"none", "alive", "releasing", "deleted"}
  BY DEF CountInv, TypeOK
<1>6. object[r] \in {"releasing", "deleted"} => completed[r] = PartCount[r]
  BY DEF CountInv, Released
<1>7. QED
  BY <1>2, <1>4, <1>5, <1>6

\* The parts of a new operation: each once, all of its numbers.
LEMMA NewParts ==
  ASSUME NEW r \in Requests
  PROVE  /\ PartsOf(r) \in Seq(Parts)
         /\ ToSet(PartsOf(r)) = {<<r, i>> : i \in 1..PartCount[r]}
         /\ IsInjective(PartsOf(r))
<1>1. PartCount[r] \in Nat
  BY ClientAssumption
<1>2. \A i \in 1..PartCount[r] : <<r, i>> \in Parts
  BY <1>1 DEF Parts
<1>3. PartsOf(r) \in [1..PartCount[r] -> Parts]
  BY <1>2 DEF PartsOf
<1>4. PartsOf(r) \in Seq(Parts)
  BY <1>1, <1>3, SeqDef
<1>5. DOMAIN PartsOf(r) = 1..PartCount[r] /\ \A i \in 1..PartCount[r] : PartsOf(r)[i] = <<r, i>>
  BY DEF PartsOf
<1>6. ToSet(PartsOf(r)) = {<<r, i>> : i \in 1..PartCount[r]}
  BY <1>5 DEF ToSet
<1>7. IsInjective(PartsOf(r))
  BY <1>5 DEF IsInjective
<1>8. QED
  BY <1>4, <1>6, <1>7

-----------------------------------------------------------------------------

\* Steps of the sessions touch none of what is counted.
LEMMA SessionStep ==
  ASSUME CountInv, UNCHANGED <<queueVars, object, answers>>, TypeOK'
  PROVE  CountInv'
<1>1. UNCHANGED <<queue, stack, completed, object, answers>>
  BY DEF queueVars
<1>2. \A r : Remaining(r)' = Remaining(r)
  BY <1>1 DEF Remaining
<1>3. QED
  BY <1>1, <1>2 DEF CountInv, Distinct, Counted, Released, AnsweredCounted

\* A frame enqueues the parts of an operation that had none.
LEMMA AskStep ==
  ASSUME CountInv, NEW r \in Requests, Ask(r)
  PROVE  CountInv'
<1> USE DEF CountInv
<1>1. /\ object[r] = "none" /\ r \notin ToSet(answers)
      /\ object' = [object EXCEPT ![r] = "alive"]
      /\ queue' = queue \o PartsOf(r)
      /\ UNCHANGED <<session, protocols, stack, completed, answers>>
  BY DEF Ask, Fresh
<1>2. queue \in Seq(Parts) /\ PartsOf(r) \in Seq(Parts)
  BY NewParts DEF TypeOK
<1>3. /\ queue' \in Seq(Parts)
      /\ ToSet(queue') = ToSet(queue) \cup {<<r, i>> : i \in 1..PartCount[r]}
  BY <1>1, <1>2, NewParts, ToSetConcat
<1>4. TypeOK'
  BY <1>1, <1>3 DEF TypeOK
<1>5. Cardinality(Remaining(r)) = 0 /\ completed[r] = 0
  <2>1. Cardinality(Remaining(r)) + completed[r] = 0
    BY <1>1 DEF Counted
  <2>2. QED
    BY <2>1, RemainingFinite DEF TypeOK
<1>6. \A i \in 1..PartCount[r] : <<r, i>> \notin ToSet(queue) \cup ToSet(stack)
  BY <1>5, RemainingFinite DEF Remaining
<1>7. Distinct'
  <2>1. ToSet(queue) \cap ToSet(PartsOf(r)) = {}
    BY <1>6, NewParts
  <2>2. IsInjective(queue')
    BY <1>1, <1>2, <2>1, NewParts, InjectiveConcat DEF Distinct
  <2>3. ToSet(queue') \cap ToSet(stack') = {}
    BY <1>1, <1>3, <1>6 DEF Distinct
  <2>4. QED
    BY <1>1, <2>2, <2>3 DEF Distinct
<1>8. Remaining(r)' = 1..PartCount[r]
  BY <1>1, <1>3 DEF Remaining
<1>9. \A q \in Requests \ {r} : Remaining(q)' = Remaining(q)
  BY <1>1, <1>3 DEF Remaining
<1>10. Counted'
  <2>1. Cardinality(1..PartCount[r]) = PartCount[r]
    BY FS_Interval, RemainingFinite
  <2>2. Cardinality(Remaining(r)') + completed'[r] = PartCount[r]
    BY <1>1, <1>5, <1>8, <2>1, RemainingFinite
  <2>3. object'[r] = "alive" /\ \A q \in Requests \ {r} : object'[q] = object[q]
    BY <1>1 DEF TypeOK
  <2>4. QED
    BY <1>1, <1>9, <2>2, <2>3 DEF Counted
<1>11. Released' /\ AnsweredCounted'
  BY <1>1 DEF Released, AnsweredCounted, TypeOK
<1>12. QED
  BY <1>4, <1>7, <1>10, <1>11

\* A part moves from the queue to the stack.
LEMMA StartPartStep ==
  ASSUME CountInv, StartPart
  PROVE  CountInv'
<1> USE DEF CountInv
<1> DEFINE part == Head(queue)
<1>1. /\ queue # <<>>
      /\ stack' = <<part>> \o stack
      /\ queue' = Tail(queue)
      /\ UNCHANGED <<session, protocols, completed, object, answers>>
  BY DEF StartPart
<1>2. queue \in Seq(Parts) /\ stack \in Seq(Parts)
  BY DEF TypeOK
<1>3. /\ part \in Parts /\ queue' \in Seq(Parts)
      /\ ToSet(queue) = ToSet(queue') \cup {part}
  BY <1>1, <1>2, ToSetHeadTail
<1>4. IsInjective(queue') /\ part \notin ToSet(queue')
  BY <1>1, <1>2, InjectiveTail DEF Distinct
<1> HIDE DEF part
<1>5. stack' \in Seq(Parts) /\ ToSet(stack') = ToSet(stack) \cup {part}
  BY <1>1, <1>2, <1>3, ToSetPush
<1>6. part \notin ToSet(stack)
  BY <1>3 DEF Distinct
<1>7. IsInjective(stack')
  BY <1>1, <1>2, <1>3, <1>6, InjectiveAdd DEF Distinct
<1>8. Distinct'
  BY <1>3, <1>4, <1>5, <1>7 DEF Distinct
<1>9. TypeOK'
  BY <1>1, <1>3, <1>5 DEF TypeOK
<1>10. \A r : Remaining(r)' = Remaining(r)
  BY <1>3, <1>5 DEF Remaining
<1>11. QED
  BY <1>1, <1>8, <1>9, <1>10 DEF Counted, Released, AnsweredCounted

\* A part finishes: it is counted, and the last one may release the operation.
LEMMA FinishPartStep ==
  ASSUME CountInv, FinishPart,
         NEW r \in Requests, NEW n \in 1..PartCount[r], Head(stack) = <<r, n>>
  PROVE  CountInv'
<1> USE DEF CountInv
<1> DEFINE part == <<r, n>>
<1>1. /\ stack # <<>>
      /\ completed' = [completed EXCEPT ![r] = @ + 1]
      /\ IF IsLastPart(r) THEN OnFinished(r) ELSE UNCHANGED <<answers, object>>
      /\ stack' = Tail(stack)
      /\ UNCHANGED <<session, protocols, queue>>
  <2>1. Head(stack)[1] = r
    OBVIOUS
  <2> HIDE DEF CountInv
  <2>2. QED
    BY <2>1, Zenon DEF FinishPart
<1>2. queue \in Seq(Parts) /\ stack \in Seq(Parts)
  BY DEF TypeOK
<1>3. /\ part \in Parts /\ stack' \in Seq(Parts)
      /\ ToSet(stack) = ToSet(stack') \cup {part}
  BY <1>1, <1>2, ToSetHeadTail
<1>4. IsInjective(stack') /\ part \notin ToSet(stack')
  BY <1>1, <1>2, InjectiveTail DEF Distinct
<1>5. \A q, i : <<q, i>> = part <=> q = r /\ i = n
  OBVIOUS
<1> HIDE DEF part
<1>6. Outstanding(r)
  BY <1>3 DEF Outstanding, part
<1>7. /\ object[r] = "alive" /\ completed[r] < PartCount[r]
      /\ completed[r] \in Nat /\ PartCount[r] \in Nat
  BY <1>5, <1>6, OutstandingCounted, RemainingFinite DEF TypeOK
<1>8. /\ completed' \in [Requests -> Nat]
      /\ completed'[r] = completed[r] + 1
      /\ \A q \in Requests \ {r} : completed'[q] = completed[q]
  BY <1>1, <1>5, <1>7 DEF TypeOK
<1>9. /\ \/ answers' = answers
         \/ answers' = Append(answers, r) /\ completed'[r] = PartCount[r]
      /\ \/ object' = object
         \/ object' = [object EXCEPT ![r] = "releasing"] /\ completed'[r] = PartCount[r]
  BY <1>1, <1>8 DEF OnFinished, IsLastPart
<1>10. /\ answers' \in Seq(Requests)
       /\ ToSet(answers') \subseteq ToSet(answers) \cup {r}
       /\ r \in ToSet(answers') => r \in ToSet(answers) \/ completed'[r] = PartCount[r]
  <2>1. answers \in Seq(Requests)
    BY DEF TypeOK
  <2>2. /\ Append(answers, r) \in Seq(Requests)
        /\ ToSet(Append(answers, r)) = ToSet(answers) \cup {r}
    BY <1>5, <2>1, ToSetAppend
  <2>3. CASE answers' = answers
    BY <2>1, <2>3
  <2>4. CASE answers' = Append(answers, r) /\ completed'[r] = PartCount[r]
    BY <2>2, <2>4
  <2>5. QED
    BY <1>9, <2>3, <2>4
<1>11. /\ object' \in [Requests -> {"none", "alive", "releasing", "deleted"}]
       /\ object'[r] = "alive" \/ (object'[r] = "releasing" /\ completed'[r] = PartCount[r])
       /\ \A q \in Requests \ {r} : object'[q] = object[q]
  <2>1. object \in [Requests -> {"none", "alive", "releasing", "deleted"}]
    BY DEF TypeOK
  <2>2. CASE object' = object
    BY <1>7, <2>1, <2>2
  <2>3. CASE object' = [object EXCEPT ![r] = "releasing"] /\ completed'[r] = PartCount[r]
    BY <1>5, <2>1, <2>3
  <2>4. QED
    BY <1>9, <2>2, <2>3
<1>12. TypeOK'
  BY <1>1, <1>3, <1>8, <1>10, <1>11 DEF TypeOK
<1>13. Distinct'
  BY <1>1, <1>3, <1>4 DEF Distinct
<1>14. part \notin ToSet(queue)
  BY <1>3 DEF Distinct
<1>15. \A q, i : <<q, i>> \in ToSet(queue') \cup ToSet(stack') <=>
                  <<q, i>> \in (ToSet(queue) \cup ToSet(stack)) \ {part}
  BY <1>1, <1>3, <1>4, <1>14
<1>16. /\ n \in Remaining(r)
       /\ Remaining(r)' = Remaining(r) \ {n}
       /\ \A q \in Requests \ {r} : Remaining(q)' = Remaining(q)
  BY <1>3, <1>5, <1>15 DEF Remaining
<1>17. Counted'
  <2>1. Cardinality(Remaining(r)') = Cardinality(Remaining(r)) - 1
    BY <1>16, RemainingFinite, FS_RemoveElement
  <2>2. Cardinality(Remaining(r)) + completed[r] = PartCount[r]
    BY <1>5, <1>7 DEF Counted
  <2>3. Cardinality(Remaining(r)') + completed'[r] = PartCount[r]
    BY <1>5, <1>7, <1>8, <2>1, <2>2, RemainingFinite
  <2>4. object'[r] # "none"
    BY <1>11
  <2>5. \A q \in Requests \ {r} :
          Cardinality(Remaining(q)') + completed'[q] = IF object'[q] = "none" THEN 0 ELSE PartCount[q]
    BY <1>8, <1>11, <1>16 DEF Counted
  <2>6. \A q \in Requests :
          Cardinality(Remaining(q)') + completed'[q] = IF object'[q] = "none" THEN 0 ELSE PartCount[q]
    BY <2>3, <2>4, <2>5
  <2>7. QED
    BY <2>6 DEF Counted
<1>18. Released'
  BY <1>8, <1>11 DEF Released
<1>19. AnsweredCounted'
  <2>1. \A q \in ToSet(answers) : q # r
    BY <1>7 DEF AnsweredCounted
  <2>2. ToSet(answers) \subseteq Requests
    BY DEF TypeOK, ToSet
  <2>3. r \in ToSet(answers') => completed'[r] = PartCount[r]
    BY <1>10, <2>1
  <2>4. \A q \in ToSet(answers') \ {r} : object'[q] # "none" => completed'[q] = PartCount[q]
    BY <1>8, <1>10, <1>11, <2>2 DEF AnsweredCounted
  <2>5. QED
    BY <2>3, <2>4 DEF AnsweredCounted
<1>20. QED
  BY <1>12, <1>13, <1>17, <1>18, <1>19

-----------------------------------------------------------------------------

\* The counting is inductive.
THEOREM CountInductive == Safety => []CountInv
<1>1. Init => CountInv
  <2> SUFFICES ASSUME Init
               PROVE  CountInv
    OBVIOUS
  <2>1. ToSet(queue) = {} /\ ToSet(stack) = {} /\ ToSet(answers) = {}
    BY DEF Init, ToSet
  <2>2. Distinct
    BY <2>1 DEF Init, Distinct, IsInjective
  <2>3. Counted
    <3>1. \A r \in Requests : Cardinality(Remaining(r)) = 0
      BY <2>1, FS_EmptySet DEF Remaining
    <3>2. QED
      BY <3>1 DEF Init, Counted
  <2>4. TypeOK /\ Released /\ AnsweredCounted
    BY <2>1 DEF Init, TypeOK, Released, AnsweredCounted
  <2>5. QED
    BY <2>2, <2>3, <2>4 DEF CountInv
<1>2. CountInv /\ [Next]_vars => CountInv'
  <2> SUFFICES ASSUME CountInv, [Next]_vars
               PROVE  CountInv'
    OBVIOUS
  <2>1. ASSUME NEW c \in Clients,
               Connect(c) \/ Authorize(c) \/ LeaveBluetooth(c) \/ CloseWebSocket(c) \/ DeleteConnection(c)
        PROVE  CountInv'
    <3>1. UNCHANGED <<queueVars, object, answers>>
      BY <2>1 DEF Connect, Authorize, LeaveBluetooth, CloseWebSocket, DeleteConnection
    <3>2. TypeOK'
      BY <2>1 DEF CountInv, TypeOK, queueVars, Connect, Authorize, LeaveBluetooth, CloseWebSocket, DeleteConnection
    <3>3. QED
      BY <3>1, <3>2, SessionStep
  <2>2. ASSUME NEW r \in Requests, Ask(r)
        PROVE  CountInv'
    BY <2>2, AskStep
  <2>3. ASSUME NEW r \in Requests, Refuse(r)
        PROVE  CountInv'
    <3>1. /\ object[r] = "none" /\ answers' = Append(answers, r)
          /\ UNCHANGED <<session, protocols, queue, stack, completed, object>>
      BY <2>3 DEF Refuse, Fresh, queueVars
    <3>2. answers' \in Seq(Requests) /\ ToSet(answers') = ToSet(answers) \cup {r}
      BY <3>1, ToSetAppend DEF CountInv, TypeOK
    <3>3. \A q : Remaining(q)' = Remaining(q)
      BY <3>1 DEF Remaining
    <3>4. QED
      BY <3>1, <3>2, <3>3 DEF CountInv, TypeOK, Distinct, Counted, Released, AnsweredCounted
  <2>4. ASSUME NEW r \in Requests, DeleteOperation(r)
        PROVE  CountInv'
    <3>1. /\ object[r] = "releasing" /\ object' = [object EXCEPT ![r] = "deleted"]
          /\ UNCHANGED <<session, protocols, queue, stack, completed, answers>>
      BY <2>4 DEF DeleteOperation, queueVars
    <3>2. \A q : Remaining(q)' = Remaining(q)
      BY <3>1 DEF Remaining
    <3>3. completed[r] = PartCount[r]
      BY <3>1 DEF CountInv, Released
    <3>4. \A q \in Requests : object'[q] = IF q = r THEN "deleted" ELSE object[q]
      BY <3>1 DEF CountInv, TypeOK
    <3>5. TypeOK' /\ Distinct' /\ Released'
      BY <3>1, <3>3, <3>4 DEF CountInv, TypeOK, Distinct, Released
    <3>6. Counted'
      BY <3>1, <3>2, <3>4 DEF CountInv, Counted
    <3>7. AnsweredCounted'
      <4>1. ToSet(answers) \subseteq Requests
        BY ToSetByPosition DEF CountInv, TypeOK
      <4>2. QED
        BY <3>1, <3>3, <3>4, <4>1 DEF CountInv, AnsweredCounted
    <3>8. QED
      BY <3>5, <3>6, <3>7 DEF CountInv
  <2>5. CASE StartPart
    BY <2>5, StartPartStep
  <2>6. CASE FinishPart
    <3>1. Head(stack) \in Parts
      BY <2>6, ToSetHeadTail DEF FinishPart, CountInv, TypeOK
    <3>2. PICK r \in Requests : \E n \in 1..PartCount[r] : Head(stack) = <<r, n>>
      BY <3>1 DEF Parts
    <3>3. PICK n \in 1..PartCount[r] : Head(stack) = <<r, n>>
      BY <3>2
    <3>4. QED
      BY <2>6, <3>3, FinishPartStep
  <2>7. CASE UNCHANGED vars
    <3>1. UNCHANGED <<queueVars, object, answers>> /\ TypeOK'
      BY <2>7 DEF vars, queueVars, CountInv, TypeOK
    <3>2. QED
      BY <3>1, SessionStep
  <2>8. QED
    BY <2>1, <2>2, <2>3, <2>4, <2>5, <2>6, <2>7 DEF Next
<1>3. QED
  BY <1>1, <1>2, PTL DEF Safety

\* Type correctness of the client requests.
THEOREM RequestsTypeCorrect == Safety => []TypeOK
<1>1. CountInv => TypeOK
  BY DEF CountInv
<1>2. QED
  BY <1>1, CountInductive, PTL

\* No pointer of the queue and no execution dangles: parts belong to live
\* operations whoever leaves and whatever is nested.
THEOREM QueuedPartsAlive == Safety => []QueuedAlive
<1>1. CountInv => QueuedAlive
  BY OutstandingCounted DEF QueuedAlive
<1>2. QED
  BY <1>1, CountInductive, PTL

\* Answers are complete, in whatever nesting the parts of a batch finish.
THEOREM AnswersComplete == Safety => []AnswerComplete
<1>1. CountInv => AnswerComplete
  <2> SUFFICES ASSUME CountInv, NEW r \in ToSet(answers)
               PROVE  ~Outstanding(r) /\ (object[r] # "none" => completed[r] = PartCount[r])
    BY DEF AnswerComplete
  <2>1. r \in Requests
    BY ToSetByPosition, SMTT(30) DEF CountInv, TypeOK
  <2>2. object[r] # "none" => completed[r] = PartCount[r]
    BY DEF CountInv, AnsweredCounted
  <2>3. ~Outstanding(r)
    BY <2>1, <2>2, OutstandingCounted, RemainingFinite
  <2>4. QED
    BY <2>2, <2>3
<1>2. QED
  BY <1>1, CountInductive, PTL

-----------------------------------------------------------------------------
(* Clients and their operations                                             *)

\* A client that has asked is connected or gone; as long as it is connected
\* its protocol object exists.
Served ==
  \A r \in Requests :
    object[r] # "none" =>
      \/ session[ClientOf[r]] \in {"open", "closing"} /\ ClientOf[r] \in protocols
      \/ session[ClientOf[r]] = "gone"

\* An operation whose parts are all counted is released or without client.
NotForgotten ==
  \A r \in Requests :
    object[r] = "alive" /\ completed[r] = PartCount[r] => session[ClientOf[r]] = "gone"

\* A step finishes nobody's last part but that of a single request r, and
\* what it does with the operation of r depends on the client's protocol.
LEMMA FinishEffect ==
  ASSUME CountInv, FinishPart
  PROVE  \E r \in Requests :
           /\ object[r] = "alive"
           /\ r \notin ToSet(answers)
           /\ completed' = [completed EXCEPT ![r] = @ + 1]
           /\ IF IsLastPart(r) THEN OnFinished(r) ELSE UNCHANGED <<answers, object>>
           /\ UNCHANGED <<session, protocols>>
<1>1. stack # <<>> /\ stack \in Seq(Parts) /\ Head(stack) \in Parts
  BY ToSetHeadTail DEF FinishPart, CountInv, TypeOK
<1>2. PICK r \in Requests : Head(stack)[1] = r
  BY <1>1 DEF Parts
<1>3. Outstanding(r)
  BY <1>1, <1>2, ToSetHeadTail DEF Outstanding
<1>4. object[r] = "alive" /\ completed[r] < PartCount[r] /\ completed[r] \in Nat /\ PartCount[r] \in Nat
  BY <1>3, OutstandingCounted, RemainingFinite DEF CountInv, TypeOK
<1>5. r \notin ToSet(answers)
  BY <1>4 DEF CountInv, AnsweredCounted
<1>6. /\ completed' = [completed EXCEPT ![r] = @ + 1]
      /\ IF IsLastPart(r) THEN OnFinished(r) ELSE UNCHANGED <<answers, object>>
      /\ UNCHANGED <<session, protocols>>
  BY <1>2, Zenon DEF FinishPart
<1>7. QED
  BY <1>4, <1>5, <1>6

\* The clients' side is inductive with the counting.
LEMMA ServedInductive == Safety => [](CountInv /\ Served /\ NotForgotten)
<1>1. Init => Served /\ NotForgotten
  BY DEF Init, Served, NotForgotten
<1>2. CountInv /\ Served /\ NotForgotten /\ [Next]_vars => Served' /\ NotForgotten'
  <2> SUFFICES ASSUME CountInv, Served, NotForgotten, [Next]_vars
               PROVE  Served' /\ NotForgotten'
    OBVIOUS
  <2> USE DEF Served, NotForgotten
  <2>0. /\ TypeOK
        /\ \A r \in Requests : ClientOf[r] \in Clients
    BY ClientAssumption DEF CountInv
  <2>1. ASSUME NEW c \in Clients,
               Connect(c) \/ Authorize(c) \/ LeaveBluetooth(c) \/ CloseWebSocket(c) \/ DeleteConnection(c)
        PROVE  Served' /\ NotForgotten'
    <3>1. object' = object /\ completed' = completed
      BY <2>1 DEF Connect, Authorize, LeaveBluetooth, CloseWebSocket, DeleteConnection, queueVars
    <3>2. CASE Connect(c)
      BY <2>0, <3>1, <3>2 DEF Connect, TypeOK
    <3>3. CASE Authorize(c)
      BY <2>0, <3>1, <3>3 DEF Authorize, TypeOK
    <3>4. CASE LeaveBluetooth(c)
      BY <2>0, <3>1, <3>4 DEF LeaveBluetooth, TypeOK
    <3>5. CASE CloseWebSocket(c)
      BY <2>0, <3>1, <3>5 DEF CloseWebSocket, TypeOK
    <3>6. CASE DeleteConnection(c)
      BY <2>0, <3>1, <3>6 DEF DeleteConnection, TypeOK
    <3>7. QED
      BY <2>1, <3>2, <3>3, <3>4, <3>5, <3>6
  <2>2. ASSUME NEW r \in Requests, Ask(r)
        PROVE  Served' /\ NotForgotten'
    <3>1. /\ session[ClientOf[r]] = "open" /\ ClientOf[r] \in protocols
          /\ object[r] = "none" /\ object' = [object EXCEPT ![r] = "alive"]
          /\ UNCHANGED <<session, protocols, completed>>
      BY <2>2 DEF Ask, Fresh
    <3>2. completed[r] = 0 /\ PartCount[r] # 0
      <4>1. Cardinality(Remaining(r)) + completed[r] = 0
        BY <3>1 DEF CountInv, Counted
      <4>2. QED
        BY <4>1, RemainingFinite, ClientAssumption DEF CountInv, TypeOK
    <3>3. \A q \in Requests : object'[q] = IF q = r THEN "alive" ELSE object[q]
      BY <2>0, <3>1 DEF TypeOK
    <3>4. QED
      BY <3>1, <3>2, <3>3
  <2>3. ASSUME NEW r \in Requests, Refuse(r)
        PROVE  Served' /\ NotForgotten'
    BY <2>3 DEF Refuse, queueVars
  <2>4. ASSUME NEW r \in Requests, DeleteOperation(r)
        PROVE  Served' /\ NotForgotten'
    BY <2>0, <2>4 DEF DeleteOperation, queueVars, TypeOK
  <2>5. CASE StartPart
    BY <2>5 DEF StartPart
  <2>6. CASE FinishPart
    <3>1. PICK r \in Requests :
            /\ object[r] = "alive"
            /\ completed' = [completed EXCEPT ![r] = @ + 1]
            /\ IF IsLastPart(r) THEN OnFinished(r) ELSE UNCHANGED <<answers, object>>
            /\ UNCHANGED <<session, protocols>>
      BY <2>6, FinishEffect
    <3>2. /\ completed'[r] = completed[r] + 1
          /\ \A q \in Requests \ {r} : completed'[q] = completed[q]
      BY <2>0, <3>1 DEF TypeOK
    <3>3. CASE IsLastPart(r) /\ ClientOf[r] \in protocols
      BY <2>0, <3>1, <3>2, <3>3 DEF OnFinished, TypeOK
    <3>4. CASE IsLastPart(r) /\ ClientOf[r] \notin protocols
      BY <2>0, <3>1, <3>2, <3>4 DEF OnFinished
    <3>5. CASE ~IsLastPart(r)
      BY <2>0, <3>1, <3>2, <3>5 DEF IsLastPart
    <3>6. QED
      BY <3>3, <3>4, <3>5
  <2>7. CASE UNCHANGED vars
    BY <2>7 DEF vars, queueVars
  <2>8. QED
    BY <2>1, <2>2, <2>3, <2>4, <2>5, <2>6, <2>7 DEF Next
<1>3. QED
  BY <1>1, <1>2, CountInductive, PTL DEF Safety

\* An operation that was executed and is still there belongs to a client
\* that has left.
THEOREM OnlyLeaversLeaveBehind == Safety => []LeftBehindByLeaversOnly
<1>1. CountInv /\ NotForgotten => LeftBehindByLeaversOnly
  <2> SUFFICES ASSUME CountInv, NotForgotten, NEW r \in Requests, object[r] = "alive", ~Outstanding(r)
               PROVE  session[ClientOf[r]] = "gone"
    BY DEF LeftBehindByLeaversOnly
  <2>1. Cardinality(Remaining(r)) = 0
    BY OutstandingRemaining, RemainingFinite DEF CountInv
  <2>2. completed[r] = PartCount[r]
    <3>1. Cardinality(Remaining(r)) + completed[r] = PartCount[r]
      BY DEF CountInv, Counted
    <3>2. QED
      BY <2>1, <3>1 DEF CountInv, TypeOK
  <2>3. QED
    BY <2>2 DEF NotForgotten
<1>2. QED
  BY <1>1, ServedInductive, PTL

-----------------------------------------------------------------------------
(* The step by step implementation of RequestReply                          *)

\* Nobody is answered twice.
Once == IsInjective(answers)

\* How the client sees a request, when nobody is answered twice.
Seen(r) ==
  IF r \in ToSet(answers) THEN "replied"
  ELSE IF object[r] = "none" THEN "idle"
  ELSE IF session[ClientOf[r]] = "open" THEN "asked" ELSE "abandoned"

LinkInv == CountInv /\ Served /\ Once

SeenRight == \A r \in Requests : StateOf(r) = Seen(r)

\* A client is answered what is not answered yet.
LEMMA OnceInductive == Safety => []LinkInv
<1>1. Init => Once
  BY DEF Init, Once, IsInjective
<1>2. CountInv /\ Once /\ [Next]_vars => Once'
  <2> SUFFICES ASSUME CountInv, Once, [Next]_vars
               PROVE  Once'
    OBVIOUS
  <2>1. answers \in Seq(Requests)
    BY DEF CountInv, TypeOK
  <2>2. ASSUME NEW r \in Requests, r \notin ToSet(answers), answers' = Append(answers, r)
        PROVE  Once'
    BY <2>1, <2>2, InjectiveAdd DEF Once
  <2>3. CASE FinishPart
    <3>1. PICK r \in Requests :
            /\ r \notin ToSet(answers)
            /\ IF IsLastPart(r) THEN OnFinished(r) ELSE UNCHANGED <<answers, object>>
      BY <2>3, FinishEffect
    <3>2. answers' = answers \/ answers' = Append(answers, r)
      BY <3>1 DEF OnFinished
    <3>3. QED
      BY <2>2, <3>1, <3>2 DEF Once
  <2>4. ASSUME NEW r \in Requests, Refuse(r)
        PROVE  Once'
    BY <2>2, <2>4 DEF Refuse, Fresh
  <2>5. CASE UNCHANGED answers
    BY <2>5 DEF Once
  <2>6. QED
    BY <2>3, <2>4, <2>5
       DEF Next, Connect, Authorize, LeaveBluetooth, CloseWebSocket, DeleteConnection,
           Ask, DeleteOperation, StartPart, vars
<1>3. QED
  BY <1>1, <1>2, ServedInductive, PTL DEF LinkInv, Safety

\* The cases of StateOf: the second one does not occur.
LEMMA StateSeen ==
  ASSUME Once, NEW r \in Requests
  PROVE  StateOf(r) = Seen(r)
<1> DEFINE replies == {i \in DOMAIN answers : answers[i] = r}
<1>1. \A i, j \in replies : i = j
  BY DEF Once, IsInjective
<1>2. CASE r \in ToSet(answers)
  <2>1. PICK i \in DOMAIN answers : answers[i] = r
    BY <1>2 DEF ToSet
  <2>2. i \in replies /\ replies = {i}
    BY <1>1, <2>1
  <2>3. QED
    BY <1>1, <1>2, <2>2 DEF StateOf, Seen
<1>3. CASE r \notin ToSet(answers)
  <2>1. replies = {}
    BY <1>3 DEF ToSet
  <2>2. QED
    BY <1>3, <2>1 DEF StateOf, Seen
<1>4. QED
  BY <1>2, <1>3

\* Every step of the gateway is one that RequestReply allows: nobody is
\* answered twice, nor after leaving, nor without having asked.
THEOREM ImplementsRequestReplySafety == Safety => Promise!RRSafety
<1> DEFINE state == [r \in Requests |-> StateOf(r)]
<1>1. LinkInv => SeenRight
  BY StateSeen DEF LinkInv, SeenRight
<1>2. Init => Promise!RRInit
  <2> SUFFICES ASSUME Init
               PROVE  state = [r \in Requests |-> "idle"]
    BY DEF Promise!RRInit
  <2>1. Once /\ \A r \in Requests : Seen(r) = "idle"
    BY DEF Init, Once, IsInjective, Seen, ToSet
  <2>2. QED
    BY <2>1, StateSeen
<1>3. LinkInv /\ SeenRight /\ SeenRight' /\ [Next]_vars => [Promise!RRNext]_state
  <2> SUFFICES ASSUME LinkInv, SeenRight, SeenRight', [Next]_vars
               PROVE  Promise!RRNext \/ state' = state
    OBVIOUS
  <2> DEFINE next == [r \in Requests |-> Seen(r)']
             now == [r \in Requests |-> Seen(r)]
  <2>1. state = now /\ state' = next
    BY DEF SeenRight
  <2>2. TypeOK /\ \A r \in Requests : ClientOf[r] \in Clients
    BY ClientAssumption DEF LinkInv, CountInv
  <2>3. answers \in Seq(Requests)
    BY <2>2 DEF TypeOK
  <2> HIDE DEF state, now, next
  <2>4. ASSUME \A r \in Requests : Seen(r)' = Seen(r)
        PROVE  state' = state
    BY <2>1, <2>4 DEF now, next
  <2>5. ASSUME NEW r \in Requests, NEW view, Seen(r)' = view,
               \A q \in Requests \ {r} : Seen(q)' = Seen(q)
        PROVE  state[r] = Seen(r) /\ state' = [state EXCEPT ![r] = view]
    BY <2>1, <2>5 DEF now, next
  <2>6. ASSUME NEW c \in Clients,
               \A r \in Requests :
                 Seen(r)' = IF ClientOf[r] = c /\ Seen(r) = "asked" THEN "abandoned" ELSE Seen(r)
        PROVE  Promise!Leave(c)
    BY <2>1, <2>6 DEF now, next, Promise!Leave, state
  <2>7. ASSUME NEW c \in Clients, Connect(c) \/ Authorize(c) \/ DeleteConnection(c)
        PROVE  state' = state
    <3>1. UNCHANGED <<object, answers>>
      BY <2>7 DEF Connect, Authorize, DeleteConnection
    <3>2. \A r \in Requests : object[r] # "none" =>
            (session'[ClientOf[r]] = "open" <=> session[ClientOf[r]] = "open")
      BY <2>2, <2>7 DEF LinkInv, Served, TypeOK, Connect, Authorize, DeleteConnection
    <3>3. QED
      BY <2>4, <3>1, <3>2 DEF Seen
  <2>8. ASSUME NEW c \in Clients, LeaveBluetooth(c) \/ CloseWebSocket(c)
        PROVE  Promise!Leave(c)
    <3>1. UNCHANGED <<object, answers>> /\ session[c] = "open" /\ session'[c] # "open"
      BY <2>2, <2>8 DEF LeaveBluetooth, CloseWebSocket, TypeOK
    <3>2. \A d \in Clients \ {c} : session'[d] = session[d]
      BY <2>2, <2>8 DEF LeaveBluetooth, CloseWebSocket, TypeOK
    <3>3. QED
      BY <2>2, <2>6, <3>1, <3>2 DEF Seen
  <2>9. ASSUME NEW r \in Requests, Ask(r)
        PROVE  Promise!Ask(r)
    <3>1. /\ session[ClientOf[r]] = "open" /\ object[r] = "none" /\ r \notin ToSet(answers)
          /\ object' = [object EXCEPT ![r] = "alive"]
          /\ UNCHANGED <<session, answers>>
      BY <2>9 DEF Ask, Fresh
    <3>2. Seen(r) = "idle" /\ Seen(r)' = "asked" /\ \A q \in Requests \ {r} : Seen(q)' = Seen(q)
      BY <2>2, <3>1 DEF Seen, TypeOK
    <3>3. QED
      BY <2>5, <3>2 DEF Promise!Ask, state
  <2>10. ASSUME NEW r \in Requests, Refuse(r)
         PROVE  Promise!Refuse(r)
    <3>1. /\ object[r] = "none" /\ r \notin ToSet(answers)
          /\ answers' = Append(answers, r)
          /\ UNCHANGED <<session, object>>
      BY <2>10 DEF Refuse, Fresh
    <3>2. ToSet(answers') = ToSet(answers) \cup {r}
      BY <2>3, <3>1, ToSetAppend
    <3>3. Seen(r) = "idle" /\ Seen(r)' = "replied" /\ \A q \in Requests \ {r} : Seen(q)' = Seen(q)
      BY <3>1, <3>2 DEF Seen
    <3>4. QED
      BY <2>5, <3>3 DEF Promise!Refuse, state
  <2>11. ASSUME NEW r \in Requests, DeleteOperation(r)
         PROVE  state' = state
    <3>1. object[r] = "releasing" /\ object' = [object EXCEPT ![r] = "deleted"] /\ UNCHANGED <<session, answers>>
      BY <2>11 DEF DeleteOperation
    <3>2. QED
      BY <2>2, <2>4, <3>1 DEF Seen, TypeOK
  <2>12. CASE StartPart
    BY <2>4, <2>12 DEF StartPart, Seen
  <2>13. CASE FinishPart
    <3>1. PICK r \in Requests :
            /\ object[r] = "alive"
            /\ r \notin ToSet(answers)
            /\ IF IsLastPart(r) THEN OnFinished(r) ELSE UNCHANGED <<answers, object>>
            /\ UNCHANGED <<session, protocols>>
      BY <2>13, FinishEffect DEF LinkInv
    <3>2. CASE UNCHANGED <<answers, object>>
      BY <2>4, <3>1, <3>2 DEF Seen
    <3>3. CASE /\ object' = [object EXCEPT ![r] = "releasing"]
               /\ answers' = IF session[ClientOf[r]] = "open" THEN Append(answers, r) ELSE answers
      <4>1. \A q \in Requests : object'[q] = "none" <=> object[q] = "none"
        BY <2>2, <3>1, <3>3 DEF TypeOK
      <4>2. CASE session[ClientOf[r]] = "open"
        <5>1. ToSet(answers') = ToSet(answers) \cup {r}
          BY <2>3, <3>3, <4>2, ToSetAppend
        <5>2. Seen(r) = "asked" /\ Seen(r)' = "replied" /\ \A q \in Requests \ {r} : Seen(q)' = Seen(q)
          BY <3>1, <4>1, <4>2, <5>1 DEF Seen
        <5>3. Promise!Reply(r)
          BY <2>5, <5>2 DEF Promise!Reply, state
        <5>4. QED
          BY <5>3 DEF Promise!RRNext
      <4>3. CASE session[ClientOf[r]] # "open"
        BY <2>4, <3>1, <3>3, <4>1, <4>3 DEF Seen
      <4>4. QED
        BY <4>2, <4>3
    <3>4. QED
      BY <3>1, <3>2, <3>3 DEF OnFinished
  <2>14. CASE UNCHANGED vars
    BY <2>4, <2>14 DEF vars, Seen
  <2>15. QED
    BY <2>7, <2>8, <2>9, <2>10, <2>11, <2>12, <2>13, <2>14 DEF Next, Promise!RRNext
<1>4. QED
  BY <1>1, <1>2, <1>3, OnceInductive, PTL DEF Safety, Promise!RRSafety

=============================================================================
