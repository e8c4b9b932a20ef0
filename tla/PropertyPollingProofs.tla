-------------------------- MODULE PropertyPollingProofs --------------------------
(***************************************************************************)
(* Proofs about PropertyPolling, for every finite set of properties, every *)
(* set of devices and clients, with and without nested executions and      *)
(* without regard to MaxOutstanding.                                       *)
(*                                                                         *)
(* PolledAlive and PolledOnce are one inductive invariant (PollInv):       *)
(* neither is inductive alone.  It rests on one fact about the poll timer: *)
(* what it deletes is not pending, and what it enqueues was not pending    *)
(* and becomes so in the same step.                                        *)
(***************************************************************************)
EXTENDS PropertyPolling, SequenceLemmas, SequenceTheorems, FiniteSetTheorems

\* An enumeration of a finite set is a sequence of its elements without
\* repetition.
LEMMA SetToSeqsProperties ==
  ASSUME NEW S, IsFiniteSet(S), NEW s \in SetToSeqs(S)
  PROVE  /\ s \in Seq(S)
         /\ ToSet(s) = S
         /\ \A x : AtMostOnce(x, s)
<1>1. Cardinality(S) \in Nat
  BY FS_CardinalityType
<1>2. /\ s \in [1..Cardinality(S) -> S]
      /\ \A i, j \in 1..Cardinality(S) : i # j => s[i] # s[j]
  BY DEF SetToSeqs
<1>3. s \in UNION {[1..n -> S] : n \in Nat}
  BY <1>1, <1>2
<1>4. s \in Seq(S)
  BY <1>3, SeqDef
<1>5. ToSet(s) = S
  <2>1. s \in Injection(1..Cardinality(S), S)
    BY <1>2 DEF Injection, IsInjective
  <2>2. Cardinality(1..Cardinality(S)) = Cardinality(S)
    BY <1>1, FS_Interval
  <2>3. s \in Surjection(1..Cardinality(S), S)
    BY <2>1, <2>2, FS_Injection
  <2>4. QED
    BY <1>2, <2>3 DEF Surjection, ToSet
<1>6. \A x : AtMostOnce(x, s)
  BY <1>2 DEF AtMostOnce
<1>7. QED
  BY <1>4, <1>5, <1>6

\* What is in each of two sequences at most once and not in both is in
\* their concatenation at most once.
LEMMA AtMostOnceConcat ==
  ASSUME NEW S, NEW s \in Seq(S), NEW t \in Seq(S), NEW x,
         AtMostOnce(x, s), AtMostOnce(x, t), ~ (x \in ToSet(s) /\ x \in ToSet(t))
  PROVE  AtMostOnce(x, s \o t)
<1> DEFINE c == s \o t
<1>1. /\ DOMAIN c = 1..(Len(s) + Len(t))
      /\ Len(s) \in Nat /\ Len(t) \in Nat
      /\ DOMAIN s = 1..Len(s) /\ DOMAIN t = 1..Len(t)
      /\ \A i \in 1..Len(s) : c[i] = s[i]
      /\ \A i \in (Len(s) + 1)..(Len(s) + Len(t)) : i - Len(s) \in 1..Len(t) /\ c[i] = t[i - Len(s)]
  OBVIOUS
<1>2. \A i \in 1..Len(s), j \in 1..Len(t) : ~ (s[i] = x /\ t[j] = x)
  BY <1>1 DEF ToSet
<1> HIDE DEF c
<1>3. ASSUME NEW i \in DOMAIN c, NEW j \in DOMAIN c, c[i] = x, c[j] = x
      PROVE  i = j
  <2> DEFINE left == 1..Len(s)
             right == (Len(s) + 1)..(Len(s) + Len(t))
  <2>1. CASE i \in left /\ j \in left
    BY <2>1, <1>1, <1>3 DEF AtMostOnce
  <2>2. CASE i \in left /\ j \in right
    BY <2>2, <1>1, <1>2, <1>3
  <2>3. CASE i \in right /\ j \in left
    BY <2>3, <1>1, <1>2, <1>3
  <2>4. CASE i \in right /\ j \in right
    <3>1. i - Len(s) = j - Len(s)
      BY <2>4, <1>1, <1>3 DEF AtMostOnce
    <3>2. QED
      BY <3>1, <2>4, <1>1
  <2>5. QED
    BY <1>1, <2>1, <2>2, <2>3, <2>4
<1>4. QED
  BY <1>3 DEF AtMostOnce, c

\* Only the queue itself may hold the head another time.
LEMMA AtMostOnceTail ==
  ASSUME NEW S, NEW s \in Seq(S), s # <<>>, NEW x, AtMostOnce(x, s)
  PROVE  /\ AtMostOnce(x, Tail(s))
         /\ Head(s) = x => x \notin ToSet(Tail(s))
<1>1. /\ Len(s) > 0
      /\ Head(s) = s[1]
      /\ DOMAIN Tail(s) = 1..(Len(s) - 1)
      /\ \A i \in 1..(Len(s) - 1) : Tail(s)[i] = s[i + 1]
      /\ DOMAIN s = 1..Len(s)
  OBVIOUS
<1>2. AtMostOnce(x, Tail(s))
  BY <1>1 DEF AtMostOnce
<1>3. Head(s) = x => x \notin ToSet(Tail(s))
  BY <1>1 DEF AtMostOnce, ToSet
<1>4. QED
  BY <1>2, <1>3

-----------------------------------------------------------------------------

\* What one tick of the poll timer appends to the queue.
LEMMA TimerAppends ==
  ASSUME TypeOK, TimerEvent
  PROVE  \E polled \in Seq(Operations) :
           /\ queue \o <<Retrieval>> \in Seq(Operations)
           /\ ToSet(queue \o <<Retrieval>>) = ToSet(queue) \cup {Retrieval}
           /\ queue' = (queue \o <<Retrieval>>) \o polled
           /\ queue' \in Seq(Operations)
           /\ ToSet(queue') = ToSet(queue) \cup {Retrieval} \cup ToSet(polled)
           /\ ToSet(polled) = Kept \ pending
           /\ \A p : AtMostOnce(p, polled)
<1> USE PollingAssumption
<1>1. PICK polled \in SetToSeqs(Kept \ pending) : queue' = (queue \o <<Retrieval>>) \o polled
  BY DEF TimerEvent
<1>2. IsFiniteSet(Kept \ pending)
  <2>1. Kept \ pending \subseteq Properties
    BY DEF Kept, TypeOK
  <2>2. QED
    BY <2>1, FS_Subset
<1>3. /\ polled \in Seq(Kept \ pending)
      /\ ToSet(polled) = Kept \ pending
      /\ \A p : AtMostOnce(p, polled)
  BY <1>2, SetToSeqsProperties
<1>4. Kept \ pending \subseteq Operations
  BY DEF Kept, TypeOK, Operations
<1>5. polled \in Seq(Operations)
  BY <1>3, <1>4, SeqMonotonic
<1>6. queue \in Seq(Operations) /\ Retrieval \in Operations
  BY DEF TypeOK, Operations
<1> DEFINE one == <<Retrieval>>
<1>7. one \in Seq(Operations) /\ ToSet(one) = {Retrieval}
  BY <1>6, ToSetOne
<1> HIDE DEF one
<1> DEFINE longer == queue \o one
<1>8. /\ longer \in Seq(Operations)
      /\ ToSet(longer) = ToSet(queue) \cup {Retrieval}
  BY <1>6, <1>7, ToSetConcat
<1> HIDE DEF longer
<1>9. /\ longer \o polled \in Seq(Operations)
      /\ ToSet(longer \o polled) = ToSet(queue) \cup {Retrieval} \cup ToSet(polled)
  BY <1>5, <1>8, ToSetConcat
<1>10. QED
  BY <1>1, <1>3, <1>5, <1>8, <1>9 DEF one, longer

\* Type correctness of subscriptions, queue and stack.
THEOREM PollingTypeCorrect == Safety => []TypeOK
<1> USE PollingAssumption
<1>1. Init => TypeOK
  BY DEF Init, TypeOK
<1>2. TypeOK /\ [Next]_vars => TypeOK'
  <2> SUFFICES ASSUME TypeOK, [Next]_vars
               PROVE  TypeOK'
    OBVIOUS
  <2>1. ASSUME NEW s \in Subscribers, Connect(s)
        PROVE  TypeOK'
    BY <2>1 DEF TypeOK, Connect
  <2>2. ASSUME NEW s \in Subscribers, NEW p \in Properties, Subscribe(s, p)
        PROVE  TypeOK'
    BY <2>2 DEF TypeOK, Subscribe
  <2>3. ASSUME NEW s \in Subscribers, NEW p \in Properties, Unsubscribe(s, p)
        PROVE  TypeOK'
    BY <2>3 DEF TypeOK, Unsubscribe
  <2>4. ASSUME NEW s \in Subscribers, Disconnect(s)
        PROVE  TypeOK'
    BY <2>4 DEF TypeOK, Disconnect, UnsubscribeFromAll
  <2>5. CASE EnumerateDevices
    <3>1. queue' \in Seq(Operations)
      BY <2>5 DEF TypeOK, EnumerateDevices, Operations
    <3>2. QED
      BY <2>5, <3>1 DEF TypeOK, EnumerateDevices, clientVars
  <2>6. CASE TimerEvent
    <3>1. queue' \in Seq(Operations)
      BY <2>6, TimerAppends
    <3>2. QED
      BY <2>6, <3>1 DEF TypeOK, TimerEvent, Kept
  <2>7. CASE StartOperation
    <3> DEFINE h == Head(queue)
    <3>1. h \in Operations /\ queue' \in Seq(Operations)
      BY <2>7, ToSetHeadTail DEF TypeOK, StartOperation
    <3>2. stack' \in Seq(Operations)
      <4>1. stack \in Seq(Operations) /\ (stack' = stack \/ stack' = <<h>> \o stack)
        BY <2>7 DEF TypeOK, StartOperation
      <4> HIDE DEF h
      <4>2. <<h>> \o stack \in Seq(Operations)
        BY <3>1, <4>1, ToSetPush
      <4>3. QED
        BY <4>1, <4>2
    <3>3. QED
      BY <2>7, <3>1, <3>2 DEF TypeOK, StartOperation, clientVars
  <2>8. ASSUME NEW p \in Properties, FinishSubscription(p)
        PROVE  TypeOK'
    <3>1. stack' \in Seq(Operations)
      BY <2>8, ToSetHeadTail DEF TypeOK, FinishSubscription
    <3>2. QED
      BY <2>8, <3>1 DEF TypeOK, FinishSubscription
  <2>9. CASE FinishRetrieval
    <3>1. stack' \in Seq(Operations)
      BY <2>9, ToSetHeadTail DEF TypeOK, FinishRetrieval
    <3>2. QED
      BY <2>9, <3>1 DEF TypeOK, FinishRetrieval, clientVars
  <2>10. CASE FinishEnumeration
    <3>1. stack' \in Seq(Operations)
      BY <2>10, ToSetHeadTail DEF TypeOK, FinishEnumeration
    <3>2. QED
      BY <2>10, <3>1 DEF TypeOK, FinishEnumeration, clientVars
  <2>11. CASE UNCHANGED vars
    BY <2>11 DEF TypeOK, vars, clientVars
  <2>12. QED
    BY <2>1, <2>2, <2>3, <2>4, <2>5, <2>6, <2>7, <2>8, <2>9, <2>10, <2>11 DEF Next, Client, Finish
<1>3. QED
  BY <1>1, <1>2, PTL DEF Safety

-----------------------------------------------------------------------------

\* Pending_ covers what is queued or executing, once each.
PollInv == TypeOK /\ PolledAlive /\ PolledOnce

\* The two properties need each other: a finished subscription is not
\* queued elsewhere (PolledOnce), so clearing pending_ is right, and what is
\* not pending is not queued (PolledAlive), so enqueueing it is right.
LEMMA PollInductive == Safety => []PollInv
<1> USE PollingAssumption
<1>1. Init => PolledAlive /\ PolledOnce
  BY DEF Init, PolledAlive, PolledOnce, Polled, AtMostOnce, ToSet
<1>2. TypeOK /\ TypeOK' /\ PolledAlive /\ PolledOnce /\ [Next]_vars => PolledAlive' /\ PolledOnce'
  <2> SUFFICES ASSUME TypeOK, TypeOK', PolledAlive, PolledOnce, [Next]_vars
               PROVE  PolledAlive' /\ PolledOnce'
    OBVIOUS
  <2>0. /\ queue \in Seq(Operations) /\ stack \in Seq(Operations)
        /\ queue' \in Seq(Operations) /\ stack' \in Seq(Operations)
    BY DEF TypeOK
  <2>1. ASSUME NEW s \in Subscribers, Connect(s) \/ Disconnect(s)
        PROVE  PolledAlive' /\ PolledOnce'
    BY <2>1 DEF Connect, Disconnect, PolledAlive, PolledOnce, Polled
  <2>2. ASSUME NEW s \in Subscribers, NEW p \in Properties, Subscribe(s, p) \/ Unsubscribe(s, p)
        PROVE  PolledAlive' /\ PolledOnce'
    BY <2>2 DEF Subscribe, Unsubscribe, PolledAlive, PolledOnce, Polled
  <2>3. CASE EnumerateDevices
    <3>1. /\ Enumeration \in Operations
          /\ queue' = Append(queue, Enumeration)
          /\ stack' = stack /\ subscriptions' = subscriptions /\ pending' = pending
      BY <2>3 DEF EnumerateDevices, clientVars, Operations
    <3>2. ToSet(queue') = ToSet(queue) \cup {Enumeration}
      BY <2>0, <3>1, ToSetAppend
    <3>3. PolledAlive'
      BY <3>1, <3>2 DEF PolledAlive, Polled
    <3>4. /\ DOMAIN queue' = 1..(Len(queue) + 1) /\ DOMAIN queue = 1..Len(queue)
          /\ \A i \in DOMAIN queue : queue'[i] = queue[i]
          /\ queue'[Len(queue) + 1] = Enumeration
      BY <2>0, <3>1
    <3>5. \A p \in Properties : AtMostOnce(p, queue) => AtMostOnce(p, queue')
      BY <3>4, <2>0, SMTT(30) DEF AtMostOnce
    <3>6. QED
      BY <3>1, <3>2, <3>3, <3>5 DEF PolledOnce
  <2>4. CASE TimerEvent
    <3>1. PICK polled \in Seq(Operations) :
           /\ queue \o <<Retrieval>> \in Seq(Operations)
           /\ ToSet(queue \o <<Retrieval>>) = ToSet(queue) \cup {Retrieval}
           /\ queue' = (queue \o <<Retrieval>>) \o polled
           /\ queue' \in Seq(Operations)
           /\ ToSet(queue') = ToSet(queue) \cup {Retrieval} \cup ToSet(polled)
           /\ ToSet(polled) = Kept \ pending
           /\ \A p : AtMostOnce(p, polled)
      BY <2>4, TimerAppends
    <3>2. stack' = stack /\ subscriptions' = Kept /\ pending' = Kept
      BY <2>4 DEF TimerEvent
    <3>3. Polled \subseteq Kept
      BY DEF PolledAlive, Kept
    <3>4. PolledAlive'
      BY <3>1, <3>2, <3>3 DEF PolledAlive, Polled
    <3>5. ToSet(polled) \cap Polled = {}
      BY <3>1 DEF PolledAlive
    <3>6. ASSUME NEW p \in Properties
          PROVE  /\ AtMostOnce(p, queue')
                 /\ AtMostOnce(p, stack')
                 /\ ~ (p \in ToSet(queue') /\ p \in ToSet(stack'))
      <4>1. <<Retrieval>> \in Seq(Operations) /\ AtMostOnce(p, <<Retrieval>>) /\ p \notin ToSet(<<Retrieval>>)
        BY DEF Operations, AtMostOnce, ToSet
      <4>2. AtMostOnce(p, queue \o <<Retrieval>>)
        BY <2>0, <4>1, AtMostOnceConcat DEF PolledOnce
      <4>3. ~ (p \in ToSet(queue \o <<Retrieval>>) /\ p \in ToSet(polled))
        BY <3>1, <3>5 DEF Polled
      <4>4. AtMostOnce(p, queue')
        BY <3>1, <4>2, <4>3, AtMostOnceConcat
      <4>5. QED
        BY <3>1, <3>2, <3>5, <4>4 DEF PolledOnce, Polled
    <3>7. QED
      BY <3>4, <3>6 DEF PolledOnce
  <2>5. CASE StartOperation
    <3> DEFINE h == Head(queue)
    <3>1. /\ queue # <<>> /\ queue' = Tail(queue)
          /\ stack' = stack \/ stack' = <<h>> \o stack
          /\ subscriptions' = subscriptions /\ pending' = pending
      BY <2>5 DEF StartOperation, clientVars
    <3>2. ToSet(queue) = ToSet(queue') \cup {h} /\ h \in Operations
      BY <2>0, <3>1, ToSetHeadTail
    <3>3. <<h>> \in Seq(Operations) /\ ToSet(<<h>>) = {h}
      BY <3>2, ToSetOne
    <3>4. ToSet(stack') \subseteq ToSet(stack) \cup {h}
      BY <2>0, <3>1, <3>3, ToSetConcat, ZenonT(30)
    <3> HIDE DEF h
    <3>5. PolledAlive'
      BY <3>1, <3>2, <3>4 DEF PolledAlive, Polled
    <3>6. ASSUME NEW p \in Properties
          PROVE  /\ AtMostOnce(p, queue')
                 /\ AtMostOnce(p, stack')
                 /\ ~ (p \in ToSet(queue') /\ p \in ToSet(stack'))
      <4>1. AtMostOnce(p, queue') /\ (h = p => p \notin ToSet(queue'))
        BY <2>0, <3>1, AtMostOnceTail DEF PolledOnce, h
      <4>2. AtMostOnce(p, <<h>>)
        BY DEF AtMostOnce
      <4>3. ~ (p \in ToSet(<<h>>) /\ p \in ToSet(stack))
        BY <3>2, <3>3 DEF PolledOnce
      <4>4. AtMostOnce(p, <<h>> \o stack)
        BY <2>0, <3>3, <4>2, <4>3, AtMostOnceConcat DEF PolledOnce
      <4>5. QED
        BY <3>1, <3>2, <3>4, <4>1, <4>4 DEF PolledOnce
    <3>7. QED
      BY <3>5, <3>6 DEF PolledOnce
  <2>6. ASSUME stack # <<>>, stack' = Tail(stack), queue' = queue, subscriptions' = subscriptions,
               pending' = pending \ {Head(stack)} \/ (pending' = pending /\ Head(stack) \notin Properties)
        PROVE  PolledAlive' /\ PolledOnce'
    <3>1. ToSet(stack) = ToSet(stack') \cup {Head(stack)}
      BY <2>0, <2>6, ToSetHeadTail
    <3>2. \A p \in Properties : AtMostOnce(p, stack') /\ (Head(stack) = p => p \notin ToSet(stack'))
      BY <2>0, <2>6, AtMostOnceTail DEF PolledOnce
    <3>3. PolledOnce'
      BY <2>6, <3>1, <3>2 DEF PolledOnce
    <3>4. \A p \in Properties : Head(stack) = p => p \notin ToSet(queue)
      BY <3>1 DEF PolledOnce
    <3>5. PolledAlive'
      BY <2>6, <3>1, <3>2, <3>4 DEF PolledAlive, Polled
    <3>6. QED
      BY <3>3, <3>5
  <2>7. ASSUME NEW p \in Properties, FinishSubscription(p)
        PROVE  PolledAlive' /\ PolledOnce'
    BY <2>6, <2>7 DEF FinishSubscription
  <2>8. CASE FinishRetrieval \/ FinishEnumeration
    BY <2>6, <2>8 DEF FinishRetrieval, FinishEnumeration, clientVars
  <2>9. CASE UNCHANGED vars
    BY <2>9 DEF vars, clientVars, PolledAlive, PolledOnce, Polled
  <2>10. QED
    BY <2>1, <2>2, <2>3, <2>4, <2>5, <2>7, <2>8, <2>9 DEF Next, Client, Finish
<1>3. QED
  BY <1>1, <1>2, PollingTypeCorrect, PTL DEF Safety, PollInv

\* No queued or executing subscription object is ever deleted: the poll
\* timer's deletion is safe for every interleaving of polls and executions.
THEOREM PolledSubscriptionsAlive == Safety => []PolledAlive
BY PollInductive, PTL DEF PollInv

\* A subscription is outstanding at most once, whatever the poll interval.
THEOREM SubscriptionsPolledOnce == Safety => []PolledOnce
BY PollInductive, PTL DEF PollInv

-----------------------------------------------------------------------------

\* Subscribers are kept by existing objects only, so the loop over the
\* subscriptions reaches every one of them.
SubscribersInv ==
  /\ SubscribersAlive
  /\ \A p \in Properties : subscribers[p] # {} => p \in subscriptions

\* A subscription never keeps the protocol object of a client that has gone.
THEOREM SubscribersStayAlive == Safety => []SubscribersAlive
<1>1. Init => SubscribersInv
  BY DEF Init, SubscribersInv, SubscribersAlive
<1>2. TypeOK /\ SubscribersInv /\ [Next]_vars => SubscribersInv'
  <2> SUFFICES ASSUME TypeOK, SubscribersInv, [Next]_vars
               PROVE  SubscribersInv'
    OBVIOUS
  <2> USE DEF SubscribersInv, SubscribersAlive
  <2>1. ASSUME NEW s \in Subscribers, Connect(s)
        PROVE  SubscribersInv'
    BY <2>1 DEF Connect
  <2>2. ASSUME NEW s \in Subscribers, Disconnect(s)
        PROVE  SubscribersInv'
    BY <2>2 DEF Disconnect, UnsubscribeFromAll, TypeOK
  <2>3. ASSUME NEW s \in Subscribers, NEW p \in Properties, Subscribe(s, p)
        PROVE  SubscribersInv'
    BY <2>3 DEF Subscribe, TypeOK
  <2>4. ASSUME NEW s \in Subscribers, NEW p \in Properties, Unsubscribe(s, p)
        PROVE  SubscribersInv'
    BY <2>4 DEF Unsubscribe, TypeOK
  <2>5. CASE TimerEvent
    BY <2>5 DEF TimerEvent, Kept
  <2>6. CASE EnumerateDevices \/ StartOperation \/ FinishRetrieval \/ FinishEnumeration
    BY <2>6 DEF EnumerateDevices, StartOperation, FinishRetrieval, FinishEnumeration, clientVars
  <2>7. ASSUME NEW p \in Properties, FinishSubscription(p)
        PROVE  SubscribersInv'
    BY <2>7 DEF FinishSubscription
  <2>8. CASE UNCHANGED vars
    BY <2>8 DEF vars, clientVars
  <2>9. QED
    BY <2>1, <2>2, <2>3, <2>4, <2>5, <2>6, <2>7, <2>8 DEF Next, Client, Finish
<1>3. QED
  BY <1>1, <1>2, PollingTypeCorrect, PTL DEF Safety, SubscribersInv

-----------------------------------------------------------------------------

\* No other step leaves a subscription pending with nothing outstanding: the
\* timer enqueues all that it marks, and a read that returns clears its mark.
THEOREM OnlyAbsentDevicesStrand == Safety => StrandedOnlyByAbsentDevice
<1> USE PollingAssumption
<1>1. ASSUME TypeOK, Next, NEW p \in Properties, ~Stuck(p), Stuck(p)'
      PROVE  DeviceOf[p] \notin present /\ Head(queue) = p
  <2>0. /\ queue \in Seq(Operations) /\ stack \in Seq(Operations)
        /\ p \in pending => p \in ToSet(queue) \/ p \in ToSet(stack)
        /\ p \in pending' /\ p \notin ToSet(queue') /\ p \notin ToSet(stack')
    BY <1>1 DEF TypeOK, Stuck, Polled
  <2>1. CASE UNCHANGED <<pending, queue, stack>>
    BY <2>0, <2>1
  <2>2. CASE EnumerateDevices
    <3>1. /\ Enumeration \in Operations
          /\ queue' = Append(queue, Enumeration)
          /\ stack' = stack /\ pending' = pending
      BY <2>2 DEF EnumerateDevices, clientVars, Operations
    <3>2. ToSet(queue') = ToSet(queue) \cup {Enumeration}
      BY <2>0, <3>1, ToSetAppend
    <3>3. QED
      BY <2>0, <3>1, <3>2
  <2>3. CASE TimerEvent
    <3>1. ToSet(queue') = ToSet(queue) \cup {Retrieval} \cup (Kept \ pending)
      BY <1>1, <2>3, TimerAppends
    <3>2. stack' = stack /\ pending' = Kept
      BY <2>3 DEF TimerEvent
    <3>3. QED
      BY <2>0, <3>1, <3>2
  <2>4. CASE StartOperation
    <3> DEFINE h == Head(queue)
    <3>1. /\ queue # <<>> /\ queue' = Tail(queue) /\ pending' = pending
          /\ stack' = stack \/ stack' = <<h>> \o stack
          /\ (h \in Properties /\ DeviceOf[h] \notin present) \/ stack' = <<h>> \o stack
      BY <2>4 DEF StartOperation, clientVars
    <3>2. ToSet(queue) = ToSet(queue') \cup {h} /\ h \in Operations
      BY <2>0, <3>1, ToSetHeadTail
    <3> HIDE DEF h
    <3>3. ToSet(<<h>> \o stack) = ToSet(stack) \cup {h}
      BY <2>0, <3>2, ToSetPush
    <3>4. p = h
      BY <2>0, <3>1, <3>2, <3>3
    <3>5. QED
      BY <2>0, <3>1, <3>3, <3>4 DEF h
  <2>5. ASSUME stack # <<>>, stack' = Tail(stack), queue' = queue,
               pending' = pending \ {Head(stack)} \/ (pending' = pending /\ Head(stack) \notin Properties)
        PROVE  FALSE
    <3>1. ToSet(stack) = ToSet(stack') \cup {Head(stack)}
      BY <2>0, <2>5, ToSetHeadTail
    <3>2. QED
      BY <2>0, <2>5, <3>1
  <2>6. CASE Finish
    BY <2>5, <2>6 DEF Finish, FinishSubscription, FinishRetrieval, FinishEnumeration, clientVars
  <2>7. CASE \/ \E s \in Subscribers : Connect(s) \/ Disconnect(s)
             \/ \E s \in Subscribers, q \in Properties : Subscribe(s, q) \/ Unsubscribe(s, q)
    BY <2>1, <2>7 DEF Connect, Disconnect, Subscribe, Unsubscribe
  <2>8. QED
    BY <1>1, <2>2, <2>3, <2>4, <2>6, <2>7 DEF Next, Client
<1>2. TypeOK /\ [Next]_vars =>
        [\A p \in Properties : ~Stuck(p) /\ Stuck(p)' => DeviceOf[p] \notin present /\ Head(queue) = p]_vars
  BY <1>1
<1>3. QED
  BY <1>2, PollingTypeCorrect, PTL DEF Safety, StrandedOnlyByAbsentDevice

=============================================================================
