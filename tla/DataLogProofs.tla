--------------------------- MODULE DataLogProofs ---------------------------
(***************************************************************************)
(* Theorems about DataLog, for every configuration and every set of        *)
(* devices, and about DataLogConfiguration, for files of any length.       *)
(***************************************************************************)
EXTENDS DataLog, DataLogConfiguration, SequenceTheorems, FiniteSetTheorems, TLAPS

Results == Outcomes \cup {"absent"}

\* A number of matching wildcards is a number.
LEMMA MatchesType ==
  ASSUME NEW g \in Groups, NEW id \in Ids
  PROVE  Matches(g, id) \in Nat
<1>1. Wildcards[g] \subseteq AllWildcards
  BY DataLogAssumption
<1>2. IsFiniteSet({w \in Wildcards[g] : id \in Matched[w]})
  BY <1>1, DataLogAssumption, FS_Subset
<1>3. QED
  BY <1>2, FS_CardinalityType DEF Matches

\* Adding to the batches of a group, and taking one away.
LEMMA BatchesGrow ==
  ASSUME TypeOK, NEW g \in Groups
  PROVE  /\ Append(batches[g], NewBatch(g)) \in Seq([Ids -> Results])
         /\ Len(Append(batches[g], NewBatch(g))) = Len(batches[g]) + 1
<1>1. NewBatch(g) \in [Ids -> Results]
  BY DEF NewBatch, Results, Outcomes
<1>2. batches[g] \in Seq([Ids -> Results])
  BY DEF TypeOK, Results
<1>3. QED
  BY <1>1, <1>2, AppendProperties

LEMMA BatchesShrink ==
  ASSUME TypeOK, NEW g \in Groups, NEW i \in DOMAIN batches[g]
  PROVE  LET rest == SubSeq(batches[g], 1, i - 1) \o SubSeq(batches[g], i + 1, Len(batches[g])) IN
         rest \in Seq([Ids -> Results]) /\ Len(rest) = Len(batches[g]) - 1
<1>1. batches[g] \in Seq([Ids -> Results])
  BY DEF TypeOK, Results
<1>2. Len(batches[g]) \in Nat /\ i \in 1..Len(batches[g])
  BY <1>1, LenProperties
<1>3. /\ SubSeq(batches[g], 1, i - 1) \in Seq([Ids -> Results])
      /\ Len(SubSeq(batches[g], 1, i - 1)) = i - 1
  <2>1. \A k \in 1..(i - 1) : batches[g][k] \in [Ids -> Results]
    BY <1>1, <1>2, ElementOfSeq
  <2>2. QED
    BY <1>1, <1>2, <2>1, SubSeqProperties
<1>4. /\ SubSeq(batches[g], i + 1, Len(batches[g])) \in Seq([Ids -> Results])
      /\ Len(SubSeq(batches[g], i + 1, Len(batches[g]))) = Len(batches[g]) - i
  <2>1. \A k \in (i + 1)..Len(batches[g]) : batches[g][k] \in [Ids -> Results]
    BY <1>1, <1>2, ElementOfSeq
  <2>2. QED
    BY <1>1, <1>2, <2>1, SubSeqProperties
<1> DEFINE front == SubSeq(batches[g], 1, i - 1)
           back  == SubSeq(batches[g], i + 1, Len(batches[g]))
<1> HIDE DEF front, back
<1>5. front \o back \in Seq([Ids -> Results]) /\ Len(front \o back) = Len(front) + Len(back)
  BY <1>3, <1>4, ConcatProperties DEF front, back
<1>6. Len(front) + Len(back) = Len(batches[g]) - 1
  BY <1>2, <1>3, <1>4, SMTT(30) DEF front, back
<1>7. QED
  BY <1>5, <1>6 DEF front, back

-----------------------------------------------------------------------------

\* Type correctness of the data log.
THEOREM DataLogTypeCorrect == Safety => []TypeOK
<1>1. Init => TypeOK
  <2> SUFFICES ASSUME Init
               PROVE  TypeOK
    OBVIOUS
  <2>1. batches \in [Groups -> Seq([Ids -> Outcomes \cup {"absent"}])]
    BY EmptySeq DEF Init
  <2>2. propertyIDs \in [Groups -> [Ids -> Nat]]
    BY DEF Init
  <2>3. QED
    BY <2>1, <2>2 DEF Init, TypeOK
<1>2. TypeOK /\ [Next]_vars => TypeOK'
  <2> SUFFICES ASSUME TypeOK, [Next]_vars
               PROVE  TypeOK'
    OBVIOUS
  <2>1. CASE StartPropertyPolling
    BY <2>1 DEF TypeOK, StartPropertyPolling
  <2>2. CASE StopPropertyPolling
    BY <2>2 DEF TypeOK, StopPropertyPolling
  <2>3. ASSUME NEW d \in Devices, OnDeviceAdded(d)
        PROVE  TypeOK'
    <3>1. \A g \in Groups : AddWildcardProperties(g, d) \in [Ids -> Nat]
      BY MatchesType DEF AddWildcardProperties, TypeOK
    <3>2. propertyIDs' \in [Groups -> [Ids -> Nat]]
      BY <2>3, <3>1 DEF OnDeviceAdded
    <3>3. QED
      BY <2>3, <3>2 DEF OnDeviceAdded, TypeOK
  <2>4. ASSUME NEW d \in Devices, OnDeviceRemoved(d)
        PROVE  TypeOK'
    <3>1. \A g \in Groups : RemoveWildcardProperties(g, d) \in [Ids -> Nat]
      BY DEF RemoveWildcardProperties, TypeOK
    <3>2. propertyIDs' \in [Groups -> [Ids -> Nat]]
      BY <2>4, <3>1 DEF OnDeviceRemoved
    <3>3. QED
      BY <2>4, <3>2 DEF OnDeviceRemoved, TypeOK
  <2>5. ASSUME NEW g \in Groups, OnTimeout(g)
        PROVE  TypeOK'
    <3>1. batches' \in [Groups -> Seq([Ids -> Results])]
      <4>1. batches \in [Groups -> Seq([Ids -> Results])]
        BY DEF TypeOK, Results
      <4>2. batches' = batches \/ batches' = [batches EXCEPT ![g] = Append(@, NewBatch(g))]
        BY <2>5 DEF OnTimeout
      <4>3. QED
        BY <4>1, <4>2, BatchesGrow
    <3>2. QED
      BY <2>5, <3>1 DEF OnTimeout, TypeOK, Results
  <2>6. ASSUME NEW g \in Groups, NEW i \in 1..MaxBatches, OnFinished(g, i)
        PROVE  TypeOK'
    <3>1. batches' \in [Groups -> Seq([Ids -> Results])]
      BY <2>6, BatchesShrink DEF OnFinished, TypeOK, Results
    <3>2. QED
      BY <2>6, <3>1 DEF OnFinished, TypeOK, Results
  <2>7. ASSUME NEW g \in Groups, NEW i \in 1..MaxBatches, NEW id \in Ids, ReadPart(g, i, id)
        PROVE  TypeOK'
    <3>1. PICK result \in {"value", "null"} : batches' = [batches EXCEPT ![g][i][id] = result]
      BY <2>7 DEF ReadPart
    <3>2. batches[g] \in Seq([Ids -> Results]) /\ i \in DOMAIN batches[g]
      BY <2>7 DEF ReadPart, TypeOK, Results
    <3>3. batches[g][i] \in [Ids -> Results] /\ result \in Results
      BY <3>2, ElementOfSeq DEF Results, Outcomes
    <3>4. [batches[g][i] EXCEPT ![id] = result] \in [Ids -> Results]
      BY <3>3
    <3>5. [batches[g] EXCEPT ![i] = [batches[g][i] EXCEPT ![id] = result]] \in Seq([Ids -> Results])
      BY <3>2, <3>4, ExceptSeq
    <3>6. batches' = [batches EXCEPT ![g] = [batches[g] EXCEPT ![i] = [batches[g][i] EXCEPT ![id] = result]]]
      BY <3>1
    <3>7. batches' \in [Groups -> Seq([Ids -> Results])]
      BY <3>5, <3>6 DEF TypeOK, Results
    <3>8. QED
      BY <2>7, <3>7 DEF ReadPart, TypeOK, Results
  <2>8. CASE UNCHANGED vars
    BY <2>8 DEF vars, TypeOK
  <2>9. QED
    BY <2>1, <2>2, <2>3, <2>4, <2>5, <2>6, <2>7, <2>8 DEF Next
<1>3. QED
  BY <1>1, <1>2, PTL DEF Safety

-----------------------------------------------------------------------------

\* What a step does to the number of batches of a group.
LEMMA BatchCounts ==
  ASSUME TypeOK, [Next]_vars, NEW g \in Groups
  PROVE  \/ Len(batches'[g]) = Len(batches[g])
         \/ OnTimeout(g) /\ g \in active /\ g \notin armed' /\ Len(batches'[g]) = Len(batches[g]) + 1
         \/ /\ \E i \in 1..MaxBatches : OnFinished(g, i)
            /\ Len(batches[g]) > 0 /\ Len(batches'[g]) = Len(batches[g]) - 1
<1>1. batches \in [Groups -> Seq([Ids -> Results])] /\ Len(batches[g]) \in Nat
  BY LenProperties DEF TypeOK, Results
<1>2. CASE UNCHANGED batches
  BY <1>2
<1>3. ASSUME NEW h \in Groups, OnTimeout(h), batches' # batches
      PROVE  \/ Len(batches'[g]) = Len(batches[g])
             \/ OnTimeout(g) /\ g \in active /\ g \notin armed' /\ Len(batches'[g]) = Len(batches[g]) + 1
  <2>1. /\ batches' = [batches EXCEPT ![h] = Append(@, NewBatch(h))]
        /\ armed' = armed \ {h} /\ h \in active
    BY <1>3 DEF OnTimeout
  <2>2. CASE h = g
    BY <1>1, <1>3, <2>1, <2>2, BatchesGrow
  <2>3. CASE h # g
    BY <1>1, <2>1, <2>3
  <2>4. QED
    BY <2>2, <2>3
<1>4. ASSUME NEW h \in Groups, NEW i \in 1..MaxBatches, OnFinished(h, i)
      PROVE  \/ Len(batches'[g]) = Len(batches[g])
             \/ h = g /\ Len(batches[g]) > 0 /\ Len(batches'[g]) = Len(batches[g]) - 1
  <2>1. i \in DOMAIN batches[h]
    BY <1>4 DEF OnFinished
  <2>2. CASE h = g
    <3>1. Len(batches'[g]) = Len(batches[g]) - 1
      BY <1>1, <1>4, <2>1, <2>2, BatchesShrink DEF OnFinished
    <3>2. Len(batches[g]) > 0
      BY <1>1, <2>1, <2>2, LenProperties
    <3>3. QED
      BY <2>2, <3>1, <3>2
  <2>3. CASE h # g
    BY <1>1, <1>4, <2>3 DEF OnFinished
  <2>4. QED
    BY <2>2, <2>3
<1>5. ASSUME NEW h \in Groups, NEW i \in 1..MaxBatches, NEW id \in Ids, ReadPart(h, i, id)
      PROVE  Len(batches'[g]) = Len(batches[g])
  <2>1. PICK result : batches' = [batches EXCEPT ![h][i][id] = result]
    BY <1>5 DEF ReadPart
  <2>2. CASE h = g
    <3>1. batches'[g] = [batches[g] EXCEPT ![i] = [batches[g][i] EXCEPT ![id] = result]]
      BY <1>1, <2>1, <2>2
    <3>2. batches[g] \in Seq([Ids -> Results]) /\ i \in 1..Len(batches[g])
      BY <1>1, <1>5, <2>2, LenProperties DEF ReadPart
    <3>3. DOMAIN batches'[g] = DOMAIN batches[g]
      BY <3>1
    <3>4. batches[g][i] \in [Ids -> Results] /\ result \in Results
      <4>1. batches[g][i] \in [Ids -> Results]
        BY <3>2, ElementOfSeq
      <4>2. PICK o \in {"value", "null"} : batches' = [batches EXCEPT ![h][i][id] = o]
        BY <1>5 DEF ReadPart
      <4>3. batches'[g][i][id] = o /\ batches'[g][i][id] = result
        BY <1>1, <2>1, <2>2, <3>2, <4>1, <4>2
      <4>4. QED
        BY <4>1, <4>2, <4>3 DEF Results, Outcomes
    <3>5. batches'[g] \in Seq([Ids -> Results])
      BY <3>1, <3>2, <3>4, ExceptSeq
    <3>6. QED
      BY <3>2, <3>3, <3>5, LenProperties
  <2>3. CASE h # g
    BY <1>1, <2>1, <2>3
  <2>4. QED
    BY <2>2, <2>3
<1>6. CASE StartPropertyPolling \/ StopPropertyPolling
  BY <1>2, <1>6 DEF StartPropertyPolling, StopPropertyPolling
<1>7. ASSUME NEW d \in Devices, OnDeviceAdded(d) \/ OnDeviceRemoved(d)
      PROVE  UNCHANGED batches
  BY <1>7 DEF OnDeviceAdded, OnDeviceRemoved
<1>8. QED
  BY <1>2, <1>3, <1>4, <1>5, <1>6, <1>7 DEF Next, vars

-----------------------------------------------------------------------------

\* Logging never comes to a halt.
THEOREM GroupsNeverIdle == Safety => []NeverIdle
<1>1. Init => NeverIdle
  BY DEF Init, NeverIdle
<1>2. TypeOK /\ NeverIdle /\ [Next]_vars => NeverIdle'
  <2> SUFFICES ASSUME TypeOK, NeverIdle, [Next]_vars, NEW g \in active'
               PROVE  g \in armed' \/ batches'[g] # <<>>
    BY DEF NeverIdle
  <2> DEFINE Idle == g \notin armed' /\ batches'[g] = <<>>
  <2>1. g \in Groups /\ batches[g] \in Seq([Ids -> Results])
    BY DEF TypeOK, Results, Next, vars, StartPropertyPolling, StopPropertyPolling, OnDeviceAdded,
           OnDeviceRemoved, OnTimeout, OnFinished, ReadPart
  <2>2. CASE StartPropertyPolling
    BY <2>1, <2>2 DEF StartPropertyPolling, NeverIdle
  <2>3. CASE StopPropertyPolling
    BY <2>3 DEF StopPropertyPolling
  <2>4. ASSUME NEW h \in Groups, OnTimeout(h)
        PROVE  ~Idle
    <3>1. g \in active
      BY <2>4 DEF OnTimeout
    <3>2. CASE h = g
      <4>1. CASE Listed(g) # {}
        <5>1. batches'[g] = Append(batches[g], NewBatch(g))
          BY <2>1, <2>4, <3>1, <3>2, <4>1 DEF OnTimeout, TypeOK
        <5>2. Append(batches[g], NewBatch(g)) # <<>>
          BY <2>1, BatchesGrow, LenProperties, EmptySeq
        <5>3. QED
          BY <5>1, <5>2
      <4>2. CASE Listed(g) = {}
        BY <2>4, <3>1, <3>2, <4>2 DEF OnTimeout
      <4>3. QED
        BY <4>1, <4>2
    <3>3. CASE h # g
      <4>1. g \in armed => g \in armed'
        BY <2>4, <3>3 DEF OnTimeout
      <4>2. batches'[g] = batches[g]
        BY <2>1, <2>4, <3>3 DEF OnTimeout, TypeOK
      <4>3. QED
        BY <3>1, <4>1, <4>2 DEF NeverIdle
    <3>4. QED
      BY <3>2, <3>3
  <2>5. ASSUME NEW h \in Groups, NEW i \in 1..MaxBatches, OnFinished(h, i)
        PROVE  ~Idle
    BY <2>1, <2>5 DEF OnFinished, NeverIdle, TypeOK
  <2>6. ASSUME NEW h \in Groups, NEW i \in 1..MaxBatches, NEW id \in Ids, ReadPart(h, i, id)
        PROVE  ~Idle
    <3>1. Len(batches'[g]) = Len(batches[g])
      <4>1. ~OnTimeout(g) \/ g \in armed'
        BY <2>6 DEF ReadPart, OnTimeout
      <4>2. \A k \in 1..MaxBatches : ~OnFinished(g, k) \/ Len(batches'[g]) = Len(batches[g])
        <5>1. SUFFICES ASSUME NEW k \in 1..MaxBatches, OnFinished(g, k)
                       PROVE  FALSE
          OBVIOUS
        <5>2. h = g /\ i # k
          BY <2>1, <2>6, <5>1 DEF ReadPart, OnFinished, Complete, TypeOK
        <5>3. QED
          BY <2>1, <2>6, <5>1, <5>2 DEF ReadPart, OnFinished, Complete, TypeOK
      <4>3. QED
        BY <2>1, <4>1, <4>2, BatchCounts
    <3>2. QED
      BY <2>1, <2>6, <3>1, EmptySeq, LenProperties DEF ReadPart, NeverIdle
  <2>7. CASE UNCHANGED vars \/ \E d \in Devices : OnDeviceAdded(d) \/ OnDeviceRemoved(d)
    BY <2>7 DEF vars, OnDeviceAdded, OnDeviceRemoved, NeverIdle
  <2>8. QED
    BY <2>2, <2>3, <2>4, <2>5, <2>6, <2>7 DEF Next
<1>3. QED
  BY <1>1, <1>2, DataLogTypeCorrect, PTL DEF Safety

\* What keeps timer and batch apart: groups that were not started have neither.
Exclusive ==
  /\ TimerOrBatch
  /\ ~stopped => \A g \in Groups \ active : g \notin armed /\ Len(batches[g]) = 0

\* Timer or batch, one batch at a time, if groups are never stopped.
THEOREM TimerOrBatchOnly == Safety => []TimerOrBatch
<1>1. Init => Exclusive
  BY EmptySeq, LenProperties DEF Init, Exclusive, TimerOrBatch
<1>2. TypeOK /\ Exclusive /\ [Next]_vars => Exclusive'
  <2> SUFFICES ASSUME TypeOK, Exclusive, [Next]_vars, ~stopped', NEW g \in Groups
               PROVE  /\ Len(batches'[g]) <= IF g \in armed' THEN 0 ELSE 1
                      /\ g \notin active' => g \notin armed' /\ Len(batches'[g]) = 0
    BY DEF Exclusive, TimerOrBatch
  <2>a. ~stopped
    BY DEF Next, vars, StartPropertyPolling, StopPropertyPolling, OnDeviceAdded, OnDeviceRemoved,
           OnTimeout, OnFinished, ReadPart
  <2>1. /\ Len(batches[g]) \in Nat
        /\ Len(batches[g]) <= IF g \in armed THEN 0 ELSE 1
        /\ g \notin active => g \notin armed /\ Len(batches[g]) = 0
    BY <2>a, LenProperties DEF TypeOK, Exclusive, TimerOrBatch
  <2>2. CASE StartPropertyPolling
    BY <2>1, <2>2 DEF StartPropertyPolling
  <2>3. CASE StopPropertyPolling
    BY <2>3 DEF StopPropertyPolling
  <2>4. CASE \E h \in Groups : OnTimeout(h)
    <3>1. PICK h \in Groups : OnTimeout(h)
      BY <2>4
    <3>2. active' = active /\ h \in armed
      BY <3>1 DEF OnTimeout
    <3>3. CASE h = g
      <4>1. g \in active /\ Len(batches[g]) = 0
        BY <2>1, <3>2, <3>3
      <4>2. CASE Listed(g) # {}
        <5>1. batches'[g] = Append(batches[g], NewBatch(g)) /\ g \notin armed'
          BY <3>1, <3>3, <4>1, <4>2 DEF OnTimeout, TypeOK
        <5>2. Len(batches'[g]) = 1
          BY <4>1, <5>1, BatchesGrow
        <5>3. QED
          BY <3>2, <4>1, <5>1, <5>2
      <4>3. CASE Listed(g) = {}
        BY <2>1, <3>1, <3>2, <3>3, <4>1, <4>3 DEF OnTimeout
      <4>4. QED
        BY <4>2, <4>3
    <3>4. CASE h # g
      <4>1. batches'[g] = batches[g]
        BY <3>1, <3>4 DEF OnTimeout, TypeOK
      <4>2. g \in armed' <=> g \in armed
        BY <3>1, <3>4 DEF OnTimeout
      <4>3. QED
        BY <2>1, <3>2, <4>1, <4>2
    <3>5. QED
      BY <3>3, <3>4
  <2>5. CASE \E h \in Groups, i \in 1..MaxBatches : OnFinished(h, i)
    <3>1. PICK h \in Groups, i \in 1..MaxBatches : OnFinished(h, i)
      BY <2>5
    <3>2. active' = active
      BY <3>1 DEF OnFinished
    <3>3. CASE h = g
      <4>1. i \in DOMAIN batches[g]
        BY <3>1, <3>3 DEF OnFinished
      <4>2. Len(batches'[g]) = Len(batches[g]) - 1
        BY <3>1, <3>3, <4>1, BatchesShrink DEF OnFinished, TypeOK
      <4>3. Len(batches[g]) > 0
        BY <2>1, <4>1, LenProperties DEF TypeOK
      <4>4. QED
        BY <2>1, <3>2, <4>2, <4>3
    <3>4. CASE h # g
      <4>1. batches'[g] = batches[g]
        BY <3>1, <3>4 DEF OnFinished, TypeOK
      <4>2. g \in armed' <=> g \in armed
        BY <3>1, <3>4 DEF OnFinished
      <4>3. QED
        BY <2>1, <3>2, <4>1, <4>2
    <3>5. QED
      BY <3>3, <3>4
  <2>6. CASE \E h \in Groups, i \in 1..MaxBatches, id \in Ids : ReadPart(h, i, id)
    <3>1. PICK h \in Groups, i \in 1..MaxBatches, id \in Ids : ReadPart(h, i, id)
      BY <2>6
    <3>2. active' = active /\ armed' = armed
      BY <3>1 DEF ReadPart
    <3>3. CASE batches[h] # <<>> /\ Len(batches'[g]) # Len(batches[g])
      <4>1. g \notin armed'
        BY <2>1, <3>2, <3>3, BatchCounts DEF OnTimeout
      <4>2. \A k \in 1..MaxBatches : ~OnFinished(g, k)
        <5>1. SUFFICES ASSUME NEW k \in 1..MaxBatches, OnFinished(g, k)
                       PROVE  FALSE
          OBVIOUS
        <5>2. h = g /\ i # k
          BY <3>1, <5>1 DEF ReadPart, OnFinished, Complete, TypeOK
        <5>3. i \in DOMAIN batches[g] /\ k \in DOMAIN batches[g] /\ batches[g] \in Seq([Ids -> Results])
          BY <3>1, <5>1, <5>2 DEF ReadPart, OnFinished, TypeOK, Results
        <5>4. i \in 1..Len(batches[g]) /\ k \in 1..Len(batches[g])
          BY <5>3, LenProperties
        <5>5. QED
          BY <2>1, <5>2, <5>4
      <4>3. OnTimeout(g)
        BY <2>1, <3>3, <4>2, BatchCounts
      <4>4. g \in armed
        BY <4>3 DEF OnTimeout
      <4>5. QED
        BY <3>2, <4>1, <4>4
    <3>4. CASE Len(batches'[g]) = Len(batches[g])
      BY <2>1, <3>2, <3>4
    <3>5. batches[h] # <<>>
      BY <3>1, EmptySeq DEF ReadPart
    <3>6. QED
      BY <3>3, <3>4, <3>5
  <2>7. CASE UNCHANGED vars \/ \E d \in Devices : OnDeviceAdded(d) \/ OnDeviceRemoved(d)
    BY <2>1, <2>7 DEF vars, OnDeviceAdded, OnDeviceRemoved
  <2>8. QED
    BY <2>2, <2>3, <2>4, <2>5, <2>6, <2>7 DEF Next
<1>3. Exclusive => TimerOrBatch
  BY DEF Exclusive
<1>4. QED
  BY <1>1, <1>2, <1>3, DataLogTypeCorrect, PTL DEF Safety

-----------------------------------------------------------------------------

\* The lists say what the configuration says of the devices that are there.
THEOREM ListsFollowDevices == Safety => []ListsMirrorDevices
<1>1. Init => ListsMirrorDevices
  BY DEF Init, ListsMirrorDevices
<1>2. TypeOK /\ ListsMirrorDevices /\ [Next]_vars => ListsMirrorDevices'
  <2> SUFFICES ASSUME TypeOK, ListsMirrorDevices, [Next]_vars
               PROVE  ListsMirrorDevices'
    OBVIOUS
  <2>1. ASSUME NEW d \in Devices, OnDeviceAdded(d)
        PROVE  ListsMirrorDevices'
    <3> SUFFICES ASSUME NEW g \in Groups, NEW id \in Ids
                 PROVE  LET real == DeviceOf[id] \notin VirtualDevices IN
                        propertyIDs'[g][id] =
                          (IF real /\ DeviceOf[id] \in present' THEN Matches(g, id) ELSE 0)
                          + (IF id \in Explicit[g] /\ ~(real /\ DeviceOf[id] \in departed') THEN 1 ELSE 0)
      BY DEF ListsMirrorDevices
    <3>1. /\ d \notin present /\ present' = present \cup {d} /\ departed' = departed
          /\ propertyIDs'[g][id] =
               propertyIDs[g][id]
               + IF DeviceOf[id] = d /\ d \notin VirtualDevices THEN Matches(g, id) ELSE 0
      BY <2>1 DEF OnDeviceAdded, AddWildcardProperties
    <3>2. propertyIDs[g][id] =
            (IF DeviceOf[id] \notin VirtualDevices /\ DeviceOf[id] \in present THEN Matches(g, id) ELSE 0)
            + (IF id \in Explicit[g] /\ ~(DeviceOf[id] \notin VirtualDevices /\ DeviceOf[id] \in departed)
               THEN 1 ELSE 0)
      BY DEF ListsMirrorDevices
    <3>3. Matches(g, id) \in Nat
      BY MatchesType
    <3>4. QED
      BY <3>1, <3>2, <3>3
  <2>2. ASSUME NEW d \in Devices, OnDeviceRemoved(d)
        PROVE  ListsMirrorDevices'
    <3> SUFFICES ASSUME NEW g \in Groups, NEW id \in Ids
                 PROVE  LET real == DeviceOf[id] \notin VirtualDevices IN
                        propertyIDs'[g][id] =
                          (IF real /\ DeviceOf[id] \in present' THEN Matches(g, id) ELSE 0)
                          + (IF id \in Explicit[g] /\ ~(real /\ DeviceOf[id] \in departed') THEN 1 ELSE 0)
      BY DEF ListsMirrorDevices
    <3>1. /\ present' = present \ {d} /\ departed' = departed \cup {d}
          /\ propertyIDs'[g][id] =
               IF DeviceOf[id] = d /\ d \notin VirtualDevices THEN 0 ELSE propertyIDs[g][id]
      BY <2>2 DEF OnDeviceRemoved, RemoveWildcardProperties
    <3>2. propertyIDs[g][id] =
            (IF DeviceOf[id] \notin VirtualDevices /\ DeviceOf[id] \in present THEN Matches(g, id) ELSE 0)
            + (IF id \in Explicit[g] /\ ~(DeviceOf[id] \notin VirtualDevices /\ DeviceOf[id] \in departed)
               THEN 1 ELSE 0)
      BY DEF ListsMirrorDevices
    <3>3. QED
      BY <3>1, <3>2
  <2>3. CASE UNCHANGED <<present, departed, propertyIDs>>
    BY <2>3 DEF ListsMirrorDevices
  <2>4. QED
    BY <2>1, <2>2, <2>3 DEF Next, vars, StartPropertyPolling, StopPropertyPolling, OnTimeout, OnFinished, ReadPart
<1>3. QED
  BY <1>1, <1>2, DataLogTypeCorrect, PTL DEF Safety

-----------------------------------------------------------------------------
(* The parser of the configuration                                          *)

\* What the comparisons of the parser leave: different ids without conflict.
Compared ==
  \A i, j \in Intervals : \A x \in properties[i], y \in properties[j] :
    (x = y /\ i = j) \/ ~Conflicts(x, y)

\* Two ids without conflict that share a property are crossed wildcards.
LEMMA OverlapCrosses ==
  ASSUME NEW x \in LineIds, NEW y \in LineIds, ~Conflicts(x, y), Covered(x) \cap Covered(y) # {}
  PROVE  Crossed(x, y)
<1>1. PICK p \in [access: AccessParts, device: DeviceParts, number: NumberParts] :
        (p = x \/ IdMatches(x, p)) /\ (p = y \/ IdMatches(y, p))
  BY DEF Covered
<1>2. p.access # Star /\ p.device # Star
  BY ConfigurationAssumption
<1>3. IdMatches(x, p) /\ IdMatches(y, p)
  BY <1>1, <1>2 DEF Conflicts, IdMatches, IsWildcard
<1>4. x.number = y.number /\ IsWildcard(x) /\ IsWildcard(y)
  BY <1>3 DEF IdMatches
<1>5. x.device \in {Star, p.device} /\ x.access \in {Star, p.access}
  BY <1>3 DEF IdMatches
<1>6. y.device \in {Star, p.device} /\ y.access \in {Star, p.access}
  BY <1>3 DEF IdMatches
<1>7. ~(x.device \in {Star, y.device} /\ x.access \in {Star, y.access})
  BY <1>4 DEF Conflicts, IdMatches
<1>8. ~(y.device \in {Star, x.device} /\ y.access \in {Star, x.access})
  BY <1>4 DEF Conflicts, IdMatches
<1>9. QED
  BY <1>2, <1>4, <1>5, <1>6, <1>7, <1>8 DEF Crossed, IsWildcard

\* Type correctness of the parser.
THEOREM ConfigurationTypeCorrect == ConfigurationSpec => []ConfigurationTypeOK
<1>1. ConfigurationInit => ConfigurationTypeOK
  BY ConfigurationAssumption DEF ConfigurationInit, ConfigurationTypeOK
<1>2. ConfigurationTypeOK /\ [ConfigurationNext]_configurationVars => ConfigurationTypeOK'
  <2> SUFFICES ASSUME ConfigurationTypeOK, [ConfigurationNext]_configurationVars
               PROVE  ConfigurationTypeOK'
    OBVIOUS
  <2>1. ReadLine => lineNumber' \in 0..MaxLines
    BY ConfigurationAssumption DEF ConfigurationTypeOK, ReadLine
  <2>2. CASE SkipLine \/ MalformedIntervalLine \/ InvalidLine
    BY <2>1, <2>2 DEF ConfigurationTypeOK, SkipLine, MalformedIntervalLine, InvalidLine, Errors
  <2>3. ASSUME NEW i \in Intervals, IntervalLine(i)
        PROVE  ConfigurationTypeOK'
    BY <2>1, <2>3 DEF ConfigurationTypeOK, IntervalLine
  <2>4. ASSUME NEW id \in LineIds, PropertyLine(id)
        PROVE  ConfigurationTypeOK'
    <3>1. properties' \in [Intervals -> SUBSET LineIds]
      BY <2>4 DEF ConfigurationTypeOK, PropertyLine
    <3>2. QED
      BY <2>1, <2>4, <3>1 DEF ConfigurationTypeOK, PropertyLine, Errors
  <2>5. CASE EndOfFile \/ UNCHANGED configurationVars
    BY <2>5 DEF ConfigurationTypeOK, EndOfFile, configurationVars
  <2>6. QED
    BY <2>2, <2>3, <2>4, <2>5 DEF ConfigurationNext
<1>3. QED
  BY <1>1, <1>2, PTL DEF ConfigurationSpec

\* A property is logged by one id only, or by wildcards that cross.
THEOREM OverlapsOnlyCrossed == ConfigurationSpec => []OverlapsAreCrossed
<1>1. ConfigurationInit => Compared
  BY DEF ConfigurationInit, Compared
<1>2. ConfigurationTypeOK /\ Compared /\ [ConfigurationNext]_configurationVars => Compared'
  <2> SUFFICES ASSUME ConfigurationTypeOK, Compared, [ConfigurationNext]_configurationVars
               PROVE  Compared'
    OBVIOUS
  <2>1. ASSUME NEW id \in LineIds, PropertyLine(id)
        PROVE  Compared'
    <3>1. CASE properties' = properties
      BY <3>1 DEF Compared
    <3>2. CASE properties' # properties
      <4>1. /\ properties' = [properties EXCEPT ![interval] = @ \cup {id}]
            /\ \A existing \in AllLineIds : ~Conflicts(id, existing)
        BY <2>1, <3>2 DEF PropertyLine
      <4>2. \A x \in AllLineIds : ~Conflicts(id, x) /\ ~Conflicts(x, id)
        BY <4>1 DEF Conflicts
      <4>3. \A i \in Intervals : \A x \in properties'[i] : x \in properties[i] \/ (x = id /\ i = interval)
        BY <4>1 DEF ConfigurationTypeOK
      <4>4. \A i \in Intervals : properties[i] \subseteq AllLineIds
        BY DEF AllLineIds
      <4>5. QED
        BY <4>2, <4>3, <4>4 DEF Compared
    <3>3. QED
      BY <3>1, <3>2
  <2>2. CASE UNCHANGED properties
    BY <2>2 DEF Compared
  <2>3. QED
    BY <2>1, <2>2 DEF ConfigurationNext, configurationVars, SkipLine, IntervalLine, MalformedIntervalLine, InvalidLine, EndOfFile
<1>3. ConfigurationTypeOK /\ Compared => OverlapsAreCrossed
  <2> SUFFICES ASSUME ConfigurationTypeOK, Compared, NEW i \in Intervals, NEW j \in Intervals,
                      NEW x \in properties[i], NEW y \in properties[j],
                      Covered(x) \cap Covered(y) # {}
               PROVE  (x = y /\ i = j) \/ Crossed(x, y)
    BY DEF OverlapsAreCrossed
  <2>1. x \in LineIds /\ y \in LineIds
    BY DEF ConfigurationTypeOK
  <2>2. (x = y /\ i = j) \/ ~Conflicts(x, y)
    BY DEF Compared
  <2>3. QED
    BY <2>1, <2>2, OverlapCrosses
<1>4. QED
  BY <1>1, <1>2, <1>3, ConfigurationTypeCorrect, PTL DEF ConfigurationSpec

=============================================================================
