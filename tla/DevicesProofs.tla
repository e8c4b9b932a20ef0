----------------------------- MODULE DevicesProofs -----------------------------
(***************************************************************************)
(* Proofs about DeviceEnumeration and Sessions.                            *)
(*                                                                         *)
(* Enumerations: whatever the bus does meanwhile and whichever requests    *)
(* fail, the lists of a running enumeration stay numbered 1, 2, ..., n per *)
(* category, with at most one virtual device each and at most one battery  *)
(* manager, so that taking a length for the last address is right.  An     *)
(* enumeration that nothing has disturbed moreover agrees with the bus for *)
(* every category it has left behind.                                      *)
(*                                                                         *)
(* Sessions: a handler subscribes to an id, or ends a subscription, if and *)
(* only if it answers Success, and only to what the session may read; the  *)
(* other handlers leave the subscriptions alone.                           *)
(***************************************************************************)
EXTENDS DeviceEnumeration, Sessions, SequenceLemmas, SequenceTheorems, FiniteSetTheorems

\* The two cases in which the enumeration fails are left out: a nested run
\* (UniqueAddresses under enumeration_nested), and a fast enumeration that takes
\* a count of devices beyond the known addresses (enumeration_range).  A device
\* beyond them that is not counted, or met by a slow enumeration, is let in.
AloneWithinRange ==
  /\ MaxNesting = 1
  /\ \/ SlowChoices \subseteq {TRUE}
     \/ \A k \in Kinds : BusCount[k] <= Known[k] \/ CountLimit[k] <= Known[k]

RealOf(objects, kind) == {d \in objects : d.kind = kind /\ d.index > 0}

\* The real devices of a kind have the addresses 1, 2, ..., n.
Numbered(objects, kind, n) ==
  /\ {d.index : d \in RealOf(objects, kind)} = 1..n
  /\ \A d, e \in RealOf(objects, kind) : d.index = e.index => d = e

WellNumbered(objects) ==
  /\ \A d \in objects : d.index \in Nat
  /\ \A kind \in Kinds : \E n \in 0..Known[kind] : Numbered(objects, kind, n)
  /\ \A kind \in Kinds : \A d, e \in Virtuals(objects, kind) : d = e
  /\ \A d, e \in BatteryManagers(objects) : d = e
  /\ \A d \in BatteryManagers(objects) : d.model # "none"

Follows(objects, kind) == Virtuals(objects, kind) # {} <=> RealOf(objects, kind) # {}

\* The kinds whose virtual devices an enumeration keeps up to date.
Followed(kind) == kind \in {"xtender", "varioTrack"} \/ (kind = "varioString" /\ forceSlow)

BusTyped ==
  /\ forceSlow \in BOOLEAN /\ forceSlow \in SlowChoices
  /\ bus \in [count : [Kinds -> Nat], battery : BatteryModels \cup {"none"}]
  /\ \A k \in Kinds : bus.count[k] <= BusCount[k]

FrameTyped(f) ==
  /\ f \in [existing : {children}, devices : {f.devices}, phase : Phases,
            position : 1..4, fast : BOOLEAN, counts : [Kinds -> Nat],
            batteries : 0..1, todo : Nat, steady : BOOLEAN]
  /\ f.fast => ~forceSlow /\ f.phase \notin {"counts", "drop", "grow"}
  /\ ~f.fast => f.phase \notin {"delta", "add"}
  /\ f.phase = "counts" => ~forceSlow
  /\ f.phase = "add" => f.todo > 0
  /\ f.phase \in {"battery", "end"} <=> f.position = 4
  /\ f.fast => \A k \in Kinds : f.counts[k] <= Known[k]

\* The devices still to be added have known addresses.
RoomToAdd(f) ==
  f.phase = "add" =>
    \E n \in Nat : /\ Numbered(f.devices, Categories[f.position], n)
                    /\ n + f.todo <= Known[Categories[f.position]]

\* The virtual devices of the categories left behind follow their real ones.
FollowedSoFar(f) ==
  \A i \in 1..3 : i < f.position /\ Followed(Categories[i]) => Follows(f.devices, Categories[i])

\* The categories left behind agree with the bus, the one being enumerated is
\* on its way there, and the counts of those to come are up to date.
SteadySoFar(f) ==
  /\ \A i \in 1..3 :
       i < f.position => Numbered(f.devices, Categories[i], OnBus(Categories[i]))
  /\ f.fast => \A i \in 1..3 :
       i >= f.position => f.counts[Categories[i]] = OnBus(Categories[i])
  /\ f.fast => (f.batteries = 0 <=> bus.battery = "none")
  /\ f.phase = "add" =>
       /\ f.todo <= OnBus(Categories[f.position])
       /\ Numbered(f.devices, Categories[f.position], OnBus(Categories[f.position]) - f.todo)
  /\ f.phase = "grow" =>
       \E n \in 0..OnBus(Categories[f.position]) : Numbered(f.devices, Categories[f.position], n)
  /\ f.phase = "virtual" =>
       Numbered(f.devices, Categories[f.position], OnBus(Categories[f.position]))
  /\ f.phase = "end" => {d.model : d \in BatteryManagers(f.devices)} = {bus.battery} \ {"none"}

FrameInv(f) ==
  /\ FrameTyped(f)
  /\ WellNumbered(f.devices)
  /\ FollowedSoFar(f)
  /\ RoomToAdd(f)
  /\ f.steady => SteadySoFar(f)

EnumInv ==
  /\ BusTyped
  /\ WellNumbered(children)
  /\ \A i \in 1..3 : Followed(Categories[i]) => Follows(children, Categories[i])
  /\ stack # <<>> => stack = <<Head(stack)>> /\ FrameInv(Head(stack))

-----------------------------------------------------------------------------
(* Lists of numbered devices.                                              *)

\* There are as many real devices as their last address says.
LEMMA Counted ==
  ASSUME NEW S, NEW n \in Nat,
         {d.index : d \in S} = 1..n,
         \A d, e \in S : d.index = e.index => d = e
  PROVE  IsFiniteSet(S) /\ Cardinality(S) = n
<1> DEFINE f == [d \in S |-> d.index]
<1>1. f \in [S -> 1..n]
  OBVIOUS
<1>2. \A d, e \in S : f[d] = f[e] => d = e
  OBVIOUS
<1>3. \A i \in 1..n : \E d \in S : f[d] = i
  OBVIOUS
<1> HIDE DEF f
<1>4. f \in Injection(S, 1..n) /\ f \in Surjection(S, 1..n)
  BY <1>1, <1>2, <1>3 DEF Injection, Surjection, IsInjective
<1>5. IsFiniteSet(1..n) /\ Cardinality(1..n) = n
  BY FS_Interval
<1>6. QED
  BY <1>4, <1>5, FS_Injection

\* One more real device, at the next address.
LEMMA AddNext ==
  ASSUME NEW D, NEW kind, NEW n \in Nat, NEW x,
         Numbered(D, kind, n), x.kind = kind, x.index = n + 1
  PROVE  Numbered(D \cup {x}, kind, n + 1)
<1>1. RealOf(D \cup {x}, kind) = RealOf(D, kind) \cup {x}
  BY DEF RealOf
<1>2. {d.index : d \in RealOf(D \cup {x}, kind)} = 1..(n + 1)
  <2> DEFINE S == RealOf(D, kind)
  <2> HIDE DEF S
  <2>1. {d.index : d \in S \cup {x}} = {d.index : d \in S} \cup {x.index}
    BY Zenon
  <2>2. (1..n) \cup {n + 1} = 1..(n + 1)
    OBVIOUS
  <2>3. QED
    BY <1>1, <2>1, <2>2 DEF Numbered, S
<1>3. \A d \in RealOf(D, kind) : d.index \in 1..n
  BY DEF Numbered
<1>4. \A d \in RealOf(D, kind) : d.index # n + 1
  BY <1>3
<1>5. QED
  BY <1>1, <1>2, <1>4 DEF Numbered

\* Some of the real devices, none of them after one that is not kept, are the
\* first ones.
LEMMA KeepFirst ==
  ASSUME NEW D, NEW kind, NEW n \in Nat, NEW kept \in SUBSET RealOf(D, kind),
         Numbered(D, kind, n),
         \A d \in kept, gone \in RealOf(D, kind) \ kept : d.index <= gone.index
  PROVE  /\ Cardinality(kept) \in 0..n
         /\ Numbered(D \ (RealOf(D, kind) \ kept), kind, Cardinality(kept))
<1> DEFINE S == RealOf(D, kind)
           missing == {j \in 1..(n + 1) : \A d \in kept : d.index # j}
           m == Min(missing) - 1
<1>1. /\ {d.index : d \in S} = 1..n
      /\ \A d, e \in S : d.index = e.index => d = e
  BY DEF Numbered
<1>2. \A d \in S : d.index \in 1..n
  BY <1>1
<1>3. n + 1 \in missing
  <2>1. \A d \in kept : d.index # n + 1
    BY <1>2
  <2>2. QED
    BY <2>1
<1>4. missing \in SUBSET Nat /\ missing # {}
  BY <1>3
<1> HIDE DEF missing
<1>5. Min(missing) \in missing /\ \A i \in missing : Min(missing) <= i
  BY <1>4, FirstPosition
<1>6. m \in 0..n
  BY <1>5 DEF missing
<1> HIDE DEF m
<1>7. \A j \in 1..m : \E d \in kept : d.index = j
  <2>1. \A j \in 1..m : j \notin missing /\ j \in 1..(n + 1)
    BY <1>5, <1>6 DEF m, missing
  <2>2. QED
    BY <2>1 DEF missing
<1>8. \A d \in kept : d.index \in 1..m
  <2>1. SUFFICES ASSUME NEW d \in kept, ~(d.index \in 1..m)
                 PROVE  FALSE
    OBVIOUS
  <2>2. d.index \in 1..n /\ d.index > m
    BY <1>2, <1>6, <2>1
  <2>3. m + 1 = Min(missing) /\ m + 1 \in 1..n
    BY <2>2, <1>6, <1>5 DEF m, missing
  <2>4. PICK e \in S : e.index = m + 1
    BY <2>3, <1>1
  <2>5. e \notin kept
    BY <2>3, <2>4, <1>5 DEF missing
  <2>6. d.index <= e.index
    BY <2>5, <2>4
  <2>7. d.index = e.index
    BY <2>6, <2>4, <2>2, <1>6
  <2>8. QED
    BY <2>7, <2>5, <2>4, <1>1
<1>9. {d.index : d \in kept} = 1..m
  BY <1>7, <1>8
<1>10. Cardinality(kept) = m
  BY <1>9, <1>1, <1>6, Counted, SMTT(30)
<1>11. RealOf(D \ (S \ kept), kind) = kept
  BY DEF RealOf
<1>12. QED
  BY <1>1, <1>6, <1>9, <1>10, <1>11 DEF Numbered

\* Without the last real device.
LEMMA DropLast ==
  ASSUME NEW D, NEW kind, NEW n \in Nat, NEW last \in LastOf(RealOf(D, kind)),
         Numbered(D, kind, n)
  PROVE  /\ n > 0
         /\ last.index = n
         /\ Numbered(D \ {last}, kind, n - 1)
<1> DEFINE S == RealOf(D, kind)
<1>1. /\ {d.index : d \in S} = 1..n
      /\ \A d, e \in S : d.index = e.index => d = e
  BY DEF Numbered
<1>2. last \in S /\ \A e \in S : e.index <= last.index
  BY DEF LastOf
<1>3. last.index \in 1..n
  BY <1>1, <1>2
<1>4. n \in 1..n
  BY <1>3
<1>5. PICK e \in S : e.index = n
  BY <1>1, <1>4
<1>6. last.index = n
  BY <1>5, <1>2, <1>3
<1>7. RealOf(D \ {last}, kind) = S \ {last}
  BY DEF RealOf
<1>8. \A d \in S \ {last} : d.index \in 1..(n - 1)
  <2>1. \A d \in S \ {last} : d.index \in 1..n /\ d.index # n
    BY <1>1, <1>2, <1>6
  <2>2. QED
    BY <2>1, <1>3
<1>9. \A j \in 1..(n - 1) : \E d \in S \ {last} : d.index = j
  <2>1. \A j \in 1..(n - 1) : j \in 1..n /\ j # n
    BY <1>3
  <2>2. QED
    BY <2>1, <1>1, <1>6
<1>10. {d.index : d \in S \ {last}} = 1..(n - 1)
  BY <1>8, <1>9
<1>11. n > 0
  BY <1>3
<1>12. Numbered(D \ {last}, kind, n - 1)
  <2> HIDE DEF S
  <2>1. \A d, other \in S \ {last} : d.index = other.index => d = other
    BY <1>1
  <2>2. QED
    BY <1>7, <1>10, <2>1 DEF Numbered
<1>13. QED
  BY <1>6, <1>11, <1>12

\* The categories, one by one.
LEMMA KindsAre ==
  /\ Categories[1] = "xtender" /\ Categories[2] = "varioTrack" /\ Categories[3] = "varioString"
  /\ Len(Categories) = 3
  /\ Kinds = {"xtender", "varioTrack", "varioString"}
  /\ \A i \in 1..3 : Categories[i] \in Kinds
<1>1. DOMAIN Categories = 1..3
  BY DEF Categories
<1>2. Categories[1] = "xtender" /\ Categories[2] = "varioTrack" /\ Categories[3] = "varioString" /\ Len(Categories) = 3
  BY DEF Categories
<1>3. \A i \in 1..3 : i = 1 \/ i = 2 \/ i = 3
  OBVIOUS
<1>4. QED
  BY <1>1, <1>2, <1>3 DEF Kinds

\* What a new device object is.
LEMMA NewFields ==
  ASSUME NEW kind, NEW index, NEW model
  PROVE  /\ NewDevice(kind, index, model).kind = kind
         /\ NewDevice(kind, index, model).index = index
         /\ NewDevice(kind, index, model).model = model
BY DEF NewDevice


\* Nothing of another kind is different in E.
SameBut(D, E, kind) ==
  \A other : other # kind => {d \in E : d.kind = other} = {d \in D : d.kind = other}

\* What is said of another kind holds of E as it did of D.
LEMMA SameElsewhere ==
  ASSUME NEW D, NEW E, NEW kind, SameBut(D, E, kind), NEW other, other # kind
  PROVE  /\ RealOf(E, other) = RealOf(D, other)
         /\ Virtuals(E, other) = Virtuals(D, other)
         /\ \A n : Numbered(E, other, n) <=> Numbered(D, other, n)
         /\ Follows(E, other) <=> Follows(D, other)
<1>1. \A d : d \in E /\ d.kind = other <=> d \in D /\ d.kind = other
  <2>1. {d \in E : d.kind = other} = {d \in D : d.kind = other}
    BY DEF SameBut
  <2>2. QED
    BY <2>1
<1>2. RealOf(E, other) = RealOf(D, other)
  BY <1>1 DEF RealOf
<1>3. Virtuals(E, other) = Virtuals(D, other)
  BY <1>1 DEF Virtuals
<1>4. QED
  BY <1>2, <1>3 DEF Numbered, Follows

\* A list stays well numbered if the kind that changes does.
LEMMA StillWellNumbered ==
  ASSUME NEW D, NEW E, NEW kind \in Kinds, WellNumbered(D), SameBut(D, E, kind),
         \A d \in E : d.index \in Nat,
         \E n \in 0..Known[kind] : Numbered(E, kind, n),
         \A d, e \in Virtuals(E, kind) : d = e
  PROVE  WellNumbered(E) /\ BatteryManagers(E) = BatteryManagers(D)
<1>1. kind # "battery"
  BY KindsAre
<1>2. BatteryManagers(E) = BatteryManagers(D)
  <2>1. {d \in E : d.kind = "battery"} = {d \in D : d.kind = "battery"}
    BY <1>1 DEF SameBut
  <2>2. QED
    BY <2>1 DEF BatteryManagers
<1>3. ASSUME NEW other \in Kinds
      PROVE  /\ \E n \in 0..Known[other] : Numbered(E, other, n)
             /\ \A d, e \in Virtuals(E, other) : d = e
  <2>1. CASE other = kind
    BY <2>1
  <2>2. CASE other # kind
    <3>1. /\ Virtuals(E, other) = Virtuals(D, other)
          /\ \A n : Numbered(E, other, n) <=> Numbered(D, other, n)
      BY <2>2, SameElsewhere
    <3>2. QED
      BY <3>1 DEF WellNumbered
  <2>3. QED
    BY <2>1, <2>2
<1>4. QED
  BY <1>2, <1>3 DEF WellNumbered

\* Adding an object of a kind, or removing some, changes nothing else.
LEMMA SameButAdded ==
  ASSUME NEW D, NEW x
  PROVE  SameBut(D, D \cup {x}, x.kind)
BY DEF SameBut

LEMMA SameButRemoved ==
  ASSUME NEW D, NEW kind, NEW gone, \A d \in gone : d.kind = kind
  PROVE  SameBut(D, D \ gone, kind)
BY DEF SameBut

\* The enumerator's lists have all the real devices: each has a known address.
LEMMA ListedIsReal ==
  ASSUME NEW f, NEW kind \in Kinds, WellNumbered(f.devices)
  PROVE  /\ Listed(f, kind) = RealOf(f.devices, kind)
         /\ Cardinality(Listed(f, kind)) \in 0..Known[kind]
         /\ Numbered(f.devices, kind, Cardinality(Listed(f, kind)))
         /\ \A n \in Nat : Numbered(f.devices, kind, n) => n = Cardinality(Listed(f, kind))
<1>0. Known[kind] \in Nat
  BY EnumerationAssumption
<1>1. PICK n \in 0..Known[kind] : Numbered(f.devices, kind, n)
  BY DEF WellNumbered
<1>2. \A d \in RealOf(f.devices, kind) : d.index <= Known[kind]
  <2>1. \A d \in RealOf(f.devices, kind) : d.index \in 1..n
    BY <1>1 DEF Numbered
  <2>2. QED
    BY <2>1, <1>0
<1>3. Listed(f, kind) = RealOf(f.devices, kind)
  BY <1>2 DEF Listed, RealOf
<1>4. ASSUME NEW k \in Nat, Numbered(f.devices, kind, k)
      PROVE  Cardinality(RealOf(f.devices, kind)) = k
  BY <1>4, Counted DEF Numbered
<1>5. QED
  BY <1>0, <1>1, <1>3, <1>4

-----------------------------------------------------------------------------
(* The frame of a running enumeration.                                     *)

\* With an enumeration running, there is exactly one.
LEMMA TheFrame ==
  ASSUME EnumInv, stack # <<>>
  PROVE  \E f : /\ stack = <<f>> /\ Current = f /\ FrameInv(f)
                /\ \A g : Continue(g) => stack' = <<g>>
<1>1. stack = <<Head(stack)>> /\ FrameInv(Head(stack))
  BY DEF EnumInv
<1>2. PICK f : f = Head(stack)
  OBVIOUS
<1>3. Tail(stack) = <<>>
  <2>1. \A h : Tail(<<h>>) = <<>>
    OBVIOUS
  <2>2. QED
    BY <1>1, <2>1
<1>4. \A g : <<g>> \o <<>> = <<g>>
  OBVIOUS
<1>5. QED
  BY <1>1, <1>2, <1>3, <1>4 DEF Current, Continue

\* A step of the enumeration alone.
LEMMA NextFrame ==
  ASSUME EnumInv, NEW g, stack' = <<g>>, UNCHANGED <<forceSlow, children, bus>>, FrameInv(g)
  PROVE  EnumInv'
<1>1. BusTyped' /\ WellNumbered(children)'
  BY DEF EnumInv, BusTyped, WellNumbered
<1>2. (\A i \in 1..3 : Followed(Categories[i]) => Follows(children, Categories[i]))'
  BY DEF EnumInv, Followed
<1>3. FrameInv(g)'
  <2>1. FrameTyped(g)'
    BY DEF FrameInv, FrameTyped
  <2>2. FollowedSoFar(g)'
    BY DEF FrameInv, FollowedSoFar, Followed
  <2>3. \A kind : OnBus(kind)' = OnBus(kind)
    BY DEF OnBus
  <2>4. g.steady => SteadySoFar(g)'
    BY <2>3 DEF FrameInv, SteadySoFar
  <2>5. RoomToAdd(g)'
    BY DEF FrameInv, RoomToAdd
  <2>6. QED
    BY <2>1, <2>2, <2>4, <2>5 DEF FrameInv
<1>4. Head(stack') = g /\ stack' = <<Head(stack')>>
  OBVIOUS
<1>5. QED
  BY <1>1, <1>2, <1>3, <1>4 DEF EnumInv

\* An enumeration that is still in category p has left alone the devices of
\* the categories before.
LEMMA SameCategory ==
  ASSUME NEW f, NEW g, FrameInv(f), f.position \in 1..3, g.position = f.position,
         g.fast = f.fast, g.counts = f.counts, g.batteries = f.batteries,
         SameBut(f.devices, g.devices, Categories[f.position])
  PROVE  /\ FollowedSoFar(g)
         /\ f.steady =>
              /\ \A i \in 1..3 : i < g.position =>
                   Numbered(g.devices, Categories[i], OnBus(Categories[i]))
              /\ g.fast => \A i \in 1..3 :
                   i >= g.position => g.counts[Categories[i]] = OnBus(Categories[i])
              /\ g.fast => (g.batteries = 0 <=> bus.battery = "none")
<1>1. \A i \in 1..3 : i < f.position => Categories[i] # Categories[f.position]
  BY KindsAre
<1>2. ASSUME NEW i \in 1..3, i < f.position
      PROVE  /\ Follows(g.devices, Categories[i]) <=> Follows(f.devices, Categories[i])
             /\ \A n : Numbered(g.devices, Categories[i], n) <=> Numbered(f.devices, Categories[i], n)
  BY <1>1, <1>2, SameElsewhere
<1>3. FollowedSoFar(g)
  BY <1>2 DEF FollowedSoFar, FrameInv
<1>4. QED
  BY <1>2, <1>3 DEF FrameInv, SteadySoFar

\* Before the battery manager's turn the enumeration is in one of the categories.
LEMMA InCategory ==
  ASSUME NEW f, FrameTyped(f), f.phase \notin {"battery", "end"}
  PROVE  f.position \in 1..3 /\ Categories[f.position] \in Kinds
<1>1. f.position \in 1..4 /\ f.position # 4
  BY DEF FrameTyped
<1>2. QED
  BY <1>1, KindsAre


-----------------------------------------------------------------------------
(* The steps.                                                              *)

LEMMA BusCounts ==
  ASSUME EnumInv, NEW kind \in Kinds
  PROVE  /\ bus.count[kind] \in Nat /\ bus.count[kind] <= BusCount[kind]
         /\ Known[kind] \in Nat
         /\ OnBus(kind) \in Nat /\ OnBus(kind) <= Known[kind] /\ OnBus(kind) <= bus.count[kind]
         /\ \A n \in Nat : n <= Known[kind] /\ n <= bus.count[kind] => n <= OnBus(kind)
<1>1. bus.count[kind] \in Nat /\ bus.count[kind] <= BusCount[kind] /\ Known[kind] \in Nat
  BY EnumerationAssumption DEF EnumInv, BusTyped
<1>2. QED
  BY <1>1 DEF OnBus

\* The counts of the adapter are those of the bus, and of known addresses.
LEMMA ReadCountsStep ==
  ASSUME AloneWithinRange, EnumInv, ReadCounts
  PROVE  EnumInv'
<1>1. PICK f : stack = <<f>> /\ Current = f /\ FrameInv(f) /\ \A g : Continue(g) => stack' = <<g>>
  BY TheFrame DEF ReadCounts
<1> DEFINE batteries == IF bus.battery = "none" THEN 0 ELSE 1
           counts == bus.count
           g == [f EXCEPT !.phase = "delta", !.fast = TRUE, !.counts = counts, !.batteries = batteries]
<1>2. /\ stack' = <<g>>
      /\ f.phase = "counts"
      /\ UNCHANGED <<forceSlow, children, bus>>
  BY <1>1 DEF ReadCounts
<1>3. f.position \in 1..3
  BY <1>1, <1>2, InCategory DEF FrameInv
<1>4. counts \in [Kinds -> Nat] /\ batteries \in 0..1 /\ (batteries = 0 <=> bus.battery = "none")
  BY DEF EnumInv, BusTyped
<1>5. ~forceSlow
  BY <1>1, <1>2 DEF FrameInv, FrameTyped
<1>6. counts = bus.count
  OBVIOUS
<1>11. ASSUME NEW k \in Kinds
       PROVE  counts[k] <= Known[k] /\ counts[k] = OnBus(k)
  <2>1. bus.count[k] <= BusCount[k] /\ bus.count[k] <= CountLimit[k]
    BY BusCounts DEF ReadCounts
  <2>2. BusCount[k] <= Known[k] \/ CountLimit[k] <= Known[k]
    BY <1>5 DEF AloneWithinRange, EnumInv, BusTyped
  <2>3. bus.count[k] <= Known[k]
    <3>1. bus.count[k] \in Nat /\ BusCount[k] \in Nat /\ CountLimit[k] \in Nat /\ Known[k] \in Nat
      BY BusCounts, EnumerationAssumption
    <3>2. QED
      BY <2>1, <2>2, <3>1
  <2>4. QED
    BY <2>3 DEF OnBus
<1> HIDE DEF batteries, counts
<1>7. /\ FrameTyped(g)
      /\ g.phase = "delta" /\ g.fast = TRUE /\ g.counts = counts
      /\ g.batteries = batteries
      /\ g.devices = f.devices /\ g.position = f.position /\ g.steady = f.steady
  BY <1>1, <1>2, <1>3, <1>4, <1>5, <1>11 DEF FrameInv, FrameTyped, Phases
<1> HIDE DEF g
<1>8. WellNumbered(g.devices) /\ FollowedSoFar(g) /\ RoomToAdd(g)
  BY <1>1, <1>7 DEF FrameInv, FollowedSoFar, RoomToAdd
<1>9. g.steady => SteadySoFar(g)
  BY <1>1, <1>7, <1>4, <1>11, KindsAre DEF FrameInv, SteadySoFar
<1>10. QED
  BY <1>2, <1>7, <1>8, <1>9, NextFrame DEF FrameInv

\* The slow enumeration begins.
LEMMA FallBackStep ==
  ASSUME EnumInv, FallBack
  PROVE  EnumInv'
<1>1. PICK f : stack = <<f>> /\ Current = f /\ FrameInv(f) /\ \A g : Continue(g) => stack' = <<g>>
  BY TheFrame DEF FallBack
<1> DEFINE g == [f EXCEPT !.phase = "drop"]
<1>2. /\ stack' = <<g>>
      /\ f.phase = "counts"
      /\ UNCHANGED <<forceSlow, children, bus>>
  BY <1>1 DEF FallBack
<1>3. /\ FrameTyped(g)
      /\ g.phase = "drop" /\ g.fast = FALSE
      /\ g.devices = f.devices /\ g.position = f.position /\ g.steady = f.steady
  BY <1>1, <1>2 DEF FrameInv, FrameTyped, Phases
<1> HIDE DEF g
<1>4. WellNumbered(g.devices) /\ FollowedSoFar(g) /\ RoomToAdd(g)
  BY <1>1, <1>3 DEF FrameInv, FollowedSoFar, RoomToAdd
<1>5. g.steady => SteadySoFar(g)
  BY <1>1, <1>3 DEF FrameInv, SteadySoFar
<1>6. QED
  BY <1>2, <1>3, <1>4, <1>5, NextFrame DEF FrameInv

\* The last devices of a category are removed, or some are missing.
LEMMA CompareCountStep ==
  ASSUME EnumInv, CompareCount
  PROVE  EnumInv'
<1>1. PICK f : stack = <<f>> /\ Current = f /\ FrameInv(f) /\ \A g : Continue(g) => stack' = <<g>>
  BY TheFrame DEF CompareCount
<1> DEFINE kind == Categories[f.position]
           n == Cardinality(Listed(f, kind))
           count == f.counts[kind]
<1>2. /\ f.phase = "delta"
      /\ UNCHANGED <<forceSlow, children, bus>>
  BY <1>1 DEF CompareCount
<1>3. f.position \in 1..3 /\ kind \in Kinds
  BY <1>1, <1>2, InCategory DEF FrameInv
<1>4. /\ Listed(f, kind) = RealOf(f.devices, kind)
      /\ n \in 0..Known[kind]
      /\ Numbered(f.devices, kind, n)
  BY <1>1, <1>3, ListedIsReal DEF FrameInv
<1>5. /\ count \in Nat /\ count <= Known[kind]
      /\ f.fast = TRUE /\ (f.steady => count = OnBus(kind))
  BY <1>1, <1>2, <1>3 DEF FrameInv, FrameTyped, SteadySoFar
<1>6. CASE count - n > 0
  <2> DEFINE g == [f EXCEPT !.phase = "add", !.todo = count - n]
  <2>1. stack' = <<g>>
    BY <1>1, <1>6 DEF CompareCount, Present, Kind
  <2>2. count - n \in Nat
    BY <1>4, <1>5, <1>6
  <2> HIDE DEF n, count
  <2>3. /\ FrameTyped(g)
        /\ g.phase = "add" /\ g.todo = count - n
        /\ g.fast = f.fast /\ g.counts = f.counts /\ g.batteries = f.batteries
        /\ g.devices = f.devices /\ g.position = f.position /\ g.steady = f.steady
    BY <1>1, <1>2, <1>5, <1>6, <2>2 DEF FrameInv, FrameTyped, Phases
  <2> HIDE DEF g
  <2>4. WellNumbered(g.devices) /\ FollowedSoFar(g)
    BY <1>1, <2>3 DEF FrameInv, FollowedSoFar
  <2>7. RoomToAdd(g)
    <3>1. n \in Nat /\ n + (count - n) <= Known[kind]
      BY <1>4, <1>5
    <3>2. QED
      BY <1>4, <2>3, <3>1 DEF RoomToAdd
  <2>5. ASSUME g.steady
        PROVE  SteadySoFar(g)
    <3>1. count = OnBus(kind) /\ SteadySoFar(f)
      BY <1>1, <1>5, <2>3, <2>5 DEF FrameInv
    <3>2. n \in Nat /\ count - n <= count /\ count - (count - n) = n
      BY <1>4, <1>5
    <3>3. /\ g.todo <= OnBus(kind)
          /\ Numbered(g.devices, kind, OnBus(kind) - g.todo)
      BY <1>4, <2>3, <3>1, <3>2
    <3>4. QED
      BY <2>3, <3>1, <3>3 DEF SteadySoFar
  <2>6. QED
    BY <1>2, <2>1, <2>3, <2>4, <2>5, <2>7, NextFrame DEF FrameInv
<1>7. CASE ~(count - n > 0)
  <2> DEFINE S == RealOf(f.devices, kind)
  <2>1. PICK kept \in SUBSET S :
          /\ Cardinality(kept) = count
          /\ \A d \in kept, gone \in S \ kept : d.index <= gone.index
          /\ Continue([f EXCEPT !.phase = "virtual", !.devices = @ \ (S \ kept)])
    BY <1>1, <1>4, <1>7 DEF CompareCount, Present, Kind
  <2> DEFINE E == f.devices \ (S \ kept)
             g == [f EXCEPT !.phase = "virtual", !.devices = E]
  <2>2. stack' = <<g>>
    BY <1>1, <2>1
  <2>3. Known[kind] \in Nat
    BY <1>3, EnumerationAssumption
  <2>4. count \in 0..n /\ Numbered(E, kind, count)
    BY <1>4, <2>1, <2>3, KeepFirst
  <2>5. SameBut(f.devices, E, kind)
    <3>1. \A d \in S \ kept : d.kind = kind
      BY DEF RealOf
    <3> HIDE DEF S, kind
    <3>2. QED
      BY <3>1, SameButRemoved
  <2>6. WellNumbered(E)
    <3>1. \A d \in E : d.index \in Nat
      BY <1>1 DEF FrameInv, WellNumbered
    <3>2. \A d, e \in Virtuals(E, kind) : d = e
      BY <1>1, <1>3 DEF FrameInv, WellNumbered, Virtuals
    <3>3. count \in 0..Known[kind]
      BY <1>4, <2>3, <2>4
    <3> HIDE DEF E, kind, count
    <3>4. QED
      BY <1>1, <1>3, <2>4, <2>5, <3>1, <3>2, <3>3, StillWellNumbered DEF FrameInv
  <2> HIDE DEF E
  <2>7. /\ FrameTyped(g)
        /\ g.phase = "virtual" /\ g.devices = E
        /\ g.fast = f.fast /\ g.counts = f.counts /\ g.batteries = f.batteries
        /\ g.position = f.position /\ g.steady = f.steady
    BY <1>1, <1>2, <1>5 DEF FrameInv, FrameTyped, Phases
  <2> HIDE DEF g
  <2>8. /\ FollowedSoFar(g)
        /\ g.steady => SteadySoFar(g)
    BY <1>1, <1>3, <1>5, <2>4, <2>5, <2>7, SameCategory DEF SteadySoFar
  <2>9. QED
    BY <1>2, <2>2, <2>6, <2>7, <2>8, NextFrame DEF FrameInv, RoomToAdd
<1>8. QED
  BY <1>6, <1>7


\* A device at the next address, if that is a known one.
LEMMA AddDevice ==
  ASSUME NEW D, NEW kind \in Kinds, NEW n \in Nat, NEW x,
         WellNumbered(D), Numbered(D, kind, n), n + 1 <= Known[kind],
         x.kind = kind, x.index = n + 1
  PROVE  /\ Numbered(D \cup {x}, kind, n + 1)
         /\ WellNumbered(D \cup {x})
         /\ SameBut(D, D \cup {x}, kind)
<1> DEFINE E == D \cup {x}
<1>1. Numbered(E, kind, n + 1)
  BY AddNext
<1>2. SameBut(D, E, kind)
  BY SameButAdded
<1>3. \A d \in E : d.index \in Nat
  BY DEF WellNumbered
<1>4. \A d, e \in Virtuals(E, kind) : d = e
  <2>1. Virtuals(E, kind) = Virtuals(D, kind)
    BY DEF Virtuals
  <2>2. QED
    BY <2>1 DEF WellNumbered
<1>5. n + 1 \in 0..Known[kind]
  BY EnumerationAssumption
<1> HIDE DEF E
<1>6. WellNumbered(E)
  BY <1>1, <1>2, <1>3, <1>4, <1>5, StillWellNumbered
<1>7. QED
  BY <1>1, <1>2, <1>6 DEF E

\* What the device with an address answers: a valid model only if it is there.
LEMMA AnswerIs ==
  ASSUME NEW index, NEW valid \in Answers(index)
  PROVE  valid \in BOOLEAN /\ (valid => index <= bus.count[Kind])
<1> DEFINE there == index <= bus.count[Kind]
<1>1. there = TRUE \/ there = FALSE
  OBVIOUS
<1>2. valid = there \/ valid = FALSE
  <2> HIDE DEF there
  <2>1. Answers(index) = {there} \cup (IF Faulty THEN {FALSE} ELSE {})
    BY Zenon DEF Answers, there
  <2>2. QED
    BY <2>1
<1> HIDE DEF there
<1>3. valid \in BOOLEAN
  BY <1>1, <1>2
<1>4. valid => there
  <2>1. CASE there = TRUE
    BY <2>1
  <2>2. CASE there = FALSE
    <3>1. valid = FALSE
      BY <1>2, <2>2, Zenon
    <3>2. QED
      BY <3>1
  <2>3. QED
    BY <1>1, <2>1, <2>2
<1>5. QED
  BY <1>3, <1>4, Zenon DEF there

\* A round of the adding loop.
LEMMA FastAddStep ==
  ASSUME EnumInv, FastAdd
  PROVE  EnumInv'
<1>1. PICK f : stack = <<f>> /\ Current = f /\ FrameInv(f) /\ \A g : Continue(g) => stack' = <<g>>
  BY TheFrame DEF FastAdd
<1> DEFINE kind == Categories[f.position]
           n == Cardinality(Listed(f, kind))
<1>2. /\ f.phase = "add"
      /\ UNCHANGED <<forceSlow, children, bus>>
      /\ Kind = kind
      /\ NextIndex = n + 1
  BY <1>1 DEF FastAdd, Kind, NextIndex, Present
<1>3. PICK valid \in Answers(NextIndex) :
        Continue([Current EXCEPT
          !.devices = IF valid THEN @ \cup {NewDevice(Kind, NextIndex, "valid")} ELSE @,
          !.todo = @ - 1,
          !.phase = IF Current.todo = 1 THEN "virtual" ELSE "add",
          !.steady = Settled(valid, NextIndex)])
  BY Zenon DEF FastAdd
<1> DEFINE x == NewDevice(Kind, NextIndex, "valid")
           E == IF valid THEN Current.devices \cup {x} ELSE Current.devices
           phase == IF Current.todo = 1 THEN "virtual" ELSE "add"
           steady == Settled(valid, NextIndex)
           m == IF valid THEN n + 1 ELSE n
           g == [Current EXCEPT !.devices = E, !.todo = Current.todo - 1, !.phase = phase, !.steady = steady]
<1>4. f.position \in 1..3 /\ kind \in Kinds
  BY <1>1, <1>2, InCategory DEF FrameInv
<1>5. /\ n \in 0..Known[kind]
      /\ Numbered(f.devices, kind, n)
      /\ \A k \in Nat : Numbered(f.devices, kind, k) => n = k
  BY <1>1, <1>4, ListedIsReal DEF FrameInv
<1>6. /\ bus.count[kind] \in Nat /\ Known[kind] \in Nat
      /\ OnBus(kind) \in Nat /\ OnBus(kind) <= bus.count[kind]
  BY <1>4, BusCounts
<1>7. valid \in BOOLEAN /\ (valid => n + 1 <= bus.count[kind])
  BY <1>2, AnswerIs
<1>8. /\ f.todo \in Nat /\ f.todo > 0 /\ f.fast = TRUE
  BY <1>1, <1>2 DEF FrameInv, FrameTyped
<1>21. n + f.todo <= Known[kind]
  <2>1. PICK k \in Nat : Numbered(f.devices, kind, k) /\ k + f.todo <= Known[kind]
    BY <1>1, <1>2 DEF FrameInv, RoomToAdd
  <2>2. n = k
    BY <1>5, <2>1
  <2>3. QED
    BY <2>1, <2>2
<1>9. x.kind = kind /\ x.index = n + 1
  BY <1>2, NewFields
<1> HIDE DEF x
<1>10. /\ Numbered(E, kind, m)
       /\ WellNumbered(E)
       /\ SameBut(f.devices, E, kind)
  <2>1. CASE valid
    <3>1. n \in Nat /\ n + 1 <= Known[kind]
      BY <1>5, <1>6, <1>8, <1>21
    <3> HIDE DEF n, kind
    <3>2. QED
      BY <1>1, <1>4, <1>5, <1>9, <2>1, <3>1, AddDevice DEF FrameInv
  <2>2. CASE ~valid
    BY <1>1, <1>5, <2>2 DEF FrameInv, SameBut
  <2>3. QED
    BY <2>1, <2>2
<1>11. m \in Nat
  BY <1>5
<1>12. stack' = <<g>>
  BY <1>1, <1>3 DEF x
<1>13. steady \in BOOLEAN /\ (steady => f.steady /\ (valid <=> n + 1 <= bus.count[kind]))
  <2>1. f.steady \in BOOLEAN
    BY <1>1 DEF FrameInv, FrameTyped
  <2>2. steady <=> f.steady /\ (valid <=> n + 1 <= bus.count[kind])
    BY <1>1, <1>2 DEF Settled
  <2>3. steady \in BOOLEAN
    BY Zenon DEF Settled
  <2>4. QED
    BY <2>2, <2>3
<1> HIDE DEF E, steady
<1>14. f.todo - 1 \in Nat /\ (phase = "add" => f.todo - 1 > 0) /\ phase \in {"add", "virtual"}
  BY <1>1, <1>8
<1>15. phase = "virtual" => f.todo = 1
  BY <1>1
<1> HIDE DEF phase
<1>16. /\ FrameTyped(g)
       /\ g.phase = phase /\ g.devices = E /\ g.todo = f.todo - 1
       /\ g.fast = f.fast /\ g.counts = f.counts /\ g.batteries = f.batteries
       /\ g.position = f.position /\ g.steady = steady
  BY <1>1, <1>2, <1>4, <1>8, <1>13, <1>14 DEF FrameInv, FrameTyped, Phases
<1> HIDE DEF g, n, kind
<1>22. RoomToAdd(g)
  <2>1. m + (f.todo - 1) <= Known[kind]
    BY <1>5, <1>6, <1>7, <1>8, <1>21
  <2>2. QED
    BY <1>10, <1>11, <1>16, <2>1 DEF RoomToAdd, kind
<1>17. ASSUME g.steady
       PROVE  /\ f.todo <= OnBus(kind)
              /\ Numbered(E, kind, OnBus(kind) - (f.todo - 1))
  <2>1. steady /\ f.steady
    BY <1>13, <1>16, <1>17
  <2>2. f.todo <= OnBus(kind) /\ Numbered(f.devices, kind, OnBus(kind) - f.todo)
    BY <1>1, <1>2, <2>1 DEF FrameInv, SteadySoFar, kind
  <2>3. n = OnBus(kind) - f.todo
    <3>1. OnBus(kind) - f.todo \in Nat
      BY <1>6, <1>8, <2>2
    <3>2. QED
      BY <1>5, <2>2, <3>1
  <2>4. n + 1 <= OnBus(kind)
    BY <1>6, <1>8, <2>2, <2>3
  <2>5. valid
    BY <1>6, <1>13, <1>5, <2>1, <2>4
  <2>6. m = OnBus(kind) - (f.todo - 1)
    BY <1>6, <1>8, <2>3, <2>5
  <2>7. QED
    BY <1>10, <2>2, <2>6
<1>18. /\ FollowedSoFar(g)
       /\ g.steady =>
            /\ \A i \in 1..3 : i < g.position =>
                 Numbered(g.devices, Categories[i], OnBus(Categories[i]))
            /\ g.fast => \A i \in 1..3 :
                 i >= g.position => g.counts[Categories[i]] = OnBus(Categories[i])
            /\ g.fast => (g.batteries = 0 <=> bus.battery = "none")
  BY <1>1, <1>4, <1>10, <1>13, <1>16, SameCategory DEF kind
<1>19. ASSUME g.steady
       PROVE  SteadySoFar(g)
  <2>1. g.phase = "add" =>
          /\ g.todo <= OnBus(kind)
          /\ Numbered(g.devices, kind, OnBus(kind) - g.todo)
    <3>1. f.todo - 1 <= OnBus(kind)
      BY <1>6, <1>8, <1>17, <1>19
    <3>2. QED
      BY <1>16, <1>17, <1>19, <3>1
  <2>2. g.phase = "virtual" => Numbered(g.devices, kind, OnBus(kind))
    <3>1. g.phase = "virtual" => OnBus(kind) - (f.todo - 1) = OnBus(kind)
      BY <1>6, <1>8, <1>15, <1>16
    <3>2. QED
      BY <1>16, <1>17, <1>19, <3>1
  <2>3. g.phase # "grow" /\ g.phase # "end"
    BY <1>14, <1>16
  <2>4. QED
    BY <1>16, <1>18, <1>19, <2>1, <2>2, <2>3 DEF SteadySoFar, kind
<1>20. QED
  BY <1>2, <1>10, <1>12, <1>16, <1>18, <1>19, <1>22, NextFrame DEF FrameInv


\* A step of the slow enumeration within a category.
LEMMA SlowFrame ==
  ASSUME NEW f, FrameInv(f), f.fast = FALSE, f.position \in 1..3,
         f.phase \in {"drop", "grow"},
         NEW E, WellNumbered(E), SameBut(f.devices, E, Categories[f.position]),
         NEW phase \in {"drop", "grow", "virtual"},
         NEW steady \in BOOLEAN, steady => f.steady,
         steady /\ phase = "grow" =>
           \E n \in 0..OnBus(Categories[f.position]) : Numbered(E, Categories[f.position], n),
         steady /\ phase = "virtual" =>
           Numbered(E, Categories[f.position], OnBus(Categories[f.position]))
  PROVE  FrameInv([f EXCEPT !.phase = phase, !.devices = E, !.steady = steady])
<1> DEFINE g == [f EXCEPT !.phase = phase, !.devices = E, !.steady = steady]
<1>1. /\ FrameTyped(g)
      /\ g.phase = phase /\ g.devices = E /\ g.steady = steady
      /\ g.fast = f.fast /\ g.counts = f.counts /\ g.batteries = f.batteries
      /\ g.position = f.position
  BY DEF FrameInv, FrameTyped, Phases
<1> HIDE DEF g
<1>2. FollowedSoFar(g) /\ (g.steady => SteadySoFar(g))
  BY <1>1, SameCategory DEF SteadySoFar
<1>3. FrameInv(g)
  BY <1>1, <1>2 DEF FrameInv, RoomToAdd
<1>4. QED
  BY <1>3 DEF g

\* A record with some fields as they were.
LEMMA SameFields ==
  ASSUME NEW f, FrameTyped(f), NEW phase
  PROVE  [f EXCEPT !.phase = phase] = [f EXCEPT !.phase = phase, !.devices = f.devices, !.steady = f.steady]
BY DEF FrameTyped

\* The last device is asked whether it is still there.
LEMMA SlowDropStep ==
  ASSUME EnumInv, SlowDrop
  PROVE  EnumInv'
<1>1. PICK f : stack = <<f>> /\ Current = f /\ FrameInv(f) /\ \A g : Continue(g) => stack' = <<g>>
  BY TheFrame DEF SlowDrop
<1> DEFINE kind == Categories[f.position]
           n == Cardinality(Listed(f, kind))
<1>2. /\ f.phase = "drop"
      /\ UNCHANGED <<forceSlow, children, bus>>
      /\ Kind = kind
  BY <1>1 DEF SlowDrop, Kind
<1>3. f.position \in 1..3 /\ kind \in Kinds /\ f.fast = FALSE /\ f.steady \in BOOLEAN
  BY <1>1, <1>2, InCategory DEF FrameInv, FrameTyped
<1>4. /\ Present = RealOf(f.devices, kind)
      /\ n \in 0..Known[kind]
      /\ Numbered(f.devices, kind, n)
  BY <1>1, <1>2, <1>3, ListedIsReal DEF FrameInv, Present
<1>5. /\ bus.count[kind] \in Nat /\ Known[kind] \in Nat /\ OnBus(kind) \in Nat
      /\ \A m \in Nat : m <= Known[kind] /\ m <= bus.count[kind] => m <= OnBus(kind)
  BY <1>3, BusCounts
<1>6. CASE Present = {} /\ Continue([Current EXCEPT !.phase = "grow"])
  <2>1. stack' = <<[f EXCEPT !.phase = "grow", !.devices = f.devices, !.steady = f.steady]>>
    BY <1>1, <1>6, SameFields DEF FrameInv
  <2>2. 0 \in 0..OnBus(kind) /\ Numbered(f.devices, kind, 0)
    <3>1. 1..0 = {}
      OBVIOUS
    <3>2. QED
      BY <1>4, <1>5, <1>6, <3>1 DEF Numbered
  <2> HIDE DEF kind
  <2>3. FrameInv([f EXCEPT !.phase = "grow", !.devices = f.devices, !.steady = f.steady])
    BY <1>1, <1>2, <1>3, <2>2, SlowFrame DEF FrameInv, SameBut, kind
  <2>4. QED
    BY <1>2, <2>1, <2>3, NextFrame
<1>7. ASSUME NEW last \in LastOf(Present), NEW valid \in Answers(last.index),
             Continue([Current EXCEPT
               !.phase = IF valid THEN "grow" ELSE "drop",
               !.devices = IF valid THEN @ ELSE @ \ {last},
               !.steady = Settled(valid, last.index)])
      PROVE  EnumInv'
  <2> DEFINE E == IF valid THEN Current.devices ELSE Current.devices \ {last}
             phase == IF valid THEN "grow" ELSE "drop"
             steady == Settled(valid, last.index)
  <2>1. stack' = <<[f EXCEPT !.phase = phase, !.devices = E, !.steady = steady]>>
    BY <1>1, <1>7
  <2>2. valid \in BOOLEAN /\ (valid => last.index <= bus.count[kind])
    BY <1>2, AnswerIs
  <2>3. n > 0 /\ last.index = n /\ Numbered(f.devices \ {last}, kind, n - 1)
    <3>1. n \in Nat /\ last \in LastOf(RealOf(f.devices, kind))
      BY <1>4, <1>5
    <3> HIDE DEF n, kind
    <3>2. QED
      BY <1>4, <3>1, DropLast
  <2>4. last.kind = kind /\ last.index > 0
    BY <1>4 DEF LastOf, RealOf
  <2>5. WellNumbered(E) /\ SameBut(f.devices, E, kind)
    <3>1. CASE valid
      BY <1>1, <3>1 DEF FrameInv, SameBut
    <3>2. CASE ~valid
      <4>1. E = f.devices \ {last}
        BY <1>1, <3>2
      <4>2. SameBut(f.devices, E, kind)
        <5>1. \A d \in {last} : d.kind = kind
          BY <2>4
        <5> HIDE DEF E, kind
        <5>2. QED
          BY <4>1, <5>1, SameButRemoved
      <4>3. \A d \in E : d.index \in Nat
        BY <1>1, <4>1 DEF FrameInv, WellNumbered
      <4>4. \A d, e \in Virtuals(E, kind) : d = e
        BY <1>1, <1>3, <4>1 DEF FrameInv, WellNumbered, Virtuals
      <4>5. n - 1 \in 0..Known[kind]
        BY <1>4, <1>5, <2>3
      <4>6. WellNumbered(f.devices) /\ Numbered(E, kind, n - 1)
        BY <1>1, <2>3, <4>1 DEF FrameInv
      <4>7. \E k \in 0..Known[kind] : Numbered(E, kind, k)
        BY <4>5, <4>6
      <4> HIDE DEF E, kind, n
      <4>8. WellNumbered(E)
        BY <1>3, <4>2, <4>3, <4>4, <4>6, <4>7, StillWellNumbered
      <4>9. QED
        BY <4>2, <4>8
    <3>3. QED
      BY <2>2, <3>1, <3>2
  <2>6. steady \in BOOLEAN /\ (steady => f.steady)
    <3>1. steady <=> f.steady /\ (valid <=> last.index <= bus.count[kind])
      BY <1>1, <1>2 DEF Settled
    <3>2. steady \in BOOLEAN
      BY Zenon DEF Settled
    <3>3. QED
      BY <3>1, <3>2
  <2>7. phase \in {"grow", "drop"} /\ (phase = "grow" => valid /\ E = f.devices)
    BY <1>1
  <2>8. phase = "grow" => \E k \in 0..OnBus(kind) : Numbered(E, kind, k)
    <3>1. phase = "grow" => n \in 0..OnBus(kind)
      BY <1>4, <1>5, <2>2, <2>3, <2>7
    <3>2. QED
      BY <1>4, <2>7, <3>1
  <2> HIDE DEF E, phase, steady
  <2>9. FrameInv([f EXCEPT !.phase = phase, !.devices = E, !.steady = steady])
    BY <1>1, <1>2, <1>3, <2>5, <2>6, <2>7, <2>8, SlowFrame
  <2>10. QED
    BY <1>2, <2>1, <2>9, NextFrame
<1>8. QED
  BY <1>6, <1>7 DEF SlowDrop

\* The next address is asked whether there is a device.
LEMMA SlowGrowStep ==
  ASSUME EnumInv, SlowGrow
  PROVE  EnumInv'
<1>1. PICK f : stack = <<f>> /\ Current = f /\ FrameInv(f) /\ \A g : Continue(g) => stack' = <<g>>
  BY TheFrame DEF SlowGrow
<1> DEFINE kind == Categories[f.position]
           n == Cardinality(Listed(f, kind))
<1>2. /\ f.phase = "grow"
      /\ UNCHANGED <<forceSlow, children, bus>>
      /\ Kind = kind
      /\ NextIndex = n + 1
  BY <1>1 DEF SlowGrow, Kind, NextIndex, Present
<1>3. f.position \in 1..3 /\ kind \in Kinds /\ f.fast = FALSE /\ f.steady \in BOOLEAN
  BY <1>1, <1>2, InCategory DEF FrameInv, FrameTyped
<1>4. /\ n \in 0..Known[kind]
      /\ Numbered(f.devices, kind, n)
      /\ \A m \in Nat : Numbered(f.devices, kind, m) => n = m
  BY <1>1, <1>3, ListedIsReal DEF FrameInv
<1>5. /\ bus.count[kind] \in Nat /\ Known[kind] \in Nat
      /\ OnBus(kind) \in Nat /\ OnBus(kind) <= Known[kind] /\ OnBus(kind) <= bus.count[kind]
      /\ \A m \in Nat : m <= Known[kind] /\ m <= bus.count[kind] => m <= OnBus(kind)
  BY <1>3, BusCounts
<1>6. f.steady => n <= OnBus(kind)
  <2>1. SUFFICES ASSUME f.steady PROVE n <= OnBus(kind)
    OBVIOUS
  <2>2. PICK k \in 0..OnBus(kind) : Numbered(f.devices, kind, k)
    BY <1>1, <1>2, <2>1 DEF FrameInv, SteadySoFar
  <2>3. n = k
    BY <1>4, <1>5, <2>2
  <2>4. QED
    BY <2>3, <1>5
<1>7. CASE NextIndex > Known[kind] /\ Continue([Current EXCEPT !.phase = "virtual"])
  <2>1. stack' = <<[f EXCEPT !.phase = "virtual", !.devices = f.devices, !.steady = f.steady]>>
    BY <1>1, <1>7, SameFields DEF FrameInv
  <2>2. f.steady => Numbered(f.devices, kind, OnBus(kind))
    <3>1. f.steady => n = OnBus(kind)
      BY <1>2, <1>4, <1>5, <1>6, <1>7
    <3>2. QED
      BY <1>4, <3>1
  <2> HIDE DEF kind
  <2>3. FrameInv([f EXCEPT !.phase = "virtual", !.devices = f.devices, !.steady = f.steady])
    BY <1>1, <1>2, <1>3, <2>2, SlowFrame DEF FrameInv, SameBut, kind
  <2>4. QED
    BY <1>2, <2>1, <2>3, NextFrame
<1>8. ASSUME NextIndex <= Known[kind], NEW valid \in Answers(NextIndex),
             Continue([Current EXCEPT
               !.phase = IF valid THEN "grow" ELSE "virtual",
               !.devices = IF valid THEN @ \cup {NewDevice(Kind, NextIndex, "valid")} ELSE @,
               !.steady = Settled(valid, NextIndex)])
      PROVE  EnumInv'
  <2> DEFINE x == NewDevice(Kind, NextIndex, "valid")
             E == IF valid THEN Current.devices \cup {x} ELSE Current.devices
             phase == IF valid THEN "grow" ELSE "virtual"
             steady == Settled(valid, NextIndex)
  <2>1. stack' = <<[f EXCEPT !.phase = phase, !.devices = E, !.steady = steady]>>
    BY <1>1, <1>8 DEF x
  <2>2. valid \in BOOLEAN /\ (valid => n + 1 <= bus.count[kind])
    BY <1>2, AnswerIs
  <2>3. x.kind = kind /\ x.index = n + 1
    BY <1>2, NewFields
  <2> HIDE DEF x
  <2>4. n \in Nat /\ n + 1 <= Known[kind]
    BY <1>2, <1>4, <1>5, <1>8
  <2>5. /\ WellNumbered(E) /\ SameBut(f.devices, E, kind)
        /\ valid => Numbered(E, kind, n + 1)
    <3>1. CASE valid
      <4>1. E = f.devices \cup {x}
        BY <1>1, <3>1
      <4> HIDE DEF E, n, kind
      <4>2. QED
        BY <1>1, <1>3, <1>4, <2>3, <2>4, <4>1, AddDevice DEF FrameInv
    <3>2. CASE ~valid
      BY <1>1, <3>2 DEF FrameInv, SameBut
    <3>3. QED
      BY <2>2, <3>1, <3>2
  <2>6. steady \in BOOLEAN /\ (steady => f.steady /\ (valid <=> n + 1 <= bus.count[kind]))
    <3>1. steady <=> f.steady /\ (valid <=> n + 1 <= bus.count[kind])
      BY <1>1, <1>2 DEF Settled
    <3>2. steady \in BOOLEAN
      BY Zenon DEF Settled
    <3>3. QED
      BY <3>1, <3>2
  <2>7. /\ phase \in {"grow", "virtual"}
        /\ phase = "grow" => valid
        /\ phase = "virtual" => ~valid /\ E = f.devices
    BY <1>1, <2>2
  <2>8. phase = "grow" => \E k \in 0..OnBus(kind) : Numbered(E, kind, k)
    <3>1. phase = "grow" => n + 1 \in 0..OnBus(kind)
      BY <1>5, <2>2, <2>4, <2>7
    <3>2. QED
      BY <2>5, <2>7, <3>1
  <2>9. steady /\ phase = "virtual" => Numbered(E, kind, OnBus(kind))
    <3>1. steady /\ phase = "virtual" => n = OnBus(kind)
      BY <1>5, <1>6, <2>4, <2>6, <2>7
    <3>2. QED
      BY <1>4, <2>7, <3>1
  <2> HIDE DEF E, phase, steady
  <2>10. FrameInv([f EXCEPT !.phase = phase, !.devices = E, !.steady = steady])
    BY <1>1, <1>2, <1>3, <2>5, <2>6, <2>7, <2>8, <2>9, SlowFrame
  <2>11. QED
    BY <1>2, <2>1, <2>10, NextFrame
<1>9. QED
  BY <1>2, <1>7, <1>8 DEF SlowGrow


\* The list of devices that UpdateVirtual leaves.
UpdatedList(D, E, kind) ==
  \/ RealOf(D, kind) = {} /\ \E gone \in Virtuals(D, kind) : E = D \ {gone}
  \/ /\ RealOf(D, kind) # {} /\ Virtuals(D, kind) = {}
     /\ \E x : x.kind = kind /\ x.index = 0 /\ E = D \cup {x}
  \/ (RealOf(D, kind) = {} <=> Virtuals(D, kind) = {}) /\ E = D

\* In it the virtual device follows the real ones, and nothing else is new.
LEMMA VirtualUpdated ==
  ASSUME NEW D, NEW E, NEW kind \in Kinds, WellNumbered(D), UpdatedList(D, E, kind)
  PROVE  /\ WellNumbered(E)
         /\ BatteryManagers(E) = BatteryManagers(D)
         /\ Follows(E, kind)
         /\ \A other : other # kind => (Follows(E, other) <=> Follows(D, other))
         /\ \A other, n : Numbered(E, other, n) <=> Numbered(D, other, n)
<1>1. /\ SameBut(D, E, kind)
      /\ RealOf(E, kind) = RealOf(D, kind)
      /\ Follows(E, kind)
      /\ \A d, e \in Virtuals(E, kind) : d = e
      /\ \A d \in E : d.index \in Nat
  <2>1. \A d, e \in Virtuals(D, kind) : d = e
    BY DEF WellNumbered
  <2>2. \A d \in D : d.index \in Nat
    BY DEF WellNumbered
  <2>3. CASE RealOf(D, kind) = {} /\ \E gone \in Virtuals(D, kind) : E = D \ {gone}
    <3>1. PICK gone \in Virtuals(D, kind) : E = D \ {gone}
      BY <2>3
    <3>2. gone.kind = kind /\ gone.index = 0
      BY DEF Virtuals
    <3>3. SameBut(D, E, kind)
      BY <3>1, <3>2 DEF SameBut
    <3>4. RealOf(E, kind) = {} /\ Virtuals(E, kind) = {}
      BY <2>1, <2>3, <3>1, <3>2 DEF RealOf, Virtuals
    <3>5. \A d \in E : d.index \in Nat
      BY <2>2, <3>1
    <3>6. QED
      BY <2>3, <3>3, <3>4, <3>5 DEF Follows
  <2>4. CASE /\ RealOf(D, kind) # {} /\ Virtuals(D, kind) = {}
             /\ \E x : x.kind = kind /\ x.index = 0 /\ E = D \cup {x}
    <3>1. PICK x : x.kind = kind /\ x.index = 0 /\ E = D \cup {x}
      BY <2>4
    <3>2. SameBut(D, E, kind)
      BY <3>1, SameButAdded
    <3>3. RealOf(E, kind) = RealOf(D, kind)
      BY <3>1 DEF RealOf
    <3>4. Virtuals(E, kind) = {x}
      <4>1. \A d : d \in Virtuals(E, kind) <=> d \in Virtuals(D, kind) \/ d = x
        BY <3>1 DEF Virtuals
      <4>2. QED
        BY <2>4, <4>1
    <3>5. \A d \in E : d.index \in Nat
      BY <2>2, <3>1
    <3>6. QED
      BY <2>4, <3>2, <3>3, <3>4, <3>5 DEF Follows
  <2>5. CASE (RealOf(D, kind) = {} <=> Virtuals(D, kind) = {}) /\ E = D
    BY <2>1, <2>2, <2>5 DEF Follows, SameBut
  <2>6. QED
    BY <2>3, <2>4, <2>5 DEF UpdatedList
<1>2. \A n : Numbered(E, kind, n) <=> Numbered(D, kind, n)
  BY <1>1 DEF Numbered
<1>3. \E n \in 0..Known[kind] : Numbered(E, kind, n)
  BY <1>2 DEF WellNumbered
<1>4. WellNumbered(E) /\ BatteryManagers(E) = BatteryManagers(D)
  BY <1>1, <1>3, StillWellNumbered
<1>5. ASSUME NEW other, other # kind
      PROVE  /\ Follows(E, other) <=> Follows(D, other)
             /\ \A n : Numbered(E, other, n) <=> Numbered(D, other, n)
  BY <1>1, <1>5, SameElsewhere
<1>6. QED
  BY <1>1, <1>2, <1>4, <1>5

\* The virtual device of the category is updated and the next category begins.
LEMMA UpdateVirtualStep ==
  ASSUME EnumInv, UpdateVirtual
  PROVE  EnumInv'
<1>1. PICK f : stack = <<f>> /\ Current = f /\ FrameInv(f) /\ \A g : Continue(g) => stack' = <<g>>
  BY TheFrame DEF UpdateVirtual
<1> DEFINE kind == Categories[f.position]
           updated == UpdatedKind
           phase == IF f.position = Len(Categories) THEN "battery"
                    ELSE IF f.fast THEN "delta" ELSE "drop"
           counts == [f.counts EXCEPT ![kind] = 0]
           After(E) == [f EXCEPT !.devices = E, !.position = f.position + 1,
                                 !.phase = phase, !.counts = counts, !.todo = 0]
<1>2. /\ f.phase = "virtual"
      /\ UNCHANGED <<forceSlow, children, bus>>
      /\ Kind = kind
  BY <1>1 DEF UpdateVirtual, Kind
<1>3. /\ f.position \in 1..3 /\ kind \in Kinds /\ f.fast \in BOOLEAN /\ (f.fast => ~forceSlow)
      /\ f.counts \in [Kinds -> Nat]
  BY <1>1, <1>2, InCategory DEF FrameInv, FrameTyped
<1>4. /\ updated \in Kinds
      /\ updated # kind => f.fast /\ kind = "varioString"
  BY <1>1, <1>2, <1>3, KindsAre DEF UpdatedKind
<1> HIDE DEF updated
<1>5. Listed(f, updated) = RealOf(f.devices, updated)
  BY <1>1, <1>4, ListedIsReal DEF FrameInv
<1>6. PICK E : UpdatedList(f.devices, E, updated) /\ stack' = <<After(E)>>
  <2> DEFINE x == NewDevice(updated, 0, "valid")
  <2>1. x.kind = updated /\ x.index = 0
    BY NewFields
  <2> HIDE DEF x
  <2> DEFINE CurrentAfter(objects) ==
               [Current EXCEPT
                 !.devices = objects,
                 !.position = @ + 1,
                 !.phase = IF Current.position = Len(Categories) THEN "battery"
                           ELSE IF Current.fast THEN "delta" ELSE "drop",
                 !.counts = [@ EXCEPT ![Kind] = 0], !.todo = 0]
  <2>2. \/ /\ Listed(Current, updated) = {}
           /\ \E gone \in Virtuals(Current.devices, updated) :
                Continue(CurrentAfter(Current.devices \ {gone}))
        \/ /\ Listed(Current, updated) # {} /\ Virtuals(Current.devices, updated) = {}
           /\ Continue(CurrentAfter(Current.devices \cup {x}))
        \/ /\ (Listed(Current, updated) = {}) <=> (Virtuals(Current.devices, updated) = {})
           /\ Continue(CurrentAfter(Current.devices))
    BY Zenon DEF UpdateVirtual, updated, x
  <2>3. \A objects : CurrentAfter(objects) = After(objects)
    BY <1>1, <1>2
  <2> HIDE DEF CurrentAfter, phase, counts, After
  <2>4. ASSUME NEW objects, Continue(CurrentAfter(objects))
        PROVE  stack' = <<After(objects)>>
    BY <1>1, <2>3, <2>4
  <2>5. \/ /\ RealOf(f.devices, updated) = {}
           /\ \E gone \in Virtuals(f.devices, updated) : stack' = <<After(f.devices \ {gone})>>
        \/ /\ RealOf(f.devices, updated) # {} /\ Virtuals(f.devices, updated) = {}
           /\ stack' = <<After(f.devices \cup {x})>>
        \/ /\ (RealOf(f.devices, updated) = {}) <=> (Virtuals(f.devices, updated) = {})
           /\ stack' = <<After(f.devices)>>
    BY <1>1, <1>5, <2>2, <2>4
  <2>6. QED
    BY <2>1, <2>5 DEF UpdatedList
<1> DEFINE g == After(E)
<1>7. /\ phase = "battery" <=> f.position = 3
      /\ phase \in {"battery", "delta", "drop"}
      /\ phase = "delta" => f.fast
      /\ phase = "drop" => ~f.fast
  BY <1>3, KindsAre
<1>8. /\ counts \in [Kinds -> Nat]
      /\ \A other \in Kinds : other # kind => counts[other] = f.counts[other]
      /\ f.fast => \A other \in Kinds : counts[other] <= Known[other]
  <2>1. Known[kind] \in Nat /\ (f.fast => \A other \in Kinds : f.counts[other] <= Known[other])
    BY <1>1, <1>3, EnumerationAssumption DEF FrameInv, FrameTyped
  <2>2. QED
    BY <1>3, <2>1
<1> HIDE DEF phase, counts
<1>9. /\ FrameTyped(g)
      /\ g.devices = E /\ g.position = f.position + 1 /\ g.phase = phase /\ g.counts = counts
      /\ g.fast = f.fast /\ g.batteries = f.batteries /\ g.steady = f.steady
  <2>1. f.position + 1 \in 1..4 /\ (f.position + 1 = 4 <=> f.position = 3)
    BY <1>3
  <2>2. QED
    BY <1>1, <1>2, <1>3, <1>7, <1>8, <2>1 DEF FrameInv, FrameTyped, Phases
<1> HIDE DEF g
<1>10. /\ WellNumbered(E)
       /\ Follows(E, updated)
       /\ \A other : other # updated => (Follows(E, other) <=> Follows(f.devices, other))
       /\ \A other, n : Numbered(E, other, n) <=> Numbered(f.devices, other, n)
  BY <1>1, <1>4, <1>6, VirtualUpdated DEF FrameInv
<1>11. \A i \in 1..3 : i < g.position => i < f.position \/ i = f.position
  BY <1>3, <1>9
<1>12. FollowedSoFar(g)
  <2>1. SUFFICES ASSUME NEW i \in 1..3, i < g.position, Followed(Categories[i])
                 PROVE  Follows(E, Categories[i])
    BY <1>9 DEF FollowedSoFar
  <2>2. CASE Categories[i] = updated
    BY <1>10, <2>2
  <2>3. CASE Categories[i] # updated
    <3>1. i = f.position => ~Followed(Categories[i])
      BY <1>3, <1>4, <2>3 DEF Followed
    <3>2. i < f.position
      BY <1>11, <2>1, <3>1
    <3>3. Follows(f.devices, Categories[i])
      BY <1>1, <2>1, <3>2 DEF FrameInv, FollowedSoFar
    <3>4. QED
      BY <1>10, <2>3, <3>3
  <2>4. QED
    BY <2>2, <2>3
<1>13. ASSUME g.steady
       PROVE  SteadySoFar(g)
  <2>1. SteadySoFar(f)
    BY <1>1, <1>9, <1>13 DEF FrameInv
  <2>2. \A i \in 1..3 : i < g.position =>
          Numbered(g.devices, Categories[i], OnBus(Categories[i]))
    BY <1>2, <1>9, <1>10, <1>11, <2>1 DEF SteadySoFar
  <2>3. g.fast => \A i \in 1..3 : i >= g.position => g.counts[Categories[i]] = OnBus(Categories[i])
    <3>1. \A i \in 1..3 : i >= f.position + 1 => i >= f.position /\ Categories[i] # kind
      BY <1>3, KindsAre
    <3> HIDE DEF kind
    <3>2. QED
      BY <1>8, <1>9, <2>1, <3>1, KindsAre DEF SteadySoFar
  <2>4. g.phase \notin {"add", "grow", "virtual", "end"}
    BY <1>7, <1>9
  <2>5. QED
    BY <1>9, <2>1, <2>2, <2>3, <2>4 DEF SteadySoFar
<1>15. RoomToAdd(g)
  BY <1>7, <1>9 DEF RoomToAdd
<1>14. QED
  BY <1>2, <1>6, <1>9, <1>10, <1>12, <1>13, <1>15, NextFrame DEF FrameInv, g


\* The end of the battery manager's turn.
LEMMA EndFrame ==
  ASSUME NEW f, FrameInv(f), f.phase = "battery",
         NEW E, SameBut(f.devices, E, "battery"),
         \A d \in E : d.index \in Nat,
         \A d, e \in BatteryManagers(E) : d = e,
         \A d \in BatteryManagers(E) : d.model # "none",
         NEW steady \in BOOLEAN, steady => f.steady,
         steady => {d.model : d \in BatteryManagers(E)} = {bus.battery} \ {"none"}
  PROVE  FrameInv([f EXCEPT !.phase = "end", !.devices = E, !.steady = steady])
<1> DEFINE g == [f EXCEPT !.phase = "end", !.devices = E, !.steady = steady]
<1>1. /\ FrameTyped(g)
      /\ g.phase = "end" /\ g.devices = E /\ g.steady = steady
      /\ g.fast = f.fast /\ g.counts = f.counts /\ g.batteries = f.batteries
      /\ g.position = f.position
  BY DEF FrameInv, FrameTyped, Phases
<1> HIDE DEF g
<1>2. ASSUME NEW kind \in Kinds
      PROVE  /\ \A n : Numbered(E, kind, n) <=> Numbered(f.devices, kind, n)
             /\ Virtuals(E, kind) = Virtuals(f.devices, kind)
             /\ Follows(E, kind) <=> Follows(f.devices, kind)
  <2>1. kind # "battery"
    BY KindsAre
  <2>2. QED
    BY <2>1, SameElsewhere
<1>3. WellNumbered(E)
  BY <1>2 DEF WellNumbered, FrameInv
<1>4. FollowedSoFar(g)
  BY <1>1, <1>2, KindsAre DEF FollowedSoFar, FrameInv
<1>5. g.steady => SteadySoFar(g)
  <2>1. SUFFICES ASSUME g.steady PROVE SteadySoFar(g)
    OBVIOUS
  <2>2. SteadySoFar(f)
    BY <1>1, <2>1 DEF FrameInv
  <2>3. \A i \in 1..3 : i < g.position =>
          Numbered(g.devices, Categories[i], OnBus(Categories[i]))
    BY <1>1, <1>2, <2>2, KindsAre DEF SteadySoFar
  <2>4. QED
    BY <1>1, <2>1, <2>2, <2>3 DEF SteadySoFar
<1>6. FrameInv(g)
  BY <1>1, <1>3, <1>4, <1>5 DEF FrameInv, RoomToAdd
<1>7. QED
  BY <1>6 DEF g

\* The one battery manager that is known is all there are.
LEMMA TheManager ==
  ASSUME NEW D, WellNumbered(D), NEW manager \in SUBSET BatteryManagers(D),
         Cardinality(manager) = IF BatteryManagers(D) = {} THEN 0 ELSE 1
  PROVE  manager = BatteryManagers(D)
<1>1. CASE BatteryManagers(D) = {}
  BY <1>1
<1>2. CASE BatteryManagers(D) # {}
  <2>1. Cardinality(manager) = 1 /\ Cardinality({}) = 0
    BY <1>2, FS_EmptySet
  <2>2. manager # {}
    BY <2>1
  <2>3. QED
    BY <2>2 DEF WellNumbered
<1>3. QED
  BY <1>1, <1>2

\* No battery manager is counted.
LEMMA NoBatteryStep ==
  ASSUME EnumInv, NoBattery
  PROVE  EnumInv'
<1>1. PICK f : stack = <<f>> /\ Current = f /\ FrameInv(f) /\ \A g : Continue(g) => stack' = <<g>>
  BY TheFrame DEF NoBattery
<1>2. /\ f.phase = "battery" /\ f.fast /\ f.batteries = 0
      /\ UNCHANGED <<forceSlow, children, bus>>
  BY <1>1 DEF NoBattery
<1>3. PICK gone \in SUBSET BatteryManagers(f.devices) :
        /\ Cardinality(gone) = IF BatteryManagers(f.devices) = {} THEN 0 ELSE 1
        /\ Continue([f EXCEPT !.phase = "end", !.devices = @ \ gone])
  BY <1>1 DEF NoBattery
<1>4. gone = BatteryManagers(f.devices)
  BY <1>1, <1>3, TheManager DEF FrameInv
<1> DEFINE E == f.devices \ gone
<1>5. stack' = <<[f EXCEPT !.phase = "end", !.devices = E, !.steady = f.steady]>>
  <2>1. [f EXCEPT !.phase = "end", !.devices = E] = [f EXCEPT !.phase = "end", !.devices = E, !.steady = f.steady]
    BY <1>1 DEF FrameInv, FrameTyped
  <2>2. QED
    BY <1>1, <1>3, <2>1
<1>6. /\ BatteryManagers(E) = {}
      /\ SameBut(f.devices, E, "battery")
      /\ \A d \in E : d.index \in Nat
  BY <1>1, <1>4 DEF BatteryManagers, SameBut, FrameInv, WellNumbered
<1>7. f.steady \in BOOLEAN /\ (f.steady => bus.battery = "none")
  BY <1>1, <1>2 DEF FrameInv, FrameTyped, SteadySoFar
<1>8. f.steady => {d.model : d \in BatteryManagers(E)} = {bus.battery} \ {"none"}
  BY <1>6, <1>7
<1> HIDE DEF E
<1>9. FrameInv([f EXCEPT !.phase = "end", !.devices = E, !.steady = f.steady])
  BY <1>1, <1>2, <1>6, <1>7, <1>8, EndFrame
<1>10. QED
  BY <1>2, <1>5, <1>9, NextFrame

\* The battery manager is asked for its model.
LEMMA ReadBatteryStep ==
  ASSUME EnumInv, ReadBattery
  PROVE  EnumInv'
<1>1. PICK f : stack = <<f>> /\ Current = f /\ FrameInv(f) /\ \A g : Continue(g) => stack' = <<g>>
  BY TheFrame DEF ReadBattery
<1>2. /\ f.phase = "battery"
      /\ UNCHANGED <<forceSlow, children, bus>>
  BY <1>1 DEF ReadBattery
<1> DEFINE D == f.devices
           stays(manager, model) == {d \in manager : d.model = model}
           added(manager, model) ==
             IF model # "none" /\ stays(manager, model) = {} THEN {NewDevice("battery", 1, model)} ELSE {}
           steady(model) == Current.steady /\ model = bus.battery
<1>3. PICK model \in {bus.battery} \cup (IF Faulty THEN {"none"} ELSE {}),
           manager \in SUBSET BatteryManagers(Current.devices) :
        /\ Cardinality(manager) = IF BatteryManagers(Current.devices) = {} THEN 0 ELSE 1
        /\ Continue([Current EXCEPT
             !.phase = "end",
             !.devices = (@ \ (manager \ stays(manager, model))) \cup added(manager, model),
             !.steady = @ /\ model = bus.battery])
  BY Zenon DEF ReadBattery
<1>4. manager = BatteryManagers(D)
  BY <1>1, <1>3, TheManager DEF FrameInv
<1> DEFINE x == NewDevice("battery", 1, model)
           E == (Current.devices \ (manager \ stays(manager, model))) \cup added(manager, model)
<1>5. stack' = <<[f EXCEPT !.phase = "end", !.devices = E, !.steady = steady(model)]>>
  BY <1>1, <1>3 DEF x
<1>6. x.kind = "battery" /\ x.index = 1 /\ x.model = model
  BY NewFields
<1>7. steady(model) \in BOOLEAN /\ (steady(model) => f.steady /\ model = bus.battery)
  <2>1. f.steady \in BOOLEAN
    BY <1>1 DEF FrameInv, FrameTyped
  <2>2. steady(model) <=> f.steady /\ model = bus.battery
    BY <1>1
  <2>3. steady(model) \in BOOLEAN
    BY Zenon
  <2>4. QED
    BY <2>2, <2>3
<1>8. /\ \A d, e \in manager : d = e
      /\ \A d \in manager : d.kind = "battery" /\ d.model # "none"
      /\ \A d \in D : d.index \in Nat
  BY <1>1, <1>4 DEF FrameInv, WellNumbered, BatteryManagers
<1> HIDE DEF x
<1>9. E = (D \ manager) \cup stays(manager, model)
            \cup (IF model # "none" /\ stays(manager, model) = {} THEN {x} ELSE {})
  <2>1. manager \subseteq D
    BY <1>4 DEF BatteryManagers
  <2>2. QED
    BY <1>1, <2>1 DEF x
<1>10. BatteryManagers(E) = stays(manager, model)
            \cup (IF model # "none" /\ stays(manager, model) = {} THEN {x} ELSE {})
  BY <1>4, <1>6, <1>8, <1>9 DEF BatteryManagers
<1>11. SameBut(D, E, "battery")
  BY <1>4, <1>6, <1>8, <1>9 DEF SameBut, BatteryManagers
<1>12. \A d \in E : d.index \in Nat
  <2>1. \A d \in E : d \in D \/ d = x
    BY <1>4, <1>9 DEF BatteryManagers
  <2> HIDE DEF E
  <2>2. QED
    BY <1>6, <1>8, <2>1
<1> HIDE DEF E
<1>13. /\ \A d, e \in BatteryManagers(E) : d = e
       /\ \A d \in BatteryManagers(E) : d.model # "none"
       /\ {d.model : d \in BatteryManagers(E)} = {model} \ {"none"}
  <2>1. CASE model = "none"
    <3>1. BatteryManagers(E) = {}
      BY <1>8, <1>10, <2>1
    <3>2. QED
      BY <2>1, <3>1
  <2>2. CASE model # "none" /\ stays(manager, model) = {}
    <3>1. BatteryManagers(E) = {x}
      BY <1>10, <2>2
    <3>2. QED
      BY <1>6, <2>2, <3>1
  <2>3. CASE model # "none" /\ stays(manager, model) # {}
    <3>1. BatteryManagers(E) = stays(manager, model)
      BY <1>10, <2>3
    <3>2. QED
      BY <1>8, <2>3, <3>1
  <2>4. QED
    BY <2>1, <2>2, <2>3
<1> DEFINE settled == steady(model)
<1>14. settled => {d.model : d \in BatteryManagers(E)} = {bus.battery} \ {"none"}
  BY <1>7, <1>13
<1> HIDE DEF settled
<1>15. FrameInv([f EXCEPT !.phase = "end", !.devices = E, !.steady = settled])
  BY <1>1, <1>2, <1>7, <1>11, <1>12, <1>13, <1>14, EndFrame DEF settled
<1>16. QED
  BY <1>2, <1>5, <1>15, NextFrame DEF settled


\* The objects are those the driver has left, if nobody else changed them.
LEMMA EndEnumerationStep ==
  ASSUME EnumInv, EndEnumeration
  PROVE  /\ EnumInv'
         /\ children' = Current.devices
         /\ Current.steady => SteadySoFar(Current) /\ Current.phase = "end" /\ Current.position = 4
<1>1. PICK f : stack = <<f>> /\ Current = f /\ FrameInv(f)
  BY TheFrame DEF EndEnumeration
<1>2. /\ f.phase = "end" /\ f.position = 4 /\ f.existing = children
      /\ UNCHANGED <<forceSlow, bus>>
  BY <1>1 DEF EndEnumeration, FrameInv, FrameTyped
<1>3. children' = f.devices
  BY <1>1, <1>2 DEF EndEnumeration
<1>4. stack' = <<>>
  <2>1. Tail(<<f>>) = <<>>
    OBVIOUS
  <2>2. QED
    BY <1>1, <2>1 DEF EndEnumeration
<1>5. BusTyped'
  BY <1>2 DEF EnumInv, BusTyped
<1>6. WellNumbered(children)'
  BY <1>1, <1>3 DEF FrameInv, WellNumbered
<1>7. (\A i \in 1..3 : Followed(Categories[i]) => Follows(children, Categories[i]))'
  <2>1. \A i \in 1..3 : i < f.position
    BY <1>2
  <2>2. \A i \in 1..3 : Followed(Categories[i]) => Follows(f.devices, Categories[i])
    BY <1>1, <2>1 DEF FrameInv, FollowedSoFar
  <2>3. QED
    BY <1>2, <1>3, <2>2 DEF Followed
<1>8. EnumInv'
  BY <1>4, <1>5, <1>6, <1>7 DEF EnumInv
<1>9. QED
  BY <1>1, <1>2, <1>3, <1>8 DEF FrameInv

\* A snapshot of the objects is taken.
LEMMA BeginEnumerationStep ==
  ASSUME AloneWithinRange, EnumInv, BeginEnumeration
  PROVE  EnumInv'
<1>1. stack = <<>>
  <2>1. stack # <<>> => Len(stack) = 1
    <3>1. \A h : Len(<<h>>) = 1
      OBVIOUS
    <3>2. QED
      BY <3>1 DEF EnumInv
  <2>2. ~(1 < MaxNesting)
    BY DEF AloneWithinRange
  <2>3. QED
    BY <2>1, <2>2 DEF BeginEnumeration
<1> DEFINE phase == IF forceSlow THEN "drop" ELSE "counts"
           counts == [k \in Kinds |-> 0]
           g == [existing |-> children, devices |-> children, phase |-> phase,
                 position |-> 1, fast |-> FALSE, counts |-> counts,
                 batteries |-> 0, todo |-> 0, steady |-> TRUE]
<1>2. stack' = <<g>> /\ UNCHANGED <<forceSlow, children, bus>>
  <2>1. [i \in DOMAIN <<>> |-> [stack[i] EXCEPT !.steady = FALSE]] = <<>>
    OBVIOUS
  <2> HIDE DEF phase, counts
  <2>2. <<g>> \o <<>> = <<g>>
    OBVIOUS
  <2>3. stack' = <<g>> \o [i \in DOMAIN stack |-> [stack[i] EXCEPT !.steady = FALSE]]
    BY Zenon DEF BeginEnumeration, phase, counts
  <2>4. QED
    BY <1>1, <2>1, <2>2, <2>3 DEF BeginEnumeration
<1>3. phase \in {"drop", "counts"} /\ (phase = "counts" => ~forceSlow)
  BY DEF EnumInv, BusTyped
<1>4. counts \in [Kinds -> Nat]
  OBVIOUS
<1> HIDE DEF phase, counts
<1>5. /\ FrameTyped(g)
      /\ g.devices = children /\ g.position = 1 /\ g.fast = FALSE /\ g.phase = phase
  BY <1>3, <1>4 DEF FrameTyped, Phases
<1> HIDE DEF g
<1>6. WellNumbered(g.devices) /\ FollowedSoFar(g) /\ RoomToAdd(g)
  BY <1>3, <1>5 DEF EnumInv, FollowedSoFar, RoomToAdd
<1>7. SteadySoFar(g)
  BY <1>3, <1>5 DEF SteadySoFar
<1>8. QED
  BY <1>2, <1>5, <1>6, <1>7, NextFrame DEF FrameInv

\* Whatever happens to the bus unsettles the enumeration and nothing else.
LEMMA ChangeBusStep ==
  ASSUME EnumInv, ChangeBus
  PROVE  EnumInv'
<1>1. UNCHANGED <<forceSlow, children>>
  BY DEF ChangeBus
<1>2. BusTyped'
  <2>1. /\ bus \in [count : [Kinds -> Nat], battery : BatteryModels \cup {"none"}]
        /\ \A k \in Kinds : bus.count[k] <= BusCount[k]
        /\ \A k \in Kinds : BusCount[k] \in Nat
        /\ forceSlow \in BOOLEAN /\ forceSlow \in SlowChoices
    BY EnumerationAssumption DEF EnumInv, BusTyped
  <2>2. CASE \E k \in Kinds : \E n \in 0..BusCount[k] : bus' = [bus EXCEPT !.count[k] = n]
    <3>1. PICK k \in Kinds : \E n \in 0..BusCount[k] : bus' = [bus EXCEPT !.count[k] = n]
      BY <2>2
    <3>2. PICK n \in 0..BusCount[k] : bus' = [bus EXCEPT !.count[k] = n]
      BY <3>1
    <3>3. n \in Nat /\ n <= BusCount[k]
      BY <2>1, <3>2
    <3>4. /\ bus'.count = [bus.count EXCEPT ![k] = n] /\ bus'.battery = bus.battery
          /\ bus' \in [count : [Kinds -> Nat], battery : BatteryModels \cup {"none"}]
      BY <2>1, <3>2, <3>3
    <3>5. \A j \in Kinds : bus'.count[j] <= BusCount[j]
      BY <2>1, <3>3, <3>4
    <3>6. QED
      BY <1>1, <2>1, <3>4, <3>5 DEF BusTyped
  <2>3. CASE \E model \in BatteryModels \cup {"none"} : bus' = [bus EXCEPT !.battery = model]
    BY <1>1, <2>1, <2>3 DEF BusTyped
  <2>4. QED
    BY <2>2, <2>3 DEF ChangeBus
<1>3. WellNumbered(children)'
  BY <1>1 DEF EnumInv, WellNumbered
<1>4. (\A i \in 1..3 : Followed(Categories[i]) => Follows(children, Categories[i]))'
  BY <1>1 DEF EnumInv, Followed
<1>5. CASE stack = <<>>
  <2>1. stack' = <<>>
    BY <1>5 DEF ChangeBus
  <2>2. QED
    BY <1>2, <1>3, <1>4, <2>1 DEF EnumInv
<1>6. CASE stack # <<>>
  <2>1. PICK f : stack = <<f>> /\ FrameInv(f)
    BY <1>6, TheFrame
  <2> DEFINE g == [f EXCEPT !.steady = FALSE]
  <2>2. stack' = <<g>>
    <3>1. stack' = [i \in DOMAIN stack |-> [stack[i] EXCEPT !.steady = FALSE]]
      BY DEF ChangeBus
    <3>2. [i \in DOMAIN <<f>> |-> [<<f>>[i] EXCEPT !.steady = FALSE]] = <<g>>
      <4>1. DOMAIN <<f>> = {1} /\ <<f>>[1] = f
        OBVIOUS
      <4>2. [i \in DOMAIN <<f>> |-> [<<f>>[i] EXCEPT !.steady = FALSE]] = [i \in {1} |-> g]
        BY <4>1
      <4> HIDE DEF g
      <4>3. <<g>> = [i \in {1} |-> g]
        OBVIOUS
      <4>4. QED
        BY <4>2, <4>3
    <3>3. QED
      BY <2>1, <3>1, <3>2
  <2>3. /\ FrameTyped(g)
        /\ g.devices = f.devices /\ g.position = f.position /\ g.steady = FALSE
        /\ g.phase = f.phase /\ g.todo = f.todo
    BY <2>1 DEF FrameInv, FrameTyped
  <2> HIDE DEF g
  <2>4. WellNumbered(g.devices) /\ FollowedSoFar(g) /\ RoomToAdd(g)
    BY <2>1, <2>3 DEF FrameInv, FollowedSoFar, RoomToAdd
  <2>5. FrameInv(g)'
    <3>1. FrameTyped(g)'
      BY <1>1, <2>3 DEF FrameTyped
    <3>2. WellNumbered(g.devices)' /\ FollowedSoFar(g)' /\ RoomToAdd(g)'
      BY <1>1, <2>4 DEF FollowedSoFar, Followed, RoomToAdd
    <3>3. QED
      BY <2>3, <3>1, <3>2 DEF FrameInv
  <2>6. Head(stack') = g /\ stack' = <<Head(stack')>>
    BY <2>2
  <2>7. QED
    BY <1>2, <1>3, <1>4, <2>5, <2>6 DEF EnumInv
<1>7. QED
  BY <1>5, <1>6

\* Nothing has been enumerated yet.
LEMMA EnumInit ==
  ASSUME Init
  PROVE  EnumInv
<1>1. children = {} /\ stack = <<>> /\ bus.count = [k \in Kinds |-> 0] /\ bus.battery = "none" /\ forceSlow \in BOOLEAN
  BY EnumerationAssumption DEF Init
<1>2. BusTyped
  BY <1>1, EnumerationAssumption DEF BusTyped, Init
<1>3. WellNumbered({})
  <2>1. 1..0 = {}
    OBVIOUS
  <2>2. \A kind \in Kinds : 0 \in 0..Known[kind] /\ Numbered({}, kind, 0)
    BY <2>1, EnumerationAssumption DEF Numbered, RealOf
  <2>3. QED
    BY <2>2 DEF WellNumbered, Virtuals, BatteryManagers
<1>4. \A kind : Follows({}, kind)
  BY DEF Follows, Virtuals, RealOf
<1>5. QED
  BY <1>1, <1>2, <1>3, <1>4 DEF EnumInv

\* EnumInv is kept by every step, with no nested enumeration and no count taken
\* beyond the known addresses.
THEOREM EnumerationInductive ==
  ASSUME AloneWithinRange
  PROVE  Spec => []EnumInv
<1>1. EnumInv /\ [Next]_vars => EnumInv'
  <2>1. SUFFICES ASSUME EnumInv, [Next]_vars
                 PROVE  EnumInv'
    OBVIOUS
  <2>2. CASE BeginEnumeration
    BY <2>1, <2>2, BeginEnumerationStep
  <2>3. CASE ReadCounts
    BY <2>1, <2>3, ReadCountsStep
  <2>4. CASE FallBack
    BY <2>1, <2>4, FallBackStep
  <2>5. CASE CompareCount
    BY <2>1, <2>5, CompareCountStep
  <2>6. CASE FastAdd
    BY <2>1, <2>6, FastAddStep
  <2>7. CASE SlowDrop
    BY <2>1, <2>7, SlowDropStep
  <2>8. CASE SlowGrow
    BY <2>1, <2>8, SlowGrowStep
  <2>9. CASE UpdateVirtual
    BY <2>1, <2>9, UpdateVirtualStep
  <2>10. CASE NoBattery
    BY <2>1, <2>10, NoBatteryStep
  <2>11. CASE ReadBattery
    BY <2>1, <2>11, ReadBatteryStep
  <2>12. CASE EndEnumeration
    BY <2>1, <2>12, EndEnumerationStep
  <2>13. CASE ChangeBus
    BY <2>1, <2>13, ChangeBusStep
  <2>14. CASE UNCHANGED vars
    <3>1. forceSlow' = forceSlow /\ children' = children /\ bus' = bus /\ stack' = stack
      BY <2>14 DEF vars
    <3>2. QED
      BY <2>1, <3>1 DEF EnumInv, BusTyped, WellNumbered, Followed, FrameInv, FrameTyped, FollowedSoFar, RoomToAdd, SteadySoFar, OnBus
  <2>15. QED
    BY <2>1, <2>2, <2>3, <2>4, <2>5, <2>6, <2>7, <2>8, <2>9, <2>10, <2>11, <2>12, <2>13, <2>14 DEF Next
<1>2. Init => EnumInv
  BY EnumInit
<1>3. QED
  BY <1>1, <1>2, PTL DEF Spec

\* The real devices of a category have consecutive addresses from the first on,
\* whatever the bus does meanwhile and whichever requests fail.
THEOREM AddressesAreConsecutive ==
  ASSUME AloneWithinRange
  PROVE  Spec => []ConsecutiveAddresses
<1>1. EnumInv => ConsecutiveAddresses
  <2>1. SUFFICES ASSUME EnumInv, NEW kind \in Kinds
                 PROVE  {d.index : d \in Reals(kind)} = 1..Cardinality(Reals(kind))
    BY DEF ConsecutiveAddresses
  <2>2. Reals(kind) = RealOf(children, kind)
    BY DEF Reals, RealOf
  <2>3. PICK n \in 0..Known[kind] : Numbered(children, kind, n)
    BY <2>1 DEF EnumInv, WellNumbered
  <2>4. n \in Nat
    BY <2>3, EnumerationAssumption
  <2>5. Cardinality(RealOf(children, kind)) = n
    BY <2>3, <2>4, Counted DEF Numbered
  <2>6. QED
    BY <2>2, <2>3, <2>5 DEF Numbered
<1>2. QED
  BY <1>1, EnumerationInductive, PTL

\* A category has a virtual device exactly if it has a real one; that of the
\* VarioStrings only under the slow enumeration.
THEOREM VirtualDevicesFollow ==
  ASSUME AloneWithinRange
  PROVE  Spec => []VirtualFollowsReal
<1>1. EnumInv => VirtualFollowsReal
  <2>1. SUFFICES ASSUME EnumInv PROVE VirtualFollowsReal
    OBVIOUS
  <2>2. \A kind : Reals(kind) = RealOf(children, kind)
    BY DEF Reals, RealOf
  <2>3. \A i \in 1..3 : Followed(Categories[i]) => Follows(children, Categories[i])
    BY <2>1 DEF EnumInv
  <2>4. /\ Follows(children, "xtender")
        /\ Follows(children, "varioTrack")
        /\ forceSlow => Follows(children, "varioString")
    <3>1. 1 \in 1..3 /\ 2 \in 1..3 /\ 3 \in 1..3
      OBVIOUS
    <3>2. QED
      BY <2>3, <3>1, KindsAre DEF Followed
  <2>5. QED
    BY <2>2, <2>4 DEF VirtualFollowsReal, VirtualVarioStringFollowsReal, Follows
<1>2. QED
  BY <1>1, EnumerationInductive, PTL

\* An enumeration during which the bus did not change and no request failed
\* ends with exactly the devices at the known addresses of the bus.
THEOREM UndisturbedEnumerationMirrors ==
  ASSUME AloneWithinRange
  PROVE  Spec => EnumerationMirrorsBus
<1>1. EnumInv /\ [Next]_vars => [EndEnumeration /\ Current.steady => MirrorsBus']_vars
  <2>1. SUFFICES ASSUME EnumInv, EndEnumeration, Current.steady
                 PROVE  MirrorsBus'
    OBVIOUS
  <2>2. /\ children' = Current.devices /\ bus' = bus
        /\ SteadySoFar(Current) /\ Current.phase = "end" /\ Current.position = 4
    BY <2>1, EndEnumerationStep DEF EndEnumeration
  <2>3. /\ \A i \in 1..3 : Numbered(children', Categories[i], OnBus(Categories[i]))
        /\ {d.model : d \in BatteryManagers(children')} = {bus.battery} \ {"none"}
    BY <2>2 DEF SteadySoFar
  <2>4. \A kind \in Kinds : Numbered(children', kind, OnBus(kind))
    <3>1. 1 \in 1..3 /\ 2 \in 1..3 /\ 3 \in 1..3
      OBVIOUS
    <3>2. QED
      BY <2>3, <3>1, KindsAre
  <2>5. \A kind \in Kinds : {d.index : d \in Reals(kind)'} = 1..OnBus(kind)'
    <3>1. \A kind : Reals(kind)' = RealOf(children', kind)
      BY DEF Reals, RealOf
    <3>2. \A kind : OnBus(kind)' = OnBus(kind)
      BY <2>2 DEF OnBus
    <3>3. QED
      BY <2>4, <3>1, <3>2 DEF Numbered
  <2>6. QED
    BY <2>2, <2>3, <2>5 DEF MirrorsBus, BatteryManagers
<1>2. QED
  BY <1>1, EnumerationInductive, PTL DEF Spec, EnumerationMirrorsBus

-----------------------------------------------------------------------------
(* Sessions.                                                               *)

\* A value can be read of the property, by its address and by the level.
Readable(level, id) == PropertyOf(id).readable /\ PropertyOf(id).level <= level

SessionsInv ==
  /\ devices \subseteq Devices
  /\ DOMAIN sessions \subseteq Clients
  /\ \A c \in DOMAIN sessions : sessions[c].level \in Nat
  /\ DOMAIN granted = Clients
  /\ \A id \in DOMAIN subscriptions : subscriptions[id] \subseteq DOMAIN sessions
  /\ UpdatesAsAnswered

\* What a reply to a request to subscribe to id, or to end it, says and does.
Subscribing(level, id, reply) ==
  /\ reply.remove = {}
  /\ IF reply.status = "Success" THEN reply.add = {id} /\ Readable(level, id) ELSE reply.add = {}

Unsubscribing(id, reply) ==
  /\ reply.add = {}
  /\ reply.remove = IF reply.status = "Success" THEN {id} ELSE {}

NoEffect(reply) == reply.add = {} /\ reply.remove = {}

\* Replies with and without effect.
LEMMA Replies ==
  /\ \A status : Reply(status).status = status /\ NoEffect(Reply(status))
  /\ \A ids : NoEffect(Listing(ids))
  /\ \A kind, ids : NoEffect(Queued(kind, ids))
  /\ \A id, flags, value : NoEffect(QueuedWrite(id, flags, value))
  /\ \A kind, arguments : NoEffect(Stored(kind, arguments))
  /\ InvalidFrame.status # "Success" /\ NoEffect(InvalidFrame)
BY DEF Reply, Listing, Queued, QueuedWrite, Stored, InvalidFrame, NoEffect

\* Only a property that resolves and may be read is subscribed to.
LEMMA SubscribeReply ==
  ASSUME devices \subseteq Devices, NEW level \in Nat, NEW id,
         ~Hidden(level, id), PropertyOf(id).readable
  PROVE  Subscribing(level, id, Subscribe(id))
<1>1. Resolves(id) /\ ~(level < PropertyOf(id).level)
  BY DEF Hidden
<1>2. PropertyOf(id).level \in Nat
  BY <1>1, SessionRequestAssumption DEF Resolves, PropertyOf
<1>3. Readable(level, id)
  BY <1>1, <1>2 DEF Readable
<1>4. Subscribe(id).status = "Success" /\ Subscribe(id).add = {id} /\ Subscribe(id).remove = {}
  BY <1>1 DEF Subscribe, Reply
<1>5. QED
  BY <1>3, <1>4 DEF Subscribing

\* The handlers of both transports that subscribe.
LEMMA SubscribeHandlers ==
  ASSUME devices \subseteq Devices, NEW level \in Nat, NEW id
  PROVE  /\ Subscribing(level, id, WsSubscribeId(level, id))
         /\ Subscribing(level, id, WsSubscribeEntry(level, id))
<1>1. \A status : status # "Success" => Subscribing(level, id, Reply(status))
  BY Replies DEF Subscribing, NoEffect
<1>2. CASE Hidden(level, id)
  BY <1>1, <1>2 DEF WsSubscribeId, WsSubscribeEntry
<1>3. CASE ~Hidden(level, id) /\ ~PropertyOf(id).readable
  BY <1>1, <1>3 DEF WsSubscribeId, WsSubscribeEntry
<1>4. CASE ~Hidden(level, id) /\ PropertyOf(id).readable
  <2>1. WsSubscribeId(level, id) = Subscribe(id) /\ WsSubscribeEntry(level, id) = Subscribe(id)
    BY <1>4 DEF WsSubscribeId, WsSubscribeEntry
  <2>2. QED
    BY <1>4, <2>1, SubscribeReply
<1>5. QED
  BY <1>2, <1>3, <1>4

\* The handlers of both transports that unsubscribe.
LEMMA UnsubscribeHandlers ==
  ASSUME NEW id
  PROVE  /\ Unsubscribing(id, Unsubscribe(id))
         /\ Unsubscribing(id, WsUnsubscribeId(id))
         /\ Unsubscribing(id, WsUnsubscribeEntry(id))
<1>1. \A status : status # "Success" => Unsubscribing(id, Reply(status))
  BY Replies DEF Unsubscribing, NoEffect
<1>2. Unsubscribing(id, Unsubscribe(id))
  <2>1. CASE id \in DOMAIN subscriptions
    <3>1. Unsubscribe(id).status = "Success" /\ Unsubscribe(id).remove = {id} /\ Unsubscribe(id).add = {}
      BY <2>1 DEF Unsubscribe, Reply
    <3>2. QED
      BY <3>1 DEF Unsubscribing
  <2>2. CASE id \notin DOMAIN subscriptions
    BY <1>1, <2>2 DEF Unsubscribe
  <2>3. QED
    BY <2>1, <2>2
<1>3. QED
  BY <1>1, <1>2 DEF WsUnsubscribeId, WsUnsubscribeEntry

Asked == {"ENUMERATE", "DESCRIBE", "READ_PROPERTY", "WRITE_PROPERTY", "SUBSCRIBE_PROPERTY",
          "UNSUBSCRIBE_PROPERTY", "READ_MESSAGES", "READ_DATALOG", "FIND_PROPERTIES", "CALL_EXTENSION"}

\* The text of each command a client asks with is read back as that command.
LEMMA CommandsReadBack ==
  \A command \in Asked : ReadCommand(WrittenAs[command]) = command
<1>1. SUFFICES ASSUME NEW command \in Asked
               PROVE  ReadCommand(WrittenAs[command]) = command
  OBVIOUS
<1>2. /\ WrittenAs["ENUMERATE"] = "ENUMERATE" /\ WrittenAs["DESCRIBE"] = "DESCRIBE"
      /\ WrittenAs["READ_PROPERTY"] = "READ PROPERTY" /\ WrittenAs["WRITE_PROPERTY"] = "WRITE PROPERTY"
      /\ WrittenAs["SUBSCRIBE_PROPERTY"] = "SUBSCRIBE PROPERTY"
      /\ WrittenAs["UNSUBSCRIBE_PROPERTY"] = "UNSUBSCRIBE PROPERTY"
      /\ WrittenAs["READ_MESSAGES"] = "READ MESSAGES" /\ WrittenAs["READ_DATALOG"] = "READ DATALOG"
      /\ WrittenAs["FIND_PROPERTIES"] = "FIND PROPERTIES" /\ WrittenAs["CALL_EXTENSION"] = "CALL EXTENSION"
  BY DEF WrittenAs
<1>3. /\ ReadCommand("ENUMERATE") = "ENUMERATE" /\ ReadCommand("DESCRIBE") = "DESCRIBE"
      /\ ReadCommand("READ PROPERTY") = "READ_PROPERTY" /\ ReadCommand("WRITE PROPERTY") = "WRITE_PROPERTY"
      /\ ReadCommand("SUBSCRIBE PROPERTY") = "SUBSCRIBE_PROPERTY"
      /\ ReadCommand("UNSUBSCRIBE PROPERTY") = "UNSUBSCRIBE_PROPERTY"
      /\ ReadCommand("READ MESSAGES") = "READ_MESSAGES" /\ ReadCommand("READ DATALOG") = "READ_DATALOG"
      /\ ReadCommand("FIND PROPERTIES") = "FIND_PROPERTIES" /\ ReadCommand("CALL EXTENSION") = "CALL_EXTENSION"
  BY DEF ReadCommand
<1>4. QED
  BY <1>2, <1>3 DEF Asked

\* The arguments of a request by its command.
NamesOf(command) ==
  CASE command = "ENUMERATE" -> {"extra"}
    [] command = "DESCRIBE" -> {"id", "extra", "flags"}
    [] command \in {"READ_PROPERTY", "SUBSCRIBE_PROPERTY", "UNSUBSCRIBE_PROPERTY"} -> {"id", "extra"}
    [] command = "WRITE_PROPERTY" -> {"id", "extra", "flags", "value"}
    [] command = "READ_MESSAGES" -> {"from", "to", "limit", "extra"}
    [] command = "READ_DATALOG" -> {"id", "from", "to", "limit", "extra"}
    [] command = "FIND_PROPERTIES" -> {"id", "extra", "virtual", "functions"}
    [] command = "CALL_EXTENSION" -> {"extension", "command", "extra"}

LEMMA RequestsAre ==
  ASSUME NEW r \in Requests
  PROVE  /\ r.command \in Asked
         /\ DOMAIN r.arguments \subseteq NamesOf(r.command)
         /\ r.command = "WRITE_PROPERTY" =>
              /\ "flags" \in DOMAIN r.arguments => r.arguments.flags \subseteq {"Permanent", "other"}
              /\ "value" \in DOMAIN r.arguments => r.arguments.value \in {"text", "number"}
         /\ r.command \in {"READ_MESSAGES", "READ_DATALOG"} =>
              /\ "from" \in DOMAIN r.arguments => r.arguments.from \in {"good", "bad"}
              /\ "to" \in DOMAIN r.arguments => r.arguments.to \in {"good", "bad"}
              /\ "limit" \in DOMAIN r.arguments => r.arguments.limit \in {"few", "many", "wide", "bad"}
<1>1. DOMAIN Forms = Asked
  BY DEF Forms, Asked
<1>2. PICK command \in Asked : r \in [command : {command}, arguments : {Given(form) : form \in Forms[command]}]
  BY <1>1 DEF Requests
<1>3. PICK form \in Forms[command] : r.command = command /\ r.arguments = Given(form)
  BY <1>2
<1>4. /\ DOMAIN r.arguments = {x \in DOMAIN form : form[x] # Absent}
      /\ \A x \in DOMAIN r.arguments : r.arguments[x] = form[x] /\ form[x] # Absent
  BY <1>3 DEF Given
<1>5. DOMAIN form = NamesOf(command)
  <2>1. CASE command = "ENUMERATE"
    BY <1>3, <2>1 DEF Forms, NamesOf
  <2>2. CASE command = "DESCRIBE"
    BY <1>3, <2>2 DEF Forms, NamesOf
  <2>3. CASE command \in {"READ_PROPERTY", "SUBSCRIBE_PROPERTY", "UNSUBSCRIBE_PROPERTY"}
    <3>1. CASE command = "READ_PROPERTY"
      BY <1>3, <3>1 DEF Forms, NamesOf
    <3>2. CASE command = "SUBSCRIBE_PROPERTY"
      BY <1>3, <3>2 DEF Forms, NamesOf
    <3>3. CASE command = "UNSUBSCRIBE_PROPERTY"
      BY <1>3, <3>3 DEF Forms, NamesOf
    <3>4. QED
      BY <2>3, <3>1, <3>2, <3>3
  <2>4. CASE command = "WRITE_PROPERTY"
    BY <1>3, <2>4 DEF Forms, NamesOf
  <2>5. CASE command = "READ_MESSAGES"
    BY <1>3, <2>5 DEF Forms, NamesOf
  <2>6. CASE command = "READ_DATALOG"
    BY <1>3, <2>6 DEF Forms, NamesOf
  <2>7. CASE command = "FIND_PROPERTIES"
    BY <1>3, <2>7 DEF Forms, NamesOf
  <2>8. CASE command = "CALL_EXTENSION"
    BY <1>3, <2>8 DEF Forms, NamesOf
  <2>9. QED
    BY <1>2, <2>1, <2>2, <2>3, <2>4, <2>5, <2>6, <2>7, <2>8 DEF Asked
<1>6. ASSUME command = "WRITE_PROPERTY"
      PROVE  /\ form.flags \in Optional(SUBSET {"Permanent", "other"})
             /\ form.value \in Optional({"text", "number"})
  BY <1>3, <1>6 DEF Forms
<1>7. ASSUME command \in {"READ_MESSAGES", "READ_DATALOG"}
      PROVE  form.from \in Times /\ form.to \in Times /\ form.limit \in Limits
  <2>1. CASE command = "READ_MESSAGES"
    BY <1>3, <2>1 DEF Forms
  <2>2. CASE command = "READ_DATALOG"
    BY <1>3, <2>2 DEF Forms
  <2>3. QED
    BY <1>7, <2>1, <2>2
<1>8. QED
  BY <1>2, <1>3, <1>4, <1>5, <1>6, <1>7 DEF Optional, Times, Limits

\* No argument spoils the header lines.
LEMMA HeadersHaveColons ==
  ASSUME NEW r \in Requests
  PROVE  "noColon" \notin DOMAIN r.arguments
<1>1. "noColon" \notin NamesOf(r.command)
  BY RequestsAre DEF Asked, NamesOf
<1>2. QED
  BY <1>1, RequestsAre

\* A request arrives in a WebSocket frame as it was, or the frame is INVALID.
LEMMA WsFrameIs ==
  ASSUME NEW r, r.command \in Asked
  PROVE  /\ WebSocketFrame(r).command \in {r.command, "INVALID"}
         /\ "noColon" \notin DOMAIN r.arguments =>
              WebSocketFrame(r) = [command |-> r.command, headers |-> r.arguments, body |-> NoBody]
<1> DEFINE frame == [command |-> r.command, headers |-> r.arguments, body |-> NoBody]
           message == [command |-> WrittenAs[r.command], headers |-> r.arguments, body |-> NoBody]
<1>1. ToMessage(frame) = message
  BY DEF ToMessage
<1>2. ReadCommand(message.command) = r.command
  BY CommandsReadBack
<1>3. FromMessage(message) = IF "noColon" \in DOMAIN r.arguments
                             THEN [command |-> "INVALID", headers |-> <<>>, body |-> NoBody]
                             ELSE frame
  <2>1. [message EXCEPT !.command = ReadCommand(message.command)] = frame
    BY <1>2
  <2>2. FromMessage(message) = IF "noColon" \in DOMAIN message.headers
                               THEN [command |-> "INVALID", headers |-> <<>>, body |-> NoBody]
                               ELSE [message EXCEPT !.command = ReadCommand(message.command)]
    BY Zenon DEF FromMessage
  <2>3. QED
    BY <2>1, <2>2
<1>4. QED
  BY <1>1, <1>3 DEF WebSocketFrame

\* Only the four handlers of subscriptions have an effect on these.
LEMMA WsNoEffect ==
  ASSUME NEW level, NEW user, NEW frame,
         frame.command \notin {"SUBSCRIBE_PROPERTY", "UNSUBSCRIBE_PROPERTY",
                               "SUBSCRIBE_PROPERTIES", "UNSUBSCRIBE_PROPERTIES"}
  PROVE  NoEffect(WebSocketReply(level, user, frame))
<1>1. /\ \A status : NoEffect(Reply(status))
      /\ \A ids : NoEffect(Listing(ids))
      /\ \A kind, ids : NoEffect(Queued(kind, ids))
      /\ \A id, flags, value : NoEffect(QueuedWrite(id, flags, value))
      /\ \A kind, arguments : NoEffect(Stored(kind, arguments))
      /\ NoEffect(InvalidFrame)
  BY Replies
<1>2. \A id, flags : NoEffect(WsDescribeId(level, id, flags))
  BY <1>1 DEF WsDescribeId
<1>3. NoEffect(WsDescribe(level, frame))
  BY <1>1, <1>2 DEF WsDescribe
<1>4. NoEffect(WsReadProperty(level, frame))
  BY <1>1 DEF WsReadProperty
<1>5. NoEffect(WsReadProperties(frame))
  BY <1>1 DEF WsReadProperties
<1>6. NoEffect(WsWriteProperty(level, frame))
  BY <1>1 DEF WsWriteProperty
<1>7. NoEffect(WsReadMessages(frame)) /\ NoEffect(WsReadDatalog(frame))
  BY <1>1 DEF WsReadMessages, WsReadDatalog
<1>8. NoEffect(WsFindProperties(frame))
  BY <1>1 DEF WsFindProperties
<1>9. NoEffect(WsCallExtension(user, frame))
  BY <1>1 DEF WsCallExtension
<1>10. QED
  BY <1>1, <1>3, <1>4, <1>5, <1>6, <1>7, <1>8, <1>9 DEF WebSocketReply

\* The same for Bluetooth, where a frame has a list of parameters.
LEMMA BtNoEffect ==
  ASSUME NEW level, NEW user, NEW frame, Len(frame.parameters) \in Nat,
         frame.command \notin {"SUBSCRIBE_PROPERTY", "UNSUBSCRIBE_PROPERTY"}
  PROVE  NoEffect(BluetoothReply(level, user, frame))
<1>1. /\ \A status : NoEffect(Reply(status))
      /\ \A ids : NoEffect(Listing(ids))
      /\ \A kind, ids : NoEffect(Queued(kind, ids))
      /\ \A id, flags, value : NoEffect(QueuedWrite(id, flags, value))
      /\ \A kind, arguments : NoEffect(Stored(kind, arguments))
      /\ NoEffect(InvalidFrame)
  BY Replies
<1>2. \A id : NoEffect(BtDescribeId(level, id))
  BY <1>1 DEF BtDescribeId
<1>3. NoEffect(BtDescribe(level, frame))
  BY <1>1, <1>2 DEF BtDescribe
<1>4. NoEffect(BtReadProperty(level, frame)) /\ NoEffect(BtWriteProperty(level, frame))
  BY <1>1 DEF BtReadProperty, BtWriteProperty
<1>5. NoEffect(BtReadMessages(frame)) /\ NoEffect(BtReadDatalog(frame))
  BY <1>1 DEF BtReadMessages, BtReadDatalog
<1>6. NoEffect(BtFindProperties(frame))
  BY <1>1 DEF BtFindProperties
<1>7. NoEffect(BtCallExtension(user, frame))
  <2>1. Len(frame.parameters) < 2 \/ Len(frame.parameters) >= 2
    OBVIOUS
  <2>2. \A x : NoEffect(CASE x \notin OnBluetooth -> Reply("UnsupportedExtension")
                          [] x \in OnBluetooth /\ ~AllowedForUser(user, x) -> Reply("Forbidden")
                          [] OTHER -> Reply("run"))
    BY <1>1
  <2>3. CASE ~ValidParameters(frame, Id, TRUE)
    BY <1>1, <2>3 DEF BtCallExtension
  <2>4. CASE ValidParameters(frame, Id, TRUE) /\ Len(frame.parameters) < 2
    <3>1. ~(Len(frame.parameters) >= 2)
      BY <2>4
    <3>2. QED
      BY <1>1, <2>4, <3>1 DEF BtCallExtension
  <2>5. CASE ValidParameters(frame, Id, TRUE) /\ Len(frame.parameters) >= 2
    <3>1. ~(Len(frame.parameters) < 2)
      BY <2>5
    <3>2. QED
      BY <2>2, <2>5, <3>1 DEF BtCallExtension
  <2>6. QED
    BY <2>1, <2>3, <2>4, <2>5
<1>8. QED
  BY <1>1, <1>3, <1>4, <1>5, <1>6, <1>7 DEF BluetoothReply

Names == {"id", "flags", "value", "from", "to", "limit", "extension", "command", "extra"}

\* The parameters of a Bluetooth frame are named.
LEMMA PlacesNamed ==
  ASSUME NEW r, r.command \in Asked
  PROVE  Places(r) \in Seq(Names)
<1>1. /\ Order["ENUMERATE"] = <<>>
      /\ Order["WRITE_PROPERTY"] = <<"id", "flags", "value">>
      /\ Order["READ_MESSAGES"] = <<"from", "to", "limit">>
      /\ Order["READ_DATALOG"] = <<"id", "from", "to", "limit">>
      /\ Order["CALL_EXTENSION"] = <<"extension", "command">>
      /\ \A k \in {"DESCRIBE", "READ_PROPERTY", "SUBSCRIBE_PROPERTY", "UNSUBSCRIBE_PROPERTY", "FIND_PROPERTIES"} :
           Order[k] = <<"id">>
  BY DEF Order
<1>2. /\ <<>> \in Seq(Names)
      /\ <<"id">> \in Seq(Names)
      /\ <<"extension">> \in Seq(Names)
      /\ <<"id", "flags", "value">> \in Seq(Names)
      /\ <<"from", "to", "limit">> \in Seq(Names)
      /\ <<"id", "from", "to", "limit">> \in Seq(Names)
      /\ <<"extension", "command">> \in Seq(Names)
  <2>1. \A name \in {"id", "flags", "value", "from", "to", "limit", "extension", "command"} : name \in Names
    BY DEF Names
  <2>2. QED
    BY <2>1
<1>3. Order[r.command] \in Seq(Names)
  BY <1>1, <1>2 DEF Asked
<1>4. QED
  BY <1>2, <1>3 DEF Places

\* The frame has an argument too many.
Longer(r) == "extra" \in DOMAIN r.arguments \/ Placeless(r)

\* A request to a Bluetooth session arrives with the arguments it has in their
\* places, null for those it has not, and one parameter more if it is Longer.
LEMMA BtFrameIs ==
  ASSUME NEW r \in Requests
  PROVE  LET places == Places(r)
             parameters == BluetoothFrame(r).parameters
         IN  /\ BluetoothFrame(r).command = r.command
             /\ Len(parameters) = Len(places) + (IF Longer(r) THEN 1 ELSE 0)
             /\ Len(places) \in Nat /\ Len(parameters) \in Nat
             /\ \A i \in 1..Len(places) : parameters[i] = ParameterOf(r, places[i])
             /\ parameters = <<>> <=> Len(parameters) = 0
<1> DEFINE places == Places(r)
           given == [i \in DOMAIN places |-> ParameterOf(r, places[i])]
           behind == IF Longer(r) THEN <<ParameterOf(r, "extra")>> ELSE <<>>
           parameters == given \o behind
           P == {ParameterOf(r, name) : name \in Names}
<1>1. r.command \in Asked
  BY RequestsAre
<1>2. BluetoothFrame(r) = FromBytes([command |-> r.command, parameters |-> parameters])
  BY Zenon DEF BluetoothFrame, Longer
<1>3. places \in Seq(Names)
  BY <1>1, PlacesNamed
<1>4. DOMAIN places = 1..Len(places) /\ Len(places) \in Nat /\ \A i \in 1..Len(places) : places[i] \in Names
  BY <1>3
<1>5. \A name \in Names : ParameterOf(r, name) \in P
  OBVIOUS
<1>6. /\ given \in Seq(P)
      /\ Len(given) = Len(places)
      /\ \A i \in 1..Len(places) : given[i] = ParameterOf(r, places[i])
  <2> HIDE DEF P, places
  <2>1. QED
    BY <1>4, <1>5
<1>7. behind \in Seq(P) /\ Len(behind) = IF Longer(r) THEN 1 ELSE 0
  <2>1. ParameterOf(r, "extra") \in P
    BY <1>5 DEF Names
  <2> HIDE DEF P
  <2>2. QED
    BY <2>1
<1>8. \A p \in P : p.kind # "container"
  BY DEF ParameterOf
<1> HIDE DEF places, given, behind, P
<1>9. /\ parameters \in Seq(P)
      /\ Len(parameters) = Len(places) + (IF Longer(r) THEN 1 ELSE 0)
      /\ \A i \in 1..Len(places) : parameters[i] = ParameterOf(r, places[i])
  <2>1. /\ parameters \in Seq(P)
        /\ Len(parameters) = Len(given) + Len(behind)
        /\ \A i \in 1..Len(given) : parameters[i] = given[i]
    <3>1. given \in Seq(P) /\ behind \in Seq(P)
      BY <1>6, <1>7
    <3>2. QED
      BY <3>1
  <2>2. QED
    BY <1>6, <1>7, <2>1
<1> HIDE DEF parameters
<1>10. \A i \in DOMAIN parameters : parameters[i].kind # "container"
  <2>1. \A i \in DOMAIN parameters : parameters[i] \in P
    BY <1>9
  <2>2. QED
    BY <1>8, <2>1
<1>11. FromBytes([command |-> r.command, parameters |-> parameters])
         = [command |-> r.command, parameters |-> parameters]
  BY <1>10 DEF FromBytes
<1>12. BluetoothFrame(r).command = r.command /\ BluetoothFrame(r).parameters = parameters
  BY <1>2, <1>11
<1>13. (parameters = <<>> <=> Len(parameters) = 0) /\ Len(parameters) \in Nat
  BY <1>9
<1>14. QED
  BY <1>4, <1>9, <1>12, <1>13 DEF places

\* What a reply to a request does to the subscriptions.
Answering(level, r, reply) ==
  CASE r.command = "SUBSCRIBE_PROPERTY" -> Subscribing(level, r.arguments.id, reply)
    [] r.command = "UNSUBSCRIBE_PROPERTY" -> Unsubscribing(r.arguments.id, reply)
    [] OTHER -> NoEffect(reply)

\* A WebSocket session answers as said.
LEMMA WsAnswers ==
  ASSUME devices \subseteq Devices, NEW level \in Nat, NEW user, NEW r \in Requests
  PROVE  Answering(level, r, WebSocketReply(level, user, WebSocketFrame(r)))
<1> DEFINE frame == WebSocketFrame(r)
           id == r.arguments.id
<1>1. /\ r.command \in Asked
      /\ r.command \in {"SUBSCRIBE_PROPERTY", "UNSUBSCRIBE_PROPERTY"} =>
           "noColon" \notin DOMAIN r.arguments
  BY RequestsAre, HeadersHaveColons
<1>2. /\ frame.command \in {r.command, "INVALID"}
      /\ r.command \in {"SUBSCRIBE_PROPERTY", "UNSUBSCRIBE_PROPERTY"} =>
           frame = [command |-> r.command, headers |-> r.arguments, body |-> NoBody]
  BY <1>1, WsFrameIs
<1> HIDE DEF frame
<1>3. CASE r.command = "SUBSCRIBE_PROPERTY"
  <2>1. frame.command = "SUBSCRIBE_PROPERTY" /\ frame.headers = r.arguments
    BY <1>2, <1>3
  <2>2. WebSocketReply(level, user, frame) = WsSubscribeProperty(level, frame)
    BY <2>1 DEF WebSocketReply
  <2>3. WsSubscribeProperty(level, frame) \in {InvalidFrame, WsSubscribeId(level, id)}
    BY <2>1 DEF WsSubscribeProperty
  <2>4. Subscribing(level, id, InvalidFrame) /\ Subscribing(level, id, WsSubscribeId(level, id))
    BY Replies, SubscribeHandlers DEF Subscribing, NoEffect
  <2>5. Subscribing(level, id, WebSocketReply(level, user, frame))
    BY <2>2, <2>3, <2>4
  <2>6. QED
    BY <1>3, <2>5 DEF Answering, frame
<1>4. CASE r.command = "UNSUBSCRIBE_PROPERTY"
  <2>1. frame.command = "UNSUBSCRIBE_PROPERTY" /\ frame.headers = r.arguments
    BY <1>2, <1>4
  <2>2. WebSocketReply(level, user, frame) = WsUnsubscribeProperty(frame)
    BY <2>1 DEF WebSocketReply
  <2>3. WsUnsubscribeProperty(frame) \in {InvalidFrame, WsUnsubscribeId(id)}
    BY <2>1 DEF WsUnsubscribeProperty
  <2>4. Unsubscribing(id, InvalidFrame) /\ Unsubscribing(id, WsUnsubscribeId(id))
    BY Replies, UnsubscribeHandlers DEF Unsubscribing, NoEffect
  <2>5. Unsubscribing(id, WebSocketReply(level, user, frame))
    BY <2>2, <2>3, <2>4
  <2>6. QED
    BY <1>4, <2>5 DEF Answering, frame
<1>5. CASE r.command \notin {"SUBSCRIBE_PROPERTY", "UNSUBSCRIBE_PROPERTY"}
  <2>1. frame.command \notin {"SUBSCRIBE_PROPERTY", "UNSUBSCRIBE_PROPERTY",
                              "SUBSCRIBE_PROPERTIES", "UNSUBSCRIBE_PROPERTIES"}
    BY <1>1, <1>2, <1>5 DEF Asked
  <2>2. NoEffect(WebSocketReply(level, user, frame))
    BY <2>1, WsNoEffect
  <2>3. QED
    BY <1>5, <2>2 DEF Answering, frame
<1>6. QED
  BY <1>3, <1>4, <1>5

\* And so does a Bluetooth session.
LEMMA BtAnswers ==
  ASSUME devices \subseteq Devices, NEW level \in Nat, NEW user, NEW r \in Requests
  PROVE  Answering(level, r, BluetoothReply(level, user, BluetoothFrame(r)))
<1> DEFINE frame == BluetoothFrame(r)
           id == r.arguments.id
<1>1. /\ frame.command = r.command
      /\ Len(frame.parameters) \in Nat
      /\ r.command \in {"SUBSCRIBE_PROPERTY", "UNSUBSCRIBE_PROPERTY"} =>
           frame.parameters[1] = ParameterOf(r, "id")
  <2>1. /\ frame.command = r.command
        /\ Len(frame.parameters) \in Nat
        /\ \A i \in 1..Len(Places(r)) : frame.parameters[i] = ParameterOf(r, Places(r)[i])
    BY BtFrameIs
  <2>2. r.command \in {"SUBSCRIBE_PROPERTY", "UNSUBSCRIBE_PROPERTY"} => Places(r) = <<"id">>
    BY DEF Order, Places
  <2>3. Len(<<"id">>) = 1 /\ <<"id">>[1] = "id" /\ 1 \in 1..1
    OBVIOUS
  <2> HIDE DEF frame
  <2>4. ASSUME r.command \in {"SUBSCRIBE_PROPERTY", "UNSUBSCRIBE_PROPERTY"}
        PROVE  frame.parameters[1] = ParameterOf(r, "id")
    <3>1. \A i \in 1..Len(<<"id">>) : frame.parameters[i] = ParameterOf(r, <<"id">>[i])
      BY <2>1, <2>2, <2>4
    <3>2. QED
      BY <2>3, <3>1
  <2>5. QED
    BY <2>1, <2>4
<1> HIDE DEF frame
<1>2. ASSUME r.command \in {"SUBSCRIBE_PROPERTY", "UNSUBSCRIBE_PROPERTY"}, ValidParameters(frame, Id, FALSE)
      PROVE  Value(frame, 1) = id
  <2>1. Id[1] = {"String"} /\ DOMAIN Id = {1}
    BY DEF Id
  <2>2. CanConvert(frame.parameters[1], "String")
    BY <1>2, <2>1 DEF ValidParameters
  <2>3. frame.parameters[1] = ParameterOf(r, "id")
    BY <1>1, <1>2
  <2>4. ParameterOf(r, "id").kind # "null"
    BY <2>2, <2>3 DEF CanConvert
  <2>5. "id" \in DOMAIN r.arguments
    BY <2>4 DEF ParameterOf
  <2>6. QED
    BY <2>3, <2>5 DEF ParameterOf, Value
<1>3. CASE r.command = "SUBSCRIBE_PROPERTY"
  <2>1. BluetoothReply(level, user, frame) = BtSubscribeProperty(level, frame)
    BY <1>1, <1>3 DEF BluetoothReply
  <2>2. BtSubscribeProperty(level, frame) \in {InvalidFrame, WsSubscribeId(level, id)}
    <3>1. CASE ~ValidParameters(frame, Id, FALSE)
      BY <3>1 DEF BtSubscribeProperty
    <3>2. CASE ValidParameters(frame, Id, FALSE)
      <4>1. Value(frame, 1) = id
        BY <1>2, <1>3, <3>2
      <4> HIDE DEF id
      <4>2. QED
        BY <3>2, <4>1 DEF BtSubscribeProperty, WsSubscribeId
    <3>3. QED
      BY <3>1, <3>2
  <2>3. Subscribing(level, id, InvalidFrame) /\ Subscribing(level, id, WsSubscribeId(level, id))
    BY Replies, SubscribeHandlers DEF Subscribing, NoEffect
  <2>4. Subscribing(level, id, BluetoothReply(level, user, frame))
    BY <2>1, <2>2, <2>3
  <2>5. QED
    BY <1>3, <2>4 DEF Answering, frame
<1>4. CASE r.command = "UNSUBSCRIBE_PROPERTY"
  <2>1. BluetoothReply(level, user, frame) = BtUnsubscribeProperty(frame)
    BY <1>1, <1>4 DEF BluetoothReply
  <2>2. BtUnsubscribeProperty(frame) \in {InvalidFrame, Reply("NoProperty"), Unsubscribe(id)}
    <3>1. CASE ~ValidParameters(frame, Id, FALSE)
      BY <3>1 DEF BtUnsubscribeProperty
    <3>2. CASE ValidParameters(frame, Id, FALSE)
      <4>1. Value(frame, 1) = id
        BY <1>2, <1>4, <3>2
      <4> HIDE DEF id
      <4>2. QED
        BY <3>2, <4>1 DEF BtUnsubscribeProperty
    <3>3. QED
      BY <3>1, <3>2
  <2>3. /\ Unsubscribing(id, InvalidFrame)
        /\ Unsubscribing(id, Reply("NoProperty"))
        /\ Unsubscribing(id, Unsubscribe(id))
    BY Replies, UnsubscribeHandlers DEF Unsubscribing, NoEffect
  <2>4. Unsubscribing(id, BluetoothReply(level, user, frame))
    BY <2>1, <2>2, <2>3
  <2>5. QED
    BY <1>4, <2>4 DEF Answering, frame
<1>5. CASE r.command \notin {"SUBSCRIBE_PROPERTY", "UNSUBSCRIBE_PROPERTY"}
  <2>1. frame.command \notin {"SUBSCRIBE_PROPERTY", "UNSUBSCRIBE_PROPERTY"}
    BY <1>1, <1>5
  <2>2. NoEffect(BluetoothReply(level, user, frame))
    BY <1>1, <2>1, BtNoEffect
  <2>3. QED
    BY <1>5, <2>2 DEF Answering, frame
<1>6. QED
  BY <1>3, <1>4, <1>5

\* The subscriptions of client c after ids were added to and removed from them.
LEMMA SubscriptionsStep ==
  ASSUME SessionsInv, NEW c \in DOMAIN sessions, NEW reply,
         reply.add \cap reply.remove = {},
         \A id \in reply.add : Readable(sessions[c].level, id),
         subscriptions' = Subscriptions(c, reply),
         granted' = [granted EXCEPT ![c] = (@ \cup reply.add) \ reply.remove],
         UNCHANGED <<devices, sessions>>
  PROVE  SessionsInv'
<1> DEFINE add == reply.add
           remove == reply.remove
<1>1. /\ DOMAIN subscriptions' = DOMAIN subscriptions \cup add
      /\ \A id \in add : subscriptions'[id] = (IF id \in DOMAIN subscriptions THEN subscriptions[id] ELSE {}) \cup {c}
      /\ \A id \in remove : id \in DOMAIN subscriptions => subscriptions'[id] = subscriptions[id] \ {c}
      /\ \A id \in DOMAIN subscriptions : id \notin add \cup remove => subscriptions'[id] = subscriptions[id]
  BY DEF Subscriptions
<1> HIDE DEF add, remove
<1>2. /\ DOMAIN granted' = Clients
      /\ granted'[c] = (granted[c] \cup add) \ remove
      /\ \A other \in Clients : other # c => granted'[other] = granted[other]
  BY DEF SessionsInv, add, remove
<1>3. add \cap remove = {} /\ \A id \in add : Readable(sessions[c].level, id)
  BY DEF add, remove
<1>4. \A id \in DOMAIN subscriptions' : subscriptions'[id] \subseteq DOMAIN sessions
  BY <1>1, <1>3 DEF SessionsInv
<1>5. ASSUME NEW other \in Clients
      PROVE  /\ granted'[other] = {id \in DOMAIN subscriptions' : other \in subscriptions'[id]}
             /\ \A id \in granted'[other] : Readable(sessions[other].level, id)
  <2>1. /\ granted[other] = {id \in DOMAIN subscriptions : other \in subscriptions[id]}
        /\ \A id \in granted[other] : Readable(sessions[other].level, id)
    BY DEF SessionsInv, UpdatesAsAnswered, Readable
  <2>2. CASE other = c
    BY <1>1, <1>2, <1>3, <2>1, <2>2
  <2>3. CASE other # c
    <3>1. \A id \in DOMAIN subscriptions' : other \in subscriptions'[id]
             <=> id \in DOMAIN subscriptions /\ other \in subscriptions[id]
      BY <1>1, <1>3, <2>3
    <3>2. QED
      BY <1>1, <1>2, <2>1, <2>3, <3>1
  <2>4. QED
    BY <2>2, <2>3
<1>6. UpdatesAsAnswered'
  BY <1>5 DEF UpdatesAsAnswered, Readable
<1>7. QED
  BY <1>2, <1>4, <1>6 DEF SessionsInv


\* The handling of a request.
LEMMA HandleStep ==
  ASSUME SessionsInv, NEW c \in Clients, NEW r \in Requests, Handle(c, r)
  PROVE  SessionsInv'
<1> DEFINE reply == ReplyTo(c, r)
           level == sessions[c].level
           now == CASE r.command = "SUBSCRIBE_PROPERTY" /\ reply.status = "Success" -> granted[c] \cup {r.arguments.id}
                    [] r.command = "UNSUBSCRIBE_PROPERTY" /\ reply.status = "Success" -> granted[c] \ {r.arguments.id}
                    [] OTHER -> granted[c]
<1>1. /\ c \in DOMAIN sessions
      /\ subscriptions' = Subscriptions(c, reply)
      /\ granted' = [granted EXCEPT ![c] = now]
      /\ UNCHANGED <<devices, sessions>>
  BY DEF Handle
<1>2. level \in Nat /\ devices \subseteq Devices
  BY <1>1 DEF SessionsInv
<1>3. Answering(level, r, reply)
  <2>1. CASE c \in Bluetooth
    BY <1>2, <2>1, BtAnswers DEF ReplyTo
  <2>2. CASE c \notin Bluetooth
    BY <1>2, <2>2, WsAnswers DEF ReplyTo
  <2>3. QED
    BY <2>1, <2>2
<1> HIDE DEF reply
<1>4. /\ reply.add \cap reply.remove = {}
      /\ \A id \in reply.add : Readable(level, id)
      /\ now = (granted[c] \cup reply.add) \ reply.remove
  <2>1. CASE r.command = "SUBSCRIBE_PROPERTY"
    <3>1. Subscribing(level, r.arguments.id, reply)
      BY <1>3, <2>1 DEF Answering
    <3>2. CASE reply.status = "Success"
      <4>1. reply.add = {r.arguments.id} /\ reply.remove = {} /\ Readable(level, r.arguments.id)
        BY <3>1, <3>2 DEF Subscribing
      <4>2. now = granted[c] \cup {r.arguments.id}
        BY <2>1, <3>2
      <4>3. QED
        BY <4>1, <4>2
    <3>3. CASE reply.status # "Success"
      <4>1. reply.add = {} /\ reply.remove = {}
        BY <3>1, <3>3 DEF Subscribing
      <4>2. now = granted[c]
        BY <3>3
      <4>3. QED
        BY <4>1, <4>2
    <3>4. QED
      BY <3>2, <3>3
  <2>2. CASE r.command = "UNSUBSCRIBE_PROPERTY"
    <3>1. Unsubscribing(r.arguments.id, reply)
      BY <1>3, <2>2 DEF Answering
    <3>2. CASE reply.status = "Success"
      <4>1. reply.add = {} /\ reply.remove = {r.arguments.id}
        BY <3>1, <3>2 DEF Unsubscribing
      <4>2. now = granted[c] \ {r.arguments.id}
        BY <2>2, <3>2
      <4>3. QED
        BY <4>1, <4>2
    <3>3. CASE reply.status # "Success"
      <4>1. reply.add = {} /\ reply.remove = {}
        BY <3>1, <3>3 DEF Unsubscribing
      <4>2. now = granted[c]
        BY <3>3
      <4>3. QED
        BY <4>1, <4>2
    <3>4. QED
      BY <3>2, <3>3
  <2>3. CASE r.command \notin {"SUBSCRIBE_PROPERTY", "UNSUBSCRIBE_PROPERTY"}
    <3>1. reply.add = {} /\ reply.remove = {}
      BY <1>3, <2>3 DEF Answering, NoEffect
    <3>2. now = granted[c]
      BY <2>3
    <3>3. QED
      BY <3>1, <3>2
  <2>4. QED
    BY <2>1, <2>2, <2>3
<1>5. granted' = [granted EXCEPT ![c] = (@ \cup reply.add) \ reply.remove]
  BY <1>1, <1>4
<1>6. QED
  BY <1>1, <1>4, <1>5, SubscriptionsStep

\* The answer to a batch: its effect is that of its entries together.
LEMMA BatchIs ==
  ASSUME NEW replies
  PROVE  /\ Batch(replies).each = [i \in DOMAIN replies |-> replies[i].status]
         /\ Batch(replies).add = UNION {replies[i].add : i \in DOMAIN replies}
         /\ Batch(replies).remove = UNION {replies[i].remove : i \in DOMAIN replies}
<1> DEFINE each == [i \in DOMAIN replies |-> replies[i].status]
           add == UNION {replies[i].add : i \in DOMAIN replies}
           remove == UNION {replies[i].remove : i \in DOMAIN replies}
<1>1. Batch(replies) = [Reply("Success") EXCEPT !.each = each, !.add = add, !.remove = remove]
  BY Zenon DEF Batch
<1> HIDE DEF each, add, remove
<1>2. Batch(replies).each = each /\ Batch(replies).add = add /\ Batch(replies).remove = remove
  BY <1>1 DEF Reply
<1>3. QED
  BY <1>2 DEF each, add, remove

\* The handling of a batch.
LEMMA HandleBatchStep ==
  ASSUME SessionsInv, NEW c \in Clients, NEW ids \in Batches, NEW command \in BatchCommands,
         HandleBatch(c, command, ids)
  PROVE  SessionsInv'
<1> DEFINE level == sessions[c].level
           frame == [command |-> command, headers |-> <<>>, body |-> ids]
           reply == WebSocketReply(level, sessions[c].user, frame)
           now == CASE command = "SUBSCRIBE_PROPERTIES" -> granted[c] \cup Granted(ids, reply)
                    [] command = "UNSUBSCRIBE_PROPERTIES" -> granted[c] \ Granted(ids, reply)
                    [] OTHER -> granted[c]
<1>1. /\ c \in DOMAIN sessions
      /\ subscriptions' = Subscriptions(c, reply)
      /\ granted' = [granted EXCEPT ![c] = now]
      /\ UNCHANGED <<devices, sessions>>
  BY DEF HandleBatch
<1>2. level \in Nat /\ devices \subseteq Devices
  BY <1>1 DEF SessionsInv
<1>3. frame.command = command /\ frame.body = ids
  OBVIOUS
<1> HIDE DEF frame
<1>4. Granted(ids, InvalidFrame) = {} /\ NoEffect(InvalidFrame)
  <2>1. InvalidFrame.each = <<>>
    BY DEF InvalidFrame, Reply
  <2>2. DOMAIN InvalidFrame.each = {}
    BY <2>1
  <2>3. Granted(ids, InvalidFrame) = {}
    BY <2>2 DEF Granted
  <2>4. QED
    BY <2>3, Replies
<1>5. CASE command = "SUBSCRIBE_PROPERTIES"
  <2> DEFINE replies == [i \in DOMAIN ids |-> WsSubscribeEntry(level, ids[i])]
  <2>1. reply \in {InvalidFrame, Batch(replies)}
    BY <1>3, <1>5 DEF WebSocketReply, WsSubscribeProperties
  <2>2. \A i \in DOMAIN ids : Subscribing(level, ids[i], replies[i])
    BY <1>2, SubscribeHandlers
  <2>3. DOMAIN replies = DOMAIN ids
    OBVIOUS
  <2> HIDE DEF reply, replies, level
  <2>4. /\ reply.remove = {}
        /\ reply.add = Granted(ids, reply)
        /\ \A id \in reply.add : Readable(level, id)
    <3>1. CASE reply = InvalidFrame
      BY <1>4, <3>1 DEF NoEffect
    <3>2. CASE reply = Batch(replies)
      <4>1. /\ DOMAIN reply.each = DOMAIN ids
            /\ \A i \in DOMAIN ids : reply.each[i] = replies[i].status
            /\ reply.add = UNION {replies[i].add : i \in DOMAIN ids}
            /\ reply.remove = UNION {replies[i].remove : i \in DOMAIN ids}
        <5>1. /\ reply.each = [i \in DOMAIN replies |-> replies[i].status]
              /\ reply.add = UNION {replies[i].add : i \in DOMAIN replies}
              /\ reply.remove = UNION {replies[i].remove : i \in DOMAIN replies}
          BY <3>2, BatchIs
        <5>2. /\ DOMAIN reply.each = DOMAIN ids
              /\ \A i \in DOMAIN ids : reply.each[i] = replies[i].status
          BY <2>3, <5>1
        <5>3. QED
          BY <2>3, <5>1, <5>2
      <4>2. \A i \in DOMAIN ids :
              /\ replies[i].remove = {}
              /\ replies[i].status = "Success" => replies[i].add = {ids[i]} /\ Readable(level, ids[i])
              /\ replies[i].status # "Success" => replies[i].add = {}
        BY <2>2 DEF Subscribing
      <4>3. reply.add = Granted(ids, reply)
        BY <4>1, <4>2 DEF Granted
      <4>4. \A id \in reply.add : Readable(level, id)
        BY <4>1, <4>2
      <4>5. reply.remove = {}
        BY <4>1, <4>2
      <4>6. QED
        BY <4>3, <4>4, <4>5
    <3>3. QED
      BY <2>1, <3>1, <3>2
  <2>5. granted' = [granted EXCEPT ![c] = (@ \cup reply.add) \ reply.remove]
    BY <1>1, <1>5, <2>4
  <2>6. QED
    BY <1>1, <2>4, <2>5, SubscriptionsStep DEF level
<1>6. CASE command = "UNSUBSCRIBE_PROPERTIES"
  <2> DEFINE replies == [i \in DOMAIN ids |-> WsUnsubscribeEntry(ids[i])]
  <2>1. reply \in {InvalidFrame, Batch(replies)}
    BY <1>3, <1>6 DEF WebSocketReply, WsUnsubscribeProperties
  <2>2. \A i \in DOMAIN ids : Unsubscribing(ids[i], replies[i])
    BY UnsubscribeHandlers
  <2>3. DOMAIN replies = DOMAIN ids
    OBVIOUS
  <2> HIDE DEF reply, replies, level
  <2>4. reply.add = {} /\ reply.remove = Granted(ids, reply)
    <3>1. CASE reply = InvalidFrame
      BY <1>4, <3>1 DEF NoEffect
    <3>2. CASE reply = Batch(replies)
      <4>1. /\ DOMAIN reply.each = DOMAIN ids
            /\ \A i \in DOMAIN ids : reply.each[i] = replies[i].status
            /\ reply.add = UNION {replies[i].add : i \in DOMAIN ids}
            /\ reply.remove = UNION {replies[i].remove : i \in DOMAIN ids}
        <5>1. /\ reply.each = [i \in DOMAIN replies |-> replies[i].status]
              /\ reply.add = UNION {replies[i].add : i \in DOMAIN replies}
              /\ reply.remove = UNION {replies[i].remove : i \in DOMAIN replies}
          BY <3>2, BatchIs
        <5>2. /\ DOMAIN reply.each = DOMAIN ids
              /\ \A i \in DOMAIN ids : reply.each[i] = replies[i].status
          BY <2>3, <5>1
        <5>3. QED
          BY <2>3, <5>1, <5>2
      <4>2. \A i \in DOMAIN ids :
              /\ replies[i].add = {}
              /\ replies[i].status = "Success" => replies[i].remove = {ids[i]}
              /\ replies[i].status # "Success" => replies[i].remove = {}
        BY <2>2 DEF Unsubscribing
      <4>3. reply.remove = Granted(ids, reply)
        BY <4>1, <4>2 DEF Granted
      <4>4. reply.add = {}
        BY <4>1, <4>2
      <4>5. QED
        BY <4>3, <4>4
    <3>3. QED
      BY <2>1, <3>1, <3>2
  <2>5. granted' = [granted EXCEPT ![c] = (@ \cup reply.add) \ reply.remove]
    BY <1>1, <1>6, <2>4
  <2>6. QED
    BY <1>1, <2>4, <2>5, SubscriptionsStep DEF level
<1>7. CASE command = "READ_PROPERTIES"
  <2>1. NoEffect(reply)
    BY <1>3, <1>7, WsNoEffect
  <2>2. reply.add = {} /\ reply.remove = {} /\ now = granted[c]
    BY <1>7, <2>1 DEF NoEffect
  <2>3. granted' = [granted EXCEPT ![c] = (@ \cup reply.add) \ reply.remove]
    BY <1>1, <2>2
  <2> HIDE DEF reply, now
  <2>4. QED
    BY <1>1, <2>2, <2>3, SubscriptionsStep DEF level
<1>8. QED
  BY <1>5, <1>6, <1>7 DEF BatchCommands

\* A client is authorized.
LEMMA AuthorizeStep ==
  ASSUME SessionsInv, NEW c \in Clients, NEW user \in Users \cup {Nobody},
         NEW password \in {"none", "wrong", "right"}, Authorize(c, user, password)
  PROVE  SessionsInv'
<1> DEFINE session == [level |-> LevelFor(user, password), user |-> user]
<1>1. /\ c \notin DOMAIN sessions
      /\ sessions' = [x \in DOMAIN sessions \cup {c} |-> IF x = c THEN session ELSE sessions[x]]
      /\ UNCHANGED <<devices, subscriptions, granted>>
  BY DEF Authorize
<1>2. LevelFor(user, password) \in Nat
  BY SessionAssumption DEF LevelFor
<1>3. session.level \in Nat
  BY <1>2
<1> HIDE DEF session
<1>4. /\ DOMAIN sessions' = DOMAIN sessions \cup {c}
      /\ sessions'[c].level \in Nat
      /\ \A x \in DOMAIN sessions : sessions'[x] = sessions[x]
  BY <1>1, <1>3
<1>5. \A x \in Clients : \A id \in granted[x] : x \in DOMAIN sessions
  BY DEF SessionsInv, UpdatesAsAnswered
<1>6. UpdatesAsAnswered'
  BY <1>1, <1>4, <1>5 DEF SessionsInv, UpdatesAsAnswered, PropertyOf
<1>7. QED
  BY <1>1, <1>4, <1>6 DEF SessionsInv

\* A client leaves.
LEMMA LeaveStep ==
  ASSUME SessionsInv, NEW c \in Clients, Leave(c)
  PROVE  SessionsInv'
<1>1. /\ DOMAIN subscriptions' = DOMAIN subscriptions
      /\ \A id \in DOMAIN subscriptions : subscriptions'[id] = subscriptions[id] \ {c}
      /\ DOMAIN sessions' = DOMAIN sessions \ {c}
      /\ \A x \in DOMAIN sessions \ {c} : sessions'[x] = sessions[x]
      /\ devices' = devices
  BY DEF Leave
<1>2. /\ DOMAIN granted' = Clients
      /\ granted'[c] = {}
      /\ \A x \in Clients : x # c => granted'[x] = granted[x]
  BY DEF Leave, SessionsInv
<1>3. \A x \in Clients : \A id \in granted[x] : x \in DOMAIN sessions
  BY DEF SessionsInv, UpdatesAsAnswered
<1>4. ASSUME NEW x \in Clients
      PROVE  /\ granted'[x] = {id \in DOMAIN subscriptions' : x \in subscriptions'[id]}
             /\ \A id \in granted'[x] : PropertyOf(id).readable /\ PropertyOf(id).level <= sessions'[x].level
  BY <1>1, <1>2, <1>3 DEF SessionsInv, UpdatesAsAnswered
<1>5. UpdatesAsAnswered'
  BY <1>4 DEF UpdatesAsAnswered, PropertyOf
<1>6. QED
  BY <1>1, <1>2, <1>5 DEF SessionsInv

\* The timer drops subscriptions without subscribers.
LEMMA TimerEventStep ==
  ASSUME SessionsInv, TimerEvent
  PROVE  SessionsInv'
<1>1. PICK pending \in SUBSET Unused :
        subscriptions' = [id \in (DOMAIN subscriptions \ Unused) \cup pending |-> subscriptions[id]]
  BY DEF TimerEvent
<1>2. /\ DOMAIN subscriptions' \subseteq DOMAIN subscriptions
      /\ \A id \in DOMAIN subscriptions' : subscriptions'[id] = subscriptions[id]
      /\ \A id \in DOMAIN subscriptions : id \in DOMAIN subscriptions' \/ subscriptions[id] = {}
  BY <1>1 DEF Unused
<1>3. UNCHANGED <<devices, sessions, granted>>
  BY DEF TimerEvent
<1>4. \A x \in Clients :
        {id \in DOMAIN subscriptions' : x \in subscriptions'[id]} = {id \in DOMAIN subscriptions : x \in subscriptions[id]}
  BY <1>2
<1>5. UpdatesAsAnswered'
  BY <1>3, <1>4 DEF SessionsInv, UpdatesAsAnswered, PropertyOf
<1>6. QED
  BY <1>2, <1>3, <1>5 DEF SessionsInv

\* The invariant of the sessions: every handler, batch, timer tick and end of a
\* connection keeps the subscriptions those that the clients were told of.
THEOREM SessionsInductive == SessionsSpec => []SessionsInv
<1>1. SessionsInit => SessionsInv
  <2>1. SUFFICES ASSUME SessionsInit PROVE SessionsInv
    OBVIOUS
  <2>2. /\ devices \subseteq Devices /\ DOMAIN subscriptions = {} /\ DOMAIN sessions = {}
        /\ DOMAIN granted = Clients /\ \A c \in Clients : granted[c] = {}
    BY <2>1 DEF SessionsInit
  <2>3. QED
    BY <2>2 DEF SessionsInv, UpdatesAsAnswered
<1>2. SessionsInv /\ [SessionsNext]_sessionVars => SessionsInv'
  <2>1. SUFFICES ASSUME SessionsInv, [SessionsNext]_sessionVars
                 PROVE  SessionsInv'
    OBVIOUS
  <2>2. ASSUME NEW c \in Clients, NEW user \in Users \cup {Nobody},
               NEW password \in {"none", "wrong", "right"}, Authorize(c, user, password)
        PROVE  SessionsInv'
    BY <2>1, <2>2, AuthorizeStep
  <2>3. ASSUME NEW c \in Clients, NEW r \in Requests, Handle(c, r)
        PROVE  SessionsInv'
    BY <2>1, <2>3, HandleStep
  <2>4. ASSUME NEW c \in Clients, NEW ids \in Batches, NEW command \in BatchCommands, HandleBatch(c, command, ids)
        PROVE  SessionsInv'
    BY <2>1, <2>4, HandleBatchStep
  <2>5. ASSUME NEW c \in Clients, Leave(c)
        PROVE  SessionsInv'
    BY <2>1, <2>5, LeaveStep
  <2>6. ASSUME NEW found \in SUBSET Devices, Enumerated(found)
        PROVE  SessionsInv'
    BY <2>1, <2>6 DEF Enumerated, SessionsInv, UpdatesAsAnswered, PropertyOf
  <2>7. CASE TimerEvent
    BY <2>1, <2>7, TimerEventStep
  <2>8. CASE UNCHANGED sessionVars
    BY <2>1, <2>8 DEF sessionVars, SessionsInv, UpdatesAsAnswered, PropertyOf
  <2>9. QED
    BY <2>1, <2>2, <2>3, <2>4, <2>5, <2>6, <2>7, <2>8 DEF SessionsNext
<1>3. QED
  BY <1>1, <1>2, PTL DEF SessionsSpec

\* Whoever was told to be subscribed to a property gets its updates until they
\* unsubscribe or leave; nobody else does, and never for a property that the
\* same session could not read.
THEOREM SubscribersGetUpdates == SessionsSpec => []UpdatesAsAnswered
<1>1. SessionsInv => UpdatesAsAnswered
  BY DEF SessionsInv
<1>2. QED
  BY <1>1, SessionsInductive, PTL

(* The two transports against each other, and a batch against one request. *)

\* What each kind of reply to a description says, its list left aside.
LEMMA Outcomes ==
  /\ \A ids : [Listing(ids) EXCEPT !.listed = {}] = Reply("Success")
  /\ \A status : [Reply(status) EXCEPT !.listed = {}] = Reply(status)
<1> DEFINE Says(status, listed) ==
             [status |-> status, each |-> <<>>, listed |-> listed, operation |-> <<>>, query |-> <<>>,
              add |-> {}, remove |-> {}]
<1>1. ASSUME NEW status, NEW listed, NEW other
      PROVE  [Says(status, listed) EXCEPT !.listed = other] = Says(status, other)
  <2> DEFINE none == <<>>
             nobody == {}
             record == [status |-> status, each |-> none, listed |-> listed, operation |-> none, query |-> none,
                        add |-> nobody, remove |-> nobody]
  <2> HIDE DEF none, nobody
  <2>1. [record EXCEPT !.listed = other]
          = [status |-> status, each |-> none, listed |-> other, operation |-> none, query |-> none,
             add |-> nobody, remove |-> nobody]
    OBVIOUS
  <2>2. QED
    BY <2>1 DEF none, nobody
<1>2. \A status : Reply(status) = Says(status, {})
  BY DEF Reply
<1> HIDE DEF Says
<1>3. \A ids : Listing(ids) = Says("Success", ids)
  BY <1>1, <1>2 DEF Listing
<1>4. QED
  BY <1>1, <1>2, <1>3

\* The commands that are asked with one id, and nothing else.
OneId == {"DESCRIBE", "READ_PROPERTY", "SUBSCRIBE_PROPERTY", "UNSUBSCRIBE_PROPERTY", "FIND_PROPERTIES"}

\* The command, the headers and the missing body of a WebSocket frame.
LEMMA WsFrameFields ==
  ASSUME NEW r \in Requests
  PROVE  /\ WebSocketFrame(r).command = r.command
         /\ WebSocketFrame(r).headers = r.arguments
         /\ ~HasBody(WebSocketFrame(r))
BY RequestsAre, WsFrameIs, HeadersHaveColons DEF HasBody

\* The parameters of a Bluetooth frame.
LEMMA Parameters ==
  ASSUME NEW r \in Requests, NEW places, Places(r) = places
  PROVE  /\ Len(BluetoothFrame(r).parameters) = Len(places) + (IF Longer(r) THEN 1 ELSE 0)
         /\ \A i \in 1..Len(places) : BluetoothFrame(r).parameters[i] = ParameterOf(r, places[i])
BY BtFrameIs, Zenon

\* A parameter fits into a set of types: null as Invalid, text and numbers as
\* any other.
LEMMA Fits ==
  ASSUME NEW r, NEW name, NEW type, type # "Invalid"
  PROVE  /\ (\E t \in {type} : CanConvert(ParameterOf(r, name), t)) <=> name \in DOMAIN r.arguments
         /\ \E t \in {type, "Invalid"} : CanConvert(ParameterOf(r, name), t)
BY DEF CanConvert, ParameterOf

\* A parameter is null or has the value of its argument.
LEMMA InPlace ==
  ASSUME NEW r, NEW frame, NEW i, NEW name, frame.parameters[i] = ParameterOf(r, name)
  PROVE  /\ IsNull(frame, i) <=> name \notin DOMAIN r.arguments
         /\ name \in DOMAIN r.arguments => Value(frame, i) = r.arguments[name]
BY DEF ParameterOf, IsNull, Value

\* Both transports look for the same id: it is there, alone, or the frame is
\* refused.
LEMMA SameId ==
  ASSUME NEW r \in Requests, r.command \in OneId, ~Placeless(r)
  PROVE  /\ DOMAIN r.arguments \subseteq {"id", "extra"}
         /\ ValidParameters(BluetoothFrame(r), Id, FALSE) <=> DOMAIN r.arguments = {"id"}
         /\ ValidParameters(BluetoothFrame(r), <<{"String", "Invalid"}>>, FALSE) <=> "extra" \notin DOMAIN r.arguments
         /\ DOMAIN r.arguments = {"id"} => Value(BluetoothFrame(r), 1) = r.arguments.id
<1> DEFINE frame == BluetoothFrame(r)
           parameters == frame.parameters
           n == IF "extra" \in DOMAIN r.arguments THEN 1 ELSE 0
<1>1. DOMAIN r.arguments \subseteq {"id", "extra"}
  BY RequestsAre DEF OneId, NamesOf, Placeless
<1>2. Places(r) = <<"id">>
  BY DEF Places, Order, OneId
<1>3. /\ Len(parameters) = Len(<<"id">>) + (IF Longer(r) THEN 1 ELSE 0)
      /\ \A i \in 1..Len(<<"id">>) : parameters[i] = ParameterOf(r, <<"id">>[i])
  BY <1>2, Parameters
<1>4. Len(<<"id">>) = 1 /\ <<"id">>[1] = "id" /\ 1 \in 1..1
  OBVIOUS
<1>5. Len(parameters) = 1 + n /\ parameters[1] = ParameterOf(r, "id")
  BY <1>3, <1>4 DEF Longer
<1>6. \A types : Len(types) = 1 /\ DOMAIN types = {1} /\ types[1] # {} =>
        (ValidParameters(frame, types, FALSE)
          <=> "extra" \notin DOMAIN r.arguments /\ \E type \in types[1] : CanConvert(ParameterOf(r, "id"), type))
  <2>1. Len(parameters) = 1 <=> "extra" \notin DOMAIN r.arguments
    BY <1>5
  <2> HIDE DEF parameters
  <2>2. QED
    BY <1>5, <2>1 DEF ValidParameters, parameters
<1>7. Len(Id) = 1 /\ DOMAIN Id = {1} /\ Id[1] = {"String"} /\ Id[1] # {}
  BY DEF Id
<1> DEFINE types == <<{"String", "Invalid"}>>
<1>8. Len(types) = 1 /\ DOMAIN types = {1} /\ types[1] = {"String", "Invalid"} /\ types[1] # {}
  OBVIOUS
<1>9. /\ (\E t \in {"String"} : CanConvert(ParameterOf(r, "id"), t)) <=> "id" \in DOMAIN r.arguments
      /\ \E t \in {"String", "Invalid"} : CanConvert(ParameterOf(r, "id"), t)
  BY Fits
<1>10. DOMAIN r.arguments = {"id"} => Value(frame, 1) = r.arguments.id
  BY <1>5, InPlace
<1> HIDE DEF frame, parameters, types
<1>11. ValidParameters(frame, Id, FALSE) <=> DOMAIN r.arguments = {"id"}
  BY <1>1, <1>6, <1>7, <1>9
<1>12. ValidParameters(frame, types, FALSE) <=> "extra" \notin DOMAIN r.arguments
  BY <1>6, <1>8, <1>9
<1>13. QED
  BY <1>1, <1>10, <1>11, <1>12 DEF frame, types

\* The requests about one id, but for descriptions and searches.
LEMMA SameForOneId ==
  ASSUME NEW level, NEW user, NEW r \in Requests,
         r.command \in {"READ_PROPERTY", "SUBSCRIBE_PROPERTY", "UNSUBSCRIBE_PROPERTY"}
  PROVE  WebSocketReply(level, user, WebSocketFrame(r)) = BluetoothReply(level, user, BluetoothFrame(r))
<1> DEFINE ws == WebSocketFrame(r)
           bt == BluetoothFrame(r)
           id == r.arguments.id
<1>1. ws.command = r.command /\ ws.headers = r.arguments /\ ~HasBody(ws)
  BY WsFrameFields
<1>2. bt.command = r.command
  BY BtFrameIs
<1>3. /\ ValidParameters(bt, Id, FALSE) <=> DOMAIN r.arguments = {"id"}
      /\ DOMAIN r.arguments = {"id"} => Value(bt, 1) = id
  BY SameId DEF OneId, Placeless
<1>4. ValidHeaders(ws, {"id"}, {}) <=> DOMAIN r.arguments = {"id"}
  BY <1>1 DEF ValidHeaders
<1>5. ws.headers.id = id
  BY <1>1
<1> HIDE DEF ws, bt, id
<1>6. CASE r.command = "READ_PROPERTY"
  <2>1. WsReadProperty(level, ws) = BtReadProperty(level, bt)
    BY <1>1, <1>3, <1>4, <1>5 DEF WsReadProperty, BtReadProperty
  <2>2. WebSocketReply(level, user, ws) = WsReadProperty(level, ws)
    BY <1>1, <1>6 DEF WebSocketReply
  <2>3. BluetoothReply(level, user, bt) = BtReadProperty(level, bt)
    BY <1>2, <1>6 DEF BluetoothReply
  <2>4. QED
    BY <2>1, <2>2, <2>3 DEF ws, bt
<1>7. CASE r.command = "SUBSCRIBE_PROPERTY"
  <2>1. WsSubscribeProperty(level, ws) = BtSubscribeProperty(level, bt)
    BY <1>1, <1>3, <1>4, <1>5 DEF WsSubscribeProperty, WsSubscribeId, BtSubscribeProperty
  <2>2. WebSocketReply(level, user, ws) = WsSubscribeProperty(level, ws)
    BY <1>1, <1>7 DEF WebSocketReply
  <2>3. BluetoothReply(level, user, bt) = BtSubscribeProperty(level, bt)
    BY <1>2, <1>7 DEF BluetoothReply
  <2>4. QED
    BY <2>1, <2>2, <2>3 DEF ws, bt
<1>8. CASE r.command = "UNSUBSCRIBE_PROPERTY"
  <2>1. WsUnsubscribeProperty(ws) = BtUnsubscribeProperty(bt)
    BY <1>1, <1>3, <1>4, <1>5 DEF WsUnsubscribeProperty, WsUnsubscribeId, BtUnsubscribeProperty
  <2>2. WebSocketReply(level, user, ws) = WsUnsubscribeProperty(ws)
    BY <1>1, <1>8 DEF WebSocketReply
  <2>3. BluetoothReply(level, user, bt) = BtUnsubscribeProperty(bt)
    BY <1>2, <1>8 DEF BluetoothReply
  <2>4. QED
    BY <2>1, <2>2, <2>3 DEF ws, bt
<1>9. QED
  BY <1>6, <1>7, <1>8

\* Searches for no virtual devices with any function.
LEMMA SameSearch ==
  ASSUME NEW level, NEW user, NEW r \in Requests, r.command = "FIND_PROPERTIES", ~Placeless(r)
  PROVE  WebSocketReply(level, user, WebSocketFrame(r)) = BluetoothReply(level, user, BluetoothFrame(r))
<1> DEFINE ws == WebSocketFrame(r)
           bt == BluetoothFrame(r)
           id == r.arguments.id
<1>1. ws.command = r.command /\ ws.headers = r.arguments /\ ~HasBody(ws)
  BY WsFrameFields
<1>2. bt.command = r.command
  BY BtFrameIs
<1>3. /\ DOMAIN r.arguments \subseteq {"id", "extra"}
      /\ ValidParameters(bt, Id, FALSE) <=> DOMAIN r.arguments = {"id"}
      /\ DOMAIN r.arguments = {"id"} => Value(bt, 1) = id
  BY SameId DEF OneId
<1>4. ValidHeaders(ws, {"id"}, {"virtual", "functions"}) <=> DOMAIN r.arguments = {"id"}
  BY <1>1, <1>3 DEF ValidHeaders
<1>5. ws.headers.id = id
  BY <1>1
<1>6. ~Has(ws, "functions") /\ ~Has(ws, "virtual")
  BY <1>1, <1>3 DEF Has
<1>7. {"all"} \subseteq FunctionNames \cup {"all"} /\ AskedFunctions({"all"}) = FunctionNames
  BY DEF AskedFunctions
<1> HIDE DEF ws, bt, id
<1>8. WsFindProperties(ws) = IF DOMAIN r.arguments = {"id"} /\ IsValid(id)
                             THEN Listing(FindProperties(id, FALSE, FunctionNames)) ELSE InvalidFrame
  <2>1. (Has(ws, "virtual") /\ ws.headers.virtual = "true") = FALSE
    BY <1>6
  <2>2. QED
    BY <1>1, <1>4, <1>5, <1>6, <1>7, <2>1 DEF WsFindProperties
<1>9. BtFindProperties(bt) = IF DOMAIN r.arguments = {"id"} /\ IsValid(id)
                             THEN Listing(FindProperties(id, FALSE, FunctionNames)) ELSE InvalidFrame
  BY <1>3 DEF BtFindProperties
<1>10. WebSocketReply(level, user, ws) = WsFindProperties(ws)
  BY <1>1 DEF WebSocketReply
<1>11. BluetoothReply(level, user, bt) = BtFindProperties(bt)
  BY <1>2 DEF BluetoothReply
<1>12. QED
  BY <1>8, <1>9, <1>10, <1>11 DEF ws, bt

\* Descriptions, what they list left aside but for that of a property.
LEMMA SameDescription ==
  ASSUME NEW level, NEW user, NEW r \in Requests, r.command = "DESCRIBE", ~Placeless(r)
  PROVE  Outcome(r, WebSocketReply(level, user, WebSocketFrame(r)))
           = Outcome(r, BluetoothReply(level, user, BluetoothFrame(r)))
<1> DEFINE ws == WebSocketFrame(r)
           bt == BluetoothFrame(r)
           id == r.arguments.id
<1>1. ws.command = "DESCRIBE" /\ ws.headers = r.arguments /\ ~HasBody(ws)
  BY WsFrameFields
<1>2. bt.command = "DESCRIBE"
  BY BtFrameIs
<1>3. /\ DOMAIN r.arguments \subseteq {"id", "extra"}
      /\ ValidParameters(bt, Id, FALSE) <=> DOMAIN r.arguments = {"id"}
      /\ ValidParameters(bt, <<{"String", "Invalid"}>>, FALSE) <=> "extra" \notin DOMAIN r.arguments
      /\ DOMAIN r.arguments = {"id"} => Value(bt, 1) = id
  BY SameId DEF OneId
<1>4. WebSocketReply(level, user, ws) = WsDescribe(level, ws)
  BY <1>1 DEF WebSocketReply
<1>5. BluetoothReply(level, user, bt) = BtDescribe(level, bt)
  BY <1>2 DEF BluetoothReply
<1>6. /\ ValidHeaders(ws, {}, {"id", "flags"}) <=> "extra" \notin DOMAIN r.arguments
      /\ ~Has(ws, "flags")
      /\ Has(ws, "id") <=> "id" \in DOMAIN r.arguments
      /\ DefaultFlags \subseteq DescriptionFlags
  BY <1>1, <1>3 DEF ValidHeaders, Has, DescriptionFlags
<1>7. ws.headers.id = id
  BY <1>1
<1>8. \A reply : Outcome(r, reply) = IF "id" \in DOMAIN r.arguments => Len(id) # 3
                                     THEN [reply EXCEPT !.listed = {}] ELSE reply
  BY DEF Outcome
<1> HIDE DEF ws, bt, id
<1>9. CASE "extra" \in DOMAIN r.arguments
  <2>1. WsDescribe(level, ws) = InvalidFrame /\ BtDescribe(level, bt) = InvalidFrame
    BY <1>3, <1>6, <1>9 DEF WsDescribe, BtDescribe
  <2>2. QED
    BY <1>4, <1>5, <2>1 DEF ws, bt
<1>10. CASE DOMAIN r.arguments = {}
  <2>1. WsDescribe(level, ws) = Listing(ListedInRegistry(level, DefaultFlags))
    BY <1>1, <1>6, <1>10 DEF WsDescribe
  <2>2. BtDescribe(level, bt) = Listing({<<Access>>})
    BY <1>3, <1>10 DEF BtDescribe
  <2>3. \A ids : Outcome(r, Listing(ids)) = Reply("Success")
    BY <1>8, <1>10, Outcomes
  <2>4. QED
    BY <1>4, <1>5, <2>1, <2>2, <2>3 DEF ws, bt
<1>11. CASE DOMAIN r.arguments = {"id"}
  <2>1. WsDescribe(level, ws) = WsDescribeId(level, id, DefaultFlags)
    BY <1>1, <1>6, <1>7, <1>11 DEF WsDescribe
  <2>2. BtDescribe(level, bt) = BtDescribeId(level, id)
    BY <1>3, <1>11 DEF BtDescribe
  <2> DEFINE flags == DefaultFlags
  <2> HIDE DEF flags
  <2>3. CASE Len(id) = 3
    <3>1. WsDescribeId(level, id, flags) = BtDescribeId(level, id)
      BY <2>3 DEF WsDescribeId, BtDescribeId
    <3>2. QED
      BY <1>4, <1>5, <2>1, <2>2, <3>1 DEF ws, bt, flags
  <2>4. CASE Len(id) # 3
    <3>1. \A ids : Outcome(r, Listing(ids)) = Reply("Success")
      BY <1>8, <2>4, Outcomes
    <3>2. \A status : Outcome(r, Reply(status)) = Reply(status)
      BY <1>8, <2>4, Outcomes
    <3>3. Outcome(r, WsDescribeId(level, id, flags)) = Outcome(r, BtDescribeId(level, id))
      <4>1. CASE Len(id) \in {1, 2} /\ id[1] # Access
        BY <4>1 DEF WsDescribeId, BtDescribeId
      <4>2. CASE Len(id) = 1 /\ id[1] = Access
        <5>1. WsDescribeId(level, id, flags) = Listing(ListedInAccess(level, flags))
          BY <4>2 DEF WsDescribeId
        <5>2. \E ids : BtDescribeId(level, id) = Listing(ids)
          BY <4>2 DEF BtDescribeId
        <5>3. QED
          BY <3>1, <5>1, <5>2
      <4>3. CASE Len(id) = 2 /\ id[1] = Access
        <5>1. WsDescribeId(level, id, flags) = IF id[2] \in devices THEN Listing(ListedInDevice(level, id[2], flags))
                                               ELSE Reply("NoDevice")
          BY <4>3 DEF WsDescribeId
        <5>2. \E ids : BtDescribeId(level, id) = IF id[2] \in devices THEN Listing(ids) ELSE Reply("NoDevice")
          <6> DEFINE ids == {<<Access, id[2], n>> : n \in DOMAIN Table[id[2]]}
          <6>1. BtDescribeId(level, id) = IF id[2] \in devices THEN Listing(ids) ELSE Reply("NoDevice")
            BY <4>3 DEF BtDescribeId
          <6> HIDE DEF ids
          <6>2. QED
            BY <6>1
        <5>3. QED
          BY <3>1, <3>2, <5>1, <5>2
      <4>4. CASE Len(id) \notin {1, 2, 3}
        BY <4>4 DEF WsDescribeId, BtDescribeId
      <4>5. QED
        BY <2>4, <4>1, <4>2, <4>3, <4>4
    <3>4. QED
      BY <1>4, <1>5, <2>1, <2>2, <3>3 DEF ws, bt, flags
  <2>5. QED
    BY <2>3, <2>4
<1>12. QED
  BY <1>3, <1>9, <1>10, <1>11

\* Enumerations, without and with a superfluous argument.
LEMMA SameEnumeration ==
  ASSUME NEW level, NEW user, NEW r \in Requests, r.command = "ENUMERATE"
  PROVE  WebSocketReply(level, user, WebSocketFrame(r)) = BluetoothReply(level, user, BluetoothFrame(r))
<1> DEFINE ws == WebSocketFrame(r)
           bt == BluetoothFrame(r)
           parameters == bt.parameters
<1>1. ws.command = "ENUMERATE" /\ ws.headers = r.arguments /\ ~HasBody(ws)
  BY WsFrameFields
<1>2. DOMAIN r.arguments \subseteq {"extra"}
  BY RequestsAre DEF NamesOf
<1>3. bt.command = "ENUMERATE"
  BY BtFrameIs
<1>4. parameters = <<>> <=> DOMAIN r.arguments = {}
  <2>1. Places(r) = <<>>
    BY DEF Places, Order
  <2>2. Len(parameters) = Len(<<>>) + (IF Longer(r) THEN 1 ELSE 0)
    BY <2>1, Parameters
  <2>3. parameters = <<>> <=> Len(parameters) = 0
    BY BtFrameIs, Zenon
  <2>4. Longer(r) <=> "extra" \in DOMAIN r.arguments
    BY DEF Longer, Placeless
  <2> HIDE DEF parameters
  <2>5. Len(parameters) = IF Longer(r) THEN 1 ELSE 0
    BY <2>2
  <2>6. QED
    BY <1>2, <2>3, <2>4, <2>5
<1> HIDE DEF ws, bt
<1>5. WebSocketReply(level, user, ws)
        = IF HasBody(ws) \/ DOMAIN ws.headers # {} THEN InvalidFrame ELSE Queued("enumerate", <<>>)
  BY <1>1 DEF WebSocketReply
<1>6. BluetoothReply(level, user, bt) = IF bt.parameters # <<>> THEN InvalidFrame ELSE Queued("enumerate", <<>>)
  BY <1>3 DEF BluetoothReply
<1>7. WebSocketReply(level, user, ws) = BluetoothReply(level, user, bt)
  BY <1>1, <1>4, <1>5, <1>6
<1>8. QED
  BY <1>7 DEF ws, bt

\* Writes of a text with flags that exist, or none.
LEMMA SameWrite ==
  ASSUME NEW level, NEW user, NEW r \in Requests, r.command = "WRITE_PROPERTY", ~MayDiffer(r)
  PROVE  WebSocketReply(level, user, WebSocketFrame(r)) = BluetoothReply(level, user, BluetoothFrame(r))
<1> DEFINE ws == WebSocketFrame(r)
           bt == BluetoothFrame(r)
           given == DOMAIN r.arguments
           id == r.arguments.id
           flags == IF "flags" \in given THEN r.arguments.flags ELSE DefaultWriteFlags
           parameters == bt.parameters
           places == <<"id", "flags", "value">>
           types == <<{"String"}, {"Int", "Invalid"}, {}>>
           valid == "id" \in given /\ "extra" \notin given
<1>1. ws.command = "WRITE_PROPERTY" /\ ws.headers = r.arguments /\ ~HasBody(ws)
  BY WsFrameFields
<1>2. /\ given \subseteq {"id", "extra", "flags", "value"}
      /\ "value" \in given /\ r.arguments.value = "text"
      /\ "flags" \in given => r.arguments.flags \subseteq {"Permanent"}
  <2>1. /\ given \subseteq {"id", "extra", "flags", "value"}
        /\ "flags" \in given => r.arguments.flags \subseteq {"Permanent", "other"}
        /\ "value" \in given => r.arguments.value \in {"text", "number"}
    BY RequestsAre DEF NamesOf
  <2>2. /\ "value" \in given /\ r.arguments.value # "number"
        /\ "flags" \in given => r.arguments.flags \notin {{"other"}, {"Permanent", "other"}}
    BY DEF MayDiffer
  <2>3. QED
    BY <2>1, <2>2
<1>3. bt.command = "WRITE_PROPERTY"
  BY BtFrameIs
<1>4. /\ Len(parameters) = 3 <=> "extra" \notin given
      /\ parameters[1] = ParameterOf(r, "id")
      /\ parameters[2] = ParameterOf(r, "flags")
      /\ parameters[3] = ParameterOf(r, "value")
  <2>1. Places(r) = places
    BY DEF Places, Order
  <2>2. /\ Len(parameters) = Len(places) + (IF Longer(r) THEN 1 ELSE 0)
        /\ \A i \in 1..Len(places) : parameters[i] = ParameterOf(r, places[i])
    BY <2>1, Parameters
  <2>3. /\ Len(places) = 3 /\ places[1] = "id" /\ places[2] = "flags" /\ places[3] = "value"
        /\ 1 \in 1..3 /\ 2 \in 1..3 /\ 3 \in 1..3
    OBVIOUS
  <2>4. Longer(r) <=> "extra" \in given
    BY DEF Longer, Placeless
  <2> HIDE DEF parameters, places
  <2>5. QED
    BY <2>2, <2>3, <2>4
<1>5. ValidParameters(bt, types, FALSE) <=> valid
  <2>1. /\ Len(types) = 3 /\ DOMAIN types = {1, 2, 3}
        /\ types[1] = {"String"} /\ types[2] = {"Int", "Invalid"} /\ types[3] = {}
    OBVIOUS
  <2>2. /\ (\E t \in {"String"} : CanConvert(parameters[1], t)) <=> "id" \in given
        /\ \E t \in {"Int", "Invalid"} : CanConvert(parameters[2], t)
    BY <1>4, Fits
  <2> HIDE DEF types
  <2>3. QED
    BY <1>4, <2>1, <2>2 DEF ValidParameters
<1>6. /\ "id" \in given => Value(bt, 1) = id
      /\ (IF IsNull(bt, 2) THEN DefaultWriteFlags ELSE Value(bt, 2)) = flags
      /\ (IF IsNull(bt, 3) THEN "null" ELSE Value(bt, 3)) = "text"
  BY <1>2, <1>4, InPlace
<1>7. /\ ValidHeaders(ws, {"id"}, {"value", "flags"}) <=> valid
      /\ ws.headers.id = id
      /\ ~(Has(ws, "flags") /\ ~(ws.headers.flags \subseteq {"Permanent"}))
      /\ (IF Has(ws, "flags") THEN ws.headers.flags ELSE DefaultWriteFlags) = flags
      /\ (IF Has(ws, "value") THEN "text" ELSE "empty text") = "text"
  BY <1>1, <1>2 DEF ValidHeaders, Has
<1>8. WebSocketReply(level, user, ws) = WsWriteProperty(level, ws)
  BY <1>1 DEF WebSocketReply
<1>9. BluetoothReply(level, user, bt) = BtWriteProperty(level, bt)
  BY <1>3 DEF BluetoothReply
<1> HIDE DEF ws, bt, id, flags, types, given
<1>10. CASE ~valid
  <2>1. WsWriteProperty(level, ws) = InvalidFrame
    BY <1>7, <1>10 DEF WsWriteProperty
  <2>2. BtWriteProperty(level, bt) = InvalidFrame
    BY <1>5, <1>10 DEF BtWriteProperty, types
  <2>3. QED
    BY <1>8, <1>9, <2>1, <2>2 DEF ws, bt
<1>11. CASE valid
  <2> DEFINE reply == CASE Hidden(level, id) -> Reply("NoProperty")
                        [] ~Hidden(level, id) /\ ~PropertyOf(id).writeable -> Reply("Error")
                        [] OTHER -> QueuedWrite(id, flags, "text")
  <2>1. WsWriteProperty(level, ws) = reply
    BY <1>1, <1>7, <1>11 DEF WsWriteProperty
  <2>2. BtWriteProperty(level, bt) = reply
    BY <1>5, <1>6, <1>11 DEF BtWriteProperty, types
  <2>3. QED
    BY <1>8, <1>9, <2>1, <2>2 DEF ws, bt
<1>12. QED
  BY <1>10, <1>11


\* Messages within a range that can be read.
LEMMA SameMessages ==
  ASSUME NEW level, NEW user, NEW r \in Requests, r.command = "READ_MESSAGES", ~MayDiffer(r)
  PROVE  WebSocketReply(level, user, WebSocketFrame(r)) = BluetoothReply(level, user, BluetoothFrame(r))
<1> DEFINE ws == WebSocketFrame(r)
           bt == BluetoothFrame(r)
           given == DOMAIN r.arguments
           Or(name, default) == IF name \in given THEN r.arguments[name] ELSE default
           from == Or("from", "epoch")
           to == Or("to", "now")
           limit == Or("limit", "all")
           parameters == bt.parameters
           places == <<"from", "to", "limit">>
           types == <<Time, Time, UpTo>>
           valid == "extra" \notin given /\ limit # "bad"
<1>1. ws.command = "READ_MESSAGES" /\ ws.headers = r.arguments /\ ~HasBody(ws)
  BY WsFrameFields
<1>2. /\ given \subseteq {"from", "to", "limit", "extra"}
      /\ "from" \in given => r.arguments.from = "good"
      /\ "to" \in given => r.arguments.to = "good"
      /\ "limit" \in given => r.arguments.limit \in {"few", "many", "bad"}
  <2>1. /\ given \subseteq {"from", "to", "limit", "extra"}
        /\ "from" \in given => r.arguments.from \in {"good", "bad"}
        /\ "to" \in given => r.arguments.to \in {"good", "bad"}
        /\ "limit" \in given => r.arguments.limit \in {"few", "many", "wide", "bad"}
    BY RequestsAre DEF NamesOf
  <2>2. /\ "from" \in given => r.arguments.from # "bad"
        /\ "to" \in given => r.arguments.to # "bad"
        /\ "limit" \in given => r.arguments.limit # "wide"
    BY DEF MayDiffer
  <2>3. QED
    BY <2>1, <2>2
<1>3. bt.command = "READ_MESSAGES"
  BY BtFrameIs
<1>4. /\ Len(parameters) = 3 <=> "extra" \notin given
      /\ parameters[1] = ParameterOf(r, "from")
      /\ parameters[2] = ParameterOf(r, "to")
      /\ parameters[3] = ParameterOf(r, "limit")
  <2>1. Places(r) = places
    BY DEF Places, Order
  <2>2. /\ Len(parameters) = Len(places) + (IF Longer(r) THEN 1 ELSE 0)
        /\ \A i \in 1..Len(places) : parameters[i] = ParameterOf(r, places[i])
    BY <2>1, Parameters
  <2>3. /\ Len(places) = 3 /\ places[1] = "from" /\ places[2] = "to" /\ places[3] = "limit"
        /\ 1 \in 1..3 /\ 2 \in 1..3 /\ 3 \in 1..3
    OBVIOUS
  <2>4. Longer(r) <=> "extra" \in given
    BY DEF Longer, Placeless
  <2> HIDE DEF parameters, places
  <2>5. QED
    BY <2>2, <2>3, <2>4
<1>5. ValidParameters(bt, types, FALSE) <=> "extra" \notin given
  <2>1. /\ Len(types) = 3 /\ DOMAIN types = {1, 2, 3}
        /\ types[1] = Time /\ types[2] = Time /\ types[3] = UpTo
    OBVIOUS
  <2>2. /\ \E t \in Time : CanConvert(parameters[1], t)
        /\ \E t \in Time : CanConvert(parameters[2], t)
        /\ \E t \in UpTo : CanConvert(parameters[3], t)
    BY <1>4, Fits DEF Time, UpTo
  <2> HIDE DEF types
  <2>3. QED
    BY <1>4, <2>1, <2>2 DEF ValidParameters
<1>6. /\ Seconds(bt, 1, "epoch") = from
      /\ Seconds(bt, 2, "now") = to
      /\ ReadableLimit(bt, 3) <=> limit # "bad"
      /\ limit # "bad" => (IF IsNull(bt, 3) THEN "all" ELSE Low(Value(bt, 3))) = limit
  BY <1>2, <1>4, InPlace DEF Seconds, ReadableLimit, Low
<1>7. /\ ValidHeaders(ws, {}, {"from", "to", "limit"}) <=> "extra" \notin given
      /\ From(ws) = from /\ To(ws) = to /\ Limit(ws) = limit
      /\ WsRange(ws) <=> limit # "bad"
  BY <1>1, <1>2 DEF ValidHeaders, Has, From, To, Limit, WsRange
<1>8. WebSocketReply(level, user, ws) = WsReadMessages(ws)
  BY <1>1 DEF WebSocketReply
<1>9. BluetoothReply(level, user, bt) = BtReadMessages(bt)
  BY <1>3 DEF BluetoothReply
<1> HIDE DEF ws, bt, from, to, limit, types, given
<1>10. WsReadMessages(ws) = IF valid THEN Stored("messages", <<from, to, limit>>) ELSE InvalidFrame
  BY <1>1, <1>7 DEF WsReadMessages
<1>11. BtReadMessages(bt) = IF valid THEN Stored("messages", <<from, to, limit>>) ELSE InvalidFrame
  BY <1>5, <1>6 DEF BtReadMessages, types
<1>12. QED
  BY <1>8, <1>9, <1>10, <1>11 DEF ws, bt

\* Logged values, at most 1000 of an id, or what is logged.
LEMMA SameDatalog ==
  ASSUME NEW level, NEW user, NEW r \in Requests, r.command = "READ_DATALOG", ~MayDiffer(r)
  PROVE  WebSocketReply(level, user, WebSocketFrame(r)) = BluetoothReply(level, user, BluetoothFrame(r))
<1> DEFINE ws == WebSocketFrame(r)
           bt == BluetoothFrame(r)
           given == DOMAIN r.arguments
           Or(name, default) == IF name \in given THEN r.arguments[name] ELSE default
           id == r.arguments.id
           from == Or("from", "epoch")
           to == Or("to", "now")
           limit == Or("limit", "all")
           parameters == bt.parameters
           places == <<"id", "from", "to", "limit">>
           types == <<{"String", "Invalid"}, Time, Time, UpTo>>
           valid == /\ "extra" \notin given
                    /\ "id" \in given => IsValid(id)
                    /\ limit # "bad"
<1>1. ws.command = "READ_DATALOG" /\ ws.headers = r.arguments /\ ~HasBody(ws)
  BY WsFrameFields
<1>2. /\ given \subseteq {"id", "from", "to", "limit", "extra"}
      /\ "from" \in given => r.arguments.from = "good"
      /\ "to" \in given => r.arguments.to = "good"
      /\ "limit" \in given => r.arguments.limit \in {"few", "many", "bad"}
      /\ "id" \in given => limit \in {"few", "bad"}
  <2>1. /\ given \subseteq {"id", "from", "to", "limit", "extra"}
        /\ "from" \in given => r.arguments.from \in {"good", "bad"}
        /\ "to" \in given => r.arguments.to \in {"good", "bad"}
        /\ "limit" \in given => r.arguments.limit \in {"few", "many", "wide", "bad"}
    BY RequestsAre DEF NamesOf
  <2>2. /\ "from" \in given => r.arguments.from # "bad"
        /\ "to" \in given => r.arguments.to # "bad"
        /\ "limit" \in given => r.arguments.limit # "wide"
        /\ "id" \in given => "limit" \in given /\ r.arguments.limit # "many"
    BY DEF MayDiffer
  <2>3. QED
    BY <2>1, <2>2
<1>3. bt.command = "READ_DATALOG"
  BY BtFrameIs
<1>4. /\ Len(parameters) = 4 <=> "extra" \notin given
      /\ parameters[1] = ParameterOf(r, "id")
      /\ parameters[2] = ParameterOf(r, "from")
      /\ parameters[3] = ParameterOf(r, "to")
      /\ parameters[4] = ParameterOf(r, "limit")
  <2>1. Places(r) = places
    BY DEF Places, Order
  <2>2. /\ Len(parameters) = Len(places) + (IF Longer(r) THEN 1 ELSE 0)
        /\ \A i \in 1..Len(places) : parameters[i] = ParameterOf(r, places[i])
    BY <2>1, Parameters
  <2>3. /\ Len(places) = 4 /\ places[1] = "id" /\ places[2] = "from" /\ places[3] = "to" /\ places[4] = "limit"
        /\ 1 \in 1..4 /\ 2 \in 1..4 /\ 3 \in 1..4 /\ 4 \in 1..4
    OBVIOUS
  <2>4. Longer(r) <=> "extra" \in given
    BY DEF Longer, Placeless
  <2> HIDE DEF parameters, places
  <2>5. QED
    BY <2>2, <2>3, <2>4
<1>5. ValidParameters(bt, types, FALSE) <=> "extra" \notin given
  <2>1. /\ Len(types) = 4 /\ DOMAIN types = {1, 2, 3, 4}
        /\ types[1] = {"String", "Invalid"} /\ types[2] = Time /\ types[3] = Time /\ types[4] = UpTo
    OBVIOUS
  <2>2. /\ \E t \in {"String", "Invalid"} : CanConvert(parameters[1], t)
        /\ \E t \in Time : CanConvert(parameters[2], t)
        /\ \E t \in Time : CanConvert(parameters[3], t)
        /\ \E t \in UpTo : CanConvert(parameters[4], t)
    BY <1>4, Fits DEF Time, UpTo
  <2> HIDE DEF types
  <2>3. QED
    BY <1>4, <2>1, <2>2 DEF ValidParameters
<1>6. /\ IsNull(bt, 1) <=> "id" \notin given
      /\ "id" \in given => Value(bt, 1) = id
      /\ Seconds(bt, 2, "epoch") = from
      /\ Seconds(bt, 3, "now") = to
      /\ ReadableLimit(bt, 4) <=> limit # "bad"
      /\ limit = "few" => (IF IsNull(bt, 4) THEN "1000" ELSE Capped(Low(Value(bt, 4)))) = limit
  BY <1>2, <1>4, InPlace DEF Seconds, ReadableLimit, Low, Capped
<1>7. /\ ValidHeaders(ws, {}, {"id", "from", "to", "limit"}) <=> "extra" \notin given
      /\ Has(ws, "id") <=> "id" \in given
      /\ ws.headers.id = id
      /\ From(ws) = from /\ To(ws) = to /\ Limit(ws) = limit
      /\ WsRange(ws) <=> limit # "bad"
  BY <1>1, <1>2 DEF ValidHeaders, Has, From, To, Limit, WsRange
<1>8. WebSocketReply(level, user, ws) = WsReadDatalog(ws)
  BY <1>1 DEF WebSocketReply
<1>9. BluetoothReply(level, user, bt) = BtReadDatalog(bt)
  BY <1>3 DEF BluetoothReply
<1>10. "id" \in given /\ valid => limit = "few"
  BY <1>2
<1> HIDE DEF ws, bt, id, from, to, limit, types, given
<1> DEFINE reply == IF ~valid THEN InvalidFrame
                    ELSE IF "id" \in given THEN Stored("values", <<id, from, to, limit>>)
                    ELSE Stored("logged", <<from, to>>)
<1>11. WsReadDatalog(ws) = reply
  BY <1>1, <1>7 DEF WsReadDatalog
<1>12. BtReadDatalog(bt) = reply
  <2>1. CASE ~valid
    BY <1>5, <1>6, <2>1 DEF BtReadDatalog, types
  <2>2. CASE valid /\ "id" \notin given
    BY <1>5, <1>6, <2>2 DEF BtReadDatalog, types
  <2>3. CASE valid /\ "id" \in given
    BY <1>5, <1>6, <1>10, <2>3 DEF BtReadDatalog, types
  <2>4. QED
    BY <2>1, <2>2, <2>3
<1>13. QED
  BY <1>8, <1>9, <1>11, <1>12 DEF ws, bt

\* What a call of an extension says, by the extensions of the transport.
CallStatus(user, x, supporting) ==
  CASE x \notin supporting -> Reply("UnsupportedExtension")
    [] x \in supporting /\ ~AllowedForUser(user, x) -> Reply("Forbidden")
    [] OTHER -> Reply("run")

\* A call with an extension and a command, whatever else it has.
LEMMA Calls ==
  ASSUME NEW user, NEW r \in Requests, r.command = "CALL_EXTENSION",
         {"extension", "command"} \subseteq DOMAIN r.arguments
  PROVE  /\ WsCallExtension(user, WebSocketFrame(r)) = CallStatus(user, r.arguments.extension, Extensions)
         /\ BtCallExtension(user, BluetoothFrame(r)) = CallStatus(user, r.arguments.extension, OnBluetooth)
<1> DEFINE ws == WebSocketFrame(r)
           bt == BluetoothFrame(r)
           x == r.arguments.extension
           parameters == bt.parameters
           places == <<"extension", "command">>
<1>1. ws.headers = r.arguments
  BY WsFrameFields
<1>2. Has(ws, "extension") /\ Has(ws, "command") /\ ws.headers.extension = x
  BY <1>1 DEF Has
<1>3. /\ Len(parameters) \in {2, 3} /\ parameters[1] = ParameterOf(r, "extension")
      /\ ~(Len(parameters) < 2) /\ Len(parameters) >= 2
  <2>1. Places(r) = places
    BY DEF Places, Order
  <2>2. /\ Len(parameters) = Len(places) + (IF Longer(r) THEN 1 ELSE 0)
        /\ \A i \in 1..Len(places) : parameters[i] = ParameterOf(r, places[i])
    BY <2>1, Parameters
  <2>3. Len(places) = 2 /\ places[1] = "extension" /\ 1 \in 1..2
    OBVIOUS
  <2> HIDE DEF parameters, places
  <2>4. QED
    BY <2>2, <2>3
<1>4. Value(bt, 1) = x
  BY <1>3, InPlace
<1>5. ValidParameters(bt, Id, TRUE)
  <2>1. Len(Id) = 1 /\ DOMAIN Id = {1} /\ Id[1] = {"String"}
    BY DEF Id
  <2>2. \E t \in {"String"} : CanConvert(parameters[1], t)
    BY <1>3, Fits
  <2> HIDE DEF parameters
  <2>3. Len(parameters) >= 1
    BY <1>3
  <2>4. QED
    BY <2>1, <2>2, <2>3 DEF ValidParameters, parameters
<1>6. ~(Len(bt.parameters) < 2) /\ Len(bt.parameters) >= 2
  BY <1>3
<1> HIDE DEF ws, bt, x
<1>7. WsCallExtension(user, ws) = CallStatus(user, x, Extensions)
  BY <1>2 DEF WsCallExtension, CallStatus
<1>8. BtCallExtension(user, bt) = CallStatus(user, x, OnBluetooth)
  BY <1>4, <1>5, <1>6 DEF BtCallExtension, CallStatus
<1>9. QED
  BY <1>7, <1>8 DEF ws, bt, x

\* Calls with a command, of an extension both transports have or none has.
LEMMA SameCall ==
  ASSUME NEW level, NEW user, NEW r \in Requests, r.command = "CALL_EXTENSION", ~MayDiffer(r)
  PROVE  WebSocketReply(level, user, WebSocketFrame(r)) = BluetoothReply(level, user, BluetoothFrame(r))
<1> DEFINE ws == WebSocketFrame(r)
           bt == BluetoothFrame(r)
           given == DOMAIN r.arguments
           x == r.arguments.extension
<1>1. ws.command = "CALL_EXTENSION" /\ ws.headers = r.arguments /\ bt.command = "CALL_EXTENSION"
  BY WsFrameFields, BtFrameIs
<1>2. "command" \in given /\ ("extension" \in given => x \notin Extensions \ OnBluetooth)
  BY DEF MayDiffer
<1>3. CASE "extension" \in given
  <2>1. /\ WsCallExtension(user, ws) = CallStatus(user, x, Extensions)
        /\ BtCallExtension(user, bt) = CallStatus(user, x, OnBluetooth)
    BY <1>2, <1>3, Calls
  <2>2. x \in Extensions <=> x \in OnBluetooth
    BY <1>2, <1>3, SessionRequestAssumption
  <2> HIDE DEF ws, bt, x
  <2>3. CallStatus(user, x, Extensions) = CallStatus(user, x, OnBluetooth)
    BY <2>2 DEF CallStatus
  <2>4. WebSocketReply(level, user, ws) = WsCallExtension(user, ws)
    BY <1>1 DEF WebSocketReply
  <2>5. BluetoothReply(level, user, bt) = BtCallExtension(user, bt)
    BY <1>1 DEF BluetoothReply
  <2>6. QED
    BY <2>1, <2>3, <2>4, <2>5 DEF ws, bt
<1>4. CASE "extension" \notin given
  <2> DEFINE parameters == bt.parameters
             places == <<"extension", "command">>
  <2>1. Places(r) = places
    BY <1>2 DEF Places, Order
  <2>2. \A i \in 1..Len(places) : parameters[i] = ParameterOf(r, places[i])
    BY <2>1, Parameters
  <2>3. Len(places) = 2 /\ places[1] = "extension" /\ 1 \in 1..2
    OBVIOUS
  <2> HIDE DEF places
  <2>4. parameters[1] = ParameterOf(r, "extension")
    BY <2>2, <2>3
  <2>5. ~ \E t \in {"String"} : CanConvert(parameters[1], t)
    BY <1>4, <2>4, Fits
  <2>6. DOMAIN Id = {1} /\ Id[1] = {"String"}
    BY DEF Id
  <2>7. ~ValidParameters(bt, Id, TRUE)
    BY <2>5, <2>6 DEF ValidParameters
  <2>8. ~Has(ws, "extension")
    BY <1>1, <1>4 DEF Has
  <2> HIDE DEF ws, bt, x, parameters
  <2>9. WsCallExtension(user, ws) = InvalidFrame /\ BtCallExtension(user, bt) = InvalidFrame
    BY <2>7, <2>8 DEF WsCallExtension, BtCallExtension
  <2>10. WebSocketReply(level, user, ws) = WsCallExtension(user, ws)
    BY <1>1 DEF WebSocketReply
  <2>11. BluetoothReply(level, user, bt) = BtCallExtension(user, bt)
    BY <1>1 DEF BluetoothReply
  <2>12. QED
    BY <2>9, <2>10, <2>11 DEF ws, bt
<1>5. QED
  BY <1>3, <1>4

\* In every state, for every session and every request whose forms the two
\* protocols do not treat differently (MayDiffer names those), the WebSocket
\* and the Bluetooth handler answer with the same outcome (TransportsAgree).
THEOREM TransportsAlwaysAgree == SessionsSpec => []TransportsAgree
<1>1. TransportsAgree
  <2>1. SUFFICES ASSUME NEW level, NEW user, NEW r \in Requests, ~MayDiffer(r)
                 PROVE  AnsweredAlike(level, user, r)
    BY Zenon DEF TransportsAgree
  <2>2. ~Placeless(r)
    BY <2>1, Zenon DEF MayDiffer
  <2>3. r.command \in Asked
    BY RequestsAre
  <2>4. CASE r.command = "DESCRIBE"
    BY <2>2, <2>4, SameDescription DEF AnsweredAlike
  <2>5. CASE r.command = "FIND_PROPERTIES"
    BY <2>2, <2>5, SameSearch DEF AnsweredAlike
  <2>6. CASE r.command \in {"READ_PROPERTY", "SUBSCRIBE_PROPERTY", "UNSUBSCRIBE_PROPERTY"}
    BY <2>6, SameForOneId DEF AnsweredAlike
  <2>7. CASE r.command = "ENUMERATE"
    BY <2>7, SameEnumeration DEF AnsweredAlike
  <2>8. CASE r.command = "WRITE_PROPERTY"
    BY <2>1, <2>8, SameWrite DEF AnsweredAlike
  <2>9. CASE r.command = "READ_MESSAGES"
    BY <2>1, <2>9, SameMessages DEF AnsweredAlike
  <2>10. CASE r.command = "READ_DATALOG"
    BY <2>1, <2>10, SameDatalog DEF AnsweredAlike
  <2>11. CASE r.command = "CALL_EXTENSION"
    BY <2>1, <2>11, SameCall DEF AnsweredAlike
  <2>12. QED
    BY <2>3, <2>4, <2>5, <2>6, <2>7, <2>8, <2>9, <2>10, <2>11 DEF Asked
<1>2. QED
  BY <1>1, PTL

\* What a WebSocket session answers to a frame with one id in its headers.
LEMMA OneIdFrames ==
  ASSUME NEW level, NEW id
  PROVE  /\ AnswerTo(level, "SUBSCRIBE_PROPERTY", id) = WsSubscribeEntry(level, id)
         /\ AnswerTo(level, "UNSUBSCRIBE_PROPERTY", id) = WsUnsubscribeEntry(id)
         /\ AnswerTo(level, "READ_PROPERTY", id) = CASE Hidden(level, id) -> Reply("NoProperty")
                                                    [] ~Hidden(level, id) /\ ~PropertyOf(id).readable -> Reply("Error")
                                                    [] OTHER -> Queued("read", <<id>>)
         /\ AnswerTo(level, "WRITE_PROPERTY", id) = CASE Hidden(level, id) -> Reply("NoProperty")
                                                     [] ~Hidden(level, id) /\ ~PropertyOf(id).writeable -> Reply("Error")
                                                     [] OTHER -> QueuedWrite(id, DefaultWriteFlags, "empty text")
<1> DEFINE FrameOf(command) == [command |-> command, headers |-> [id |-> id], body |-> NoBody]
<1>1. ASSUME NEW command
      PROVE  /\ FrameOf(command).command = command /\ FrameOf(command).headers.id = id
             /\ ~HasBody(FrameOf(command)) /\ ValidHeaders(FrameOf(command), {"id"}, {})
             /\ ValidHeaders(FrameOf(command), {"id"}, {"value", "flags"})
             /\ ~Has(FrameOf(command), "flags") /\ ~Has(FrameOf(command), "value")
             /\ AnswerTo(level, command, id) = WebSocketReply(level, Nobody, FrameOf(command))
  BY DEF HasBody, ValidHeaders, Has, AnswerTo
<1> HIDE DEF FrameOf
<1>2. AnswerTo(level, "SUBSCRIBE_PROPERTY", id) = WsSubscribeEntry(level, id)
  <2> DEFINE frame == FrameOf("SUBSCRIBE_PROPERTY")
  <2> HIDE DEF frame
  <2>1. WebSocketReply(level, Nobody, frame) = WsSubscribeProperty(level, frame)
    BY <1>1 DEF WebSocketReply, frame
  <2>2. WsSubscribeProperty(level, frame) = WsSubscribeEntry(level, id)
    BY <1>1 DEF WsSubscribeProperty, WsSubscribeId, WsSubscribeEntry, frame
  <2>3. QED
    BY <1>1, <2>1, <2>2 DEF frame
<1>3. AnswerTo(level, "UNSUBSCRIBE_PROPERTY", id) = WsUnsubscribeEntry(id)
  <2> DEFINE frame == FrameOf("UNSUBSCRIBE_PROPERTY")
  <2> HIDE DEF frame
  <2>1. WebSocketReply(level, Nobody, frame) = WsUnsubscribeProperty(frame)
    BY <1>1 DEF WebSocketReply, frame
  <2>2. WsUnsubscribeProperty(frame) = WsUnsubscribeEntry(id)
    BY <1>1 DEF WsUnsubscribeProperty, WsUnsubscribeId, WsUnsubscribeEntry, frame
  <2>3. QED
    BY <1>1, <2>1, <2>2 DEF frame
<1>4. AnswerTo(level, "READ_PROPERTY", id) = CASE Hidden(level, id) -> Reply("NoProperty")
                                               [] ~Hidden(level, id) /\ ~PropertyOf(id).readable -> Reply("Error")
                                               [] OTHER -> Queued("read", <<id>>)
  <2> DEFINE frame == FrameOf("READ_PROPERTY")
  <2> HIDE DEF frame
  <2>1. WebSocketReply(level, Nobody, frame) = WsReadProperty(level, frame)
    BY <1>1 DEF WebSocketReply, frame
  <2>2. QED
    BY <1>1, <2>1 DEF WsReadProperty, frame
<1>5. AnswerTo(level, "WRITE_PROPERTY", id) = CASE Hidden(level, id) -> Reply("NoProperty")
                                                [] ~Hidden(level, id) /\ ~PropertyOf(id).writeable -> Reply("Error")
                                                [] OTHER -> QueuedWrite(id, DefaultWriteFlags, "empty text")
  <2> DEFINE frame == FrameOf("WRITE_PROPERTY")
  <2> HIDE DEF frame
  <2>1. WebSocketReply(level, Nobody, frame) = WsWriteProperty(level, frame)
    BY <1>1 DEF WebSocketReply, frame
  <2>2. QED
    BY <1>1, <2>1 DEF WsWriteProperty, frame
<1>6. QED
  BY <1>2, <1>3, <1>4, <1>5

\* A frame with a batch: an array, no headers.
LEMMA BatchFrame ==
  ASSUME NEW command, NEW ids \in Batches
  PROVE  LET frame == [command |-> command, headers |-> <<>>, body |-> ids]
         IN  frame.command = command /\ frame.body = ids /\ IsArray(frame.body) /\ ValidHeaders(frame, {}, {})
<1> DEFINE frame == [command |-> command, headers |-> <<>>, body |-> ids]
<1>1. frame.command = command /\ frame.body = ids /\ frame.headers = <<>>
  OBVIOUS
<1>2. DOMAIN <<>> = {}
  OBVIOUS
<1> HIDE DEF frame
<1>3. ValidHeaders(frame, {}, {})
  BY <1>1, <1>2 DEF ValidHeaders
<1>4. IsArray(frame.body)
  BY <1>1, BatchAssumption DEF IsArray
<1>5. QED
  BY <1>1, <1>3, <1>4 DEF frame

\* In every state and for every level and batch, a batch of subscriptions
\* answers each id as the request for the one id does and has the effects of
\* these together, and a batch of properties that could be read one by one is
\* read as a whole (BatchAsSingle): siwebsocketprotocolv1.cpp has a handler for
\* each.  That a batch is read only then is not so, see ReadsWithinLevel.
THEOREM BatchAnswersAsSingle == SessionsSpec => []BatchAsSingle
<1>1. SessionsInv => BatchAsSingle
  <2>1. SUFFICES ASSUME SessionsInv, NEW level, NEW ids \in Batches
                 PROVE  /\ \A command \in DOMAIN SingleOf : SubscribesAsSingle(level, command, ids)
                        /\ ReadsAsSingle(level, ids)
    BY Zenon DEF BatchAsSingle
  <2>2. \A command :
          LET frame == [command |-> command, headers |-> <<>>, body |-> ids]
          IN  frame.command = command /\ frame.body = ids /\ IsArray(frame.body) /\ ValidHeaders(frame, {}, {})
    BY BatchFrame
  <2>3. DOMAIN SingleOf = {"SUBSCRIBE_PROPERTIES", "UNSUBSCRIBE_PROPERTIES"}
    BY DEF SingleOf
  <2>4. SingleOf["SUBSCRIBE_PROPERTIES"] = "SUBSCRIBE_PROPERTY" /\ SingleOf["UNSUBSCRIBE_PROPERTIES"] = "UNSUBSCRIBE_PROPERTY"
    BY DEF SingleOf
  <2>5. AnswerToBatch(level, "SUBSCRIBE_PROPERTIES", ids) = Batch([i \in DOMAIN ids |-> WsSubscribeEntry(level, ids[i])])
    <3> DEFINE frame == [command |-> "SUBSCRIBE_PROPERTIES", headers |-> <<>>, body |-> ids]
    <3>1. frame.command = "SUBSCRIBE_PROPERTIES" /\ frame.body = ids /\ IsArray(frame.body) /\ ValidHeaders(frame, {}, {})
      BY <2>2
    <3> HIDE DEF frame
    <3>2. WebSocketReply(level, Nobody, frame) = WsSubscribeProperties(level, frame)
      BY <3>1 DEF WebSocketReply
    <3>3. WsSubscribeProperties(level, frame) = Batch([i \in DOMAIN ids |-> WsSubscribeEntry(level, ids[i])])
      BY <3>1 DEF WsSubscribeProperties
    <3>4. QED
      BY <3>2, <3>3 DEF AnswerToBatch, frame
  <2>6. AnswerToBatch(level, "UNSUBSCRIBE_PROPERTIES", ids) = Batch([i \in DOMAIN ids |-> WsUnsubscribeEntry(ids[i])])
    <3> DEFINE frame == [command |-> "UNSUBSCRIBE_PROPERTIES", headers |-> <<>>, body |-> ids]
    <3>1. frame.command = "UNSUBSCRIBE_PROPERTIES" /\ frame.body = ids /\ IsArray(frame.body) /\ ValidHeaders(frame, {}, {})
      BY <2>2
    <3> HIDE DEF frame
    <3>2. WebSocketReply(level, Nobody, frame) = WsUnsubscribeProperties(frame)
      BY <3>1 DEF WebSocketReply
    <3>3. WsUnsubscribeProperties(frame) = Batch([i \in DOMAIN ids |-> WsUnsubscribeEntry(ids[i])])
      BY <3>1 DEF WsUnsubscribeProperties
    <3>4. QED
      BY <3>2, <3>3 DEF AnswerToBatch, frame
  <2>7. LET batch == AnswerToBatch(level, "SUBSCRIBE_PROPERTIES", ids)
             Single(i) == AnswerTo(level, "SUBSCRIBE_PROPERTY", ids[i])
         IN  /\ batch.each = [i \in DOMAIN ids |-> Single(i).status]
             /\ batch.add = UNION {Single(i).add : i \in DOMAIN ids}
             /\ batch.remove = UNION {Single(i).remove : i \in DOMAIN ids}
    <3> DEFINE batch == AnswerToBatch(level, "SUBSCRIBE_PROPERTIES", ids)
               Single(i) == AnswerTo(level, "SUBSCRIBE_PROPERTY", ids[i])
               replies == [i \in DOMAIN ids |-> WsSubscribeEntry(level, ids[i])]
    <3>1. DOMAIN replies = DOMAIN ids /\ \A i \in DOMAIN ids : replies[i] = Single(i)
      BY OneIdFrames
    <3>2. batch = Batch(replies)
      BY <2>5
    <3> HIDE DEF batch, replies, Single
    <3>3. /\ batch.each = [i \in DOMAIN ids |-> replies[i].status]
          /\ batch.add = UNION {replies[i].add : i \in DOMAIN ids}
          /\ batch.remove = UNION {replies[i].remove : i \in DOMAIN ids}
      BY <3>1, <3>2, BatchIs
    <3>4. /\ batch.each = [i \in DOMAIN ids |-> Single(i).status]
          /\ batch.add = UNION {Single(i).add : i \in DOMAIN ids}
          /\ batch.remove = UNION {Single(i).remove : i \in DOMAIN ids}
      BY <3>1, <3>3
    <3>5. QED
      BY <3>4 DEF batch, Single
  <2>8. LET batch == AnswerToBatch(level, "UNSUBSCRIBE_PROPERTIES", ids)
             Single(i) == AnswerTo(level, "UNSUBSCRIBE_PROPERTY", ids[i])
         IN  /\ batch.each = [i \in DOMAIN ids |-> Single(i).status]
             /\ batch.add = UNION {Single(i).add : i \in DOMAIN ids}
             /\ batch.remove = UNION {Single(i).remove : i \in DOMAIN ids}
    <3> DEFINE batch == AnswerToBatch(level, "UNSUBSCRIBE_PROPERTIES", ids)
               Single(i) == AnswerTo(level, "UNSUBSCRIBE_PROPERTY", ids[i])
               replies == [i \in DOMAIN ids |-> WsUnsubscribeEntry(ids[i])]
    <3>1. DOMAIN replies = DOMAIN ids /\ \A i \in DOMAIN ids : replies[i] = Single(i)
      BY OneIdFrames
    <3>2. batch = Batch(replies)
      BY <2>6
    <3> HIDE DEF batch, replies, Single
    <3>3. /\ batch.each = [i \in DOMAIN ids |-> replies[i].status]
          /\ batch.add = UNION {replies[i].add : i \in DOMAIN ids}
          /\ batch.remove = UNION {replies[i].remove : i \in DOMAIN ids}
      BY <3>1, <3>2, BatchIs
    <3>4. /\ batch.each = [i \in DOMAIN ids |-> Single(i).status]
          /\ batch.add = UNION {Single(i).add : i \in DOMAIN ids}
          /\ batch.remove = UNION {Single(i).remove : i \in DOMAIN ids}
      BY <3>1, <3>3
    <3>5. QED
      BY <3>4 DEF batch, Single
  <2>9. ASSUME ids # <<>>,
               \A i \in DOMAIN ids : AnswerTo(level, "READ_PROPERTY", ids[i]).operation = <<"read", <<ids[i]>>>>
        PROVE  AnswerToBatch(level, "READ_PROPERTIES", ids).operation = <<"readBatch", ids>>
    <3> DEFINE frame == [command |-> "READ_PROPERTIES", headers |-> <<>>, body |-> ids]
    <3>1. frame.command = "READ_PROPERTIES" /\ frame.body = ids /\ IsArray(frame.body) /\ ValidHeaders(frame, {}, {})
      BY <2>2
    <3>2. ASSUME NEW i \in DOMAIN ids
          PROVE  IsValid(ids[i]) /\ ~IsWildcard(ids[i])
      <4> DEFINE id == ids[i]
      <4>1. Reply("NoProperty").operation # <<"read", <<id>>>> /\ Reply("Error").operation # <<"read", <<id>>>>
        BY DEF Reply
      <4>2. AnswerTo(level, "READ_PROPERTY", id).operation = <<"read", <<id>>>>
        BY <2>9
      <4> HIDE DEF id
      <4>3. ~Hidden(level, id)
        BY <4>1, <4>2, OneIdFrames
      <4>4. IsValid(id) /\ id[1] = Access /\ id[2] \in devices
        BY <4>3 DEF Hidden, Resolves
      <4>5. id[1] # Star /\ id[2] # Star
        BY <2>1, <4>4, SessionRequestAssumption DEF SessionsInv
      <4>6. QED
        BY <4>4, <4>5 DEF IsWildcard, id
    <3> HIDE DEF frame
    <3>3. WebSocketReply(level, Nobody, frame) = WsReadProperties(frame)
      BY <3>1 DEF WebSocketReply
    <3>4. WsReadProperties(frame) = Queued("readBatch", ids)
      BY <2>9, <3>1, <3>2 DEF WsReadProperties, IsArray
    <3>5. Queued("readBatch", ids).operation = <<"readBatch", ids>>
      BY DEF Queued, Reply
    <3>6. QED
      BY <3>3, <3>4, <3>5 DEF AnswerToBatch, frame
  <2>10. ASSUME NEW command \in DOMAIN SingleOf
         PROVE  SubscribesAsSingle(level, command, ids)
    <3>1. CASE command = "SUBSCRIBE_PROPERTIES"
      BY <2>4, <2>7, <3>1 DEF SubscribesAsSingle
    <3>2. CASE command = "UNSUBSCRIBE_PROPERTIES"
      BY <2>4, <2>8, <3>2 DEF SubscribesAsSingle
    <3>3. QED
      BY <2>3, <3>1, <3>2
  <2>11. QED
    BY <2>9, <2>10 DEF ReadsAsSingle
<1>2. QED
  BY <1>1, SessionsInductive, PTL

\* The ids of three parts, and what it means that they resolve.
LEMMA ThreeParts ==
  ASSUME devices \subseteq Devices
  PROVE  /\ \A a, d, n : /\ Len(<<a, d, n>>) = 3
                         /\ <<a, d, n>>[1] = a /\ <<a, d, n>>[2] = d /\ <<a, d, n>>[3] = n
         /\ \A id \in Ids : Len(id) = 3 => id = <<id[1], id[2], id[3]>>
         /\ \A d \in devices : \A n \in DOMAIN Table[d] :
              <<Access, d, n>> \in Ids /\ Resolves(<<Access, d, n>>) /\ n # Word
<1>1. \A a, d, n : /\ Len(<<a, d, n>>) = 3
                   /\ <<a, d, n>>[1] = a /\ <<a, d, n>>[2] = d /\ <<a, d, n>>[3] = n
  OBVIOUS
<1>2. ASSUME NEW id \in Ids, Len(id) = 3
      PROVE  id = <<id[1], id[2], id[3]>>
  <2>1. id \in Seq(Parts)
    BY IdAssumption
  <2>2. QED
    BY <1>2, <2>1
<1>3. ASSUME NEW d \in devices, NEW n \in DOMAIN Table[d]
      PROVE  <<Access, d, n>> \in Ids /\ Resolves(<<Access, d, n>>) /\ n # Word
  <2>1. n # Word /\ d \in Devices
    BY SessionRequestAssumption
  <2>2. <<Access, d, n>> \in Ids
    BY <2>1, IdAssumption
  <2> DEFINE id == <<Access, d, n>>
  <2>3. Len(id) = 3 /\ id[1] = Access /\ id[2] = d /\ id[3] = n
    BY <1>1
  <2> HIDE DEF id
  <2>4. Resolves(id)
    BY <2>1, <2>3 DEF Resolves, IsValid
  <2>5. QED
    BY <2>1, <2>2, <2>4 DEF id
<1>4. QED
  BY <1>1, <1>2, <1>3

\* A description of what a session may see: of a property, unless it is hidden.
LEMMA DescriptionOf ==
  ASSUME NEW level, NEW user, NEW id
  PROVE  LET flags == {"IncludePropertyInformation"}
             described == WebSocketReply(level, user,
               [command |-> "DESCRIBE", headers |-> [id |-> id, flags |-> flags], body |-> NoBody])
         IN  /\ described = WsDescribeId(level, id, flags)
             /\ Len(id) = 3 => (described.status = "Success" <=> ~Hidden(level, id))
<1> DEFINE flags == {"IncludePropertyInformation"}
           frame == [command |-> "DESCRIBE", headers |-> [id |-> id, flags |-> flags], body |-> NoBody]
<1>1. /\ frame.command = "DESCRIBE" /\ ~HasBody(frame)
      /\ Has(frame, "id") /\ Has(frame, "flags")
      /\ frame.headers.id = id /\ frame.headers.flags = flags
      /\ ValidHeaders(frame, {}, {"id", "flags"})
  BY DEF HasBody, Has, ValidHeaders
<1>2. flags \subseteq DescriptionFlags
  BY DEF DescriptionFlags
<1> HIDE DEF frame, flags
<1>3. WebSocketReply(level, user, frame) = WsDescribe(level, frame)
  BY <1>1 DEF WebSocketReply
<1>4. WsDescribe(level, frame) = WsDescribeId(level, id, flags)
  BY <1>1, <1>2 DEF WsDescribe
<1>5. ASSUME Len(id) = 3
      PROVE  WsDescribeId(level, id, flags).status = "Success" <=> ~Hidden(level, id)
  <2>1. WsDescribeId(level, id, flags) = IF Hidden(level, id) THEN Reply("NoProperty") ELSE Listing({id})
    BY <1>5 DEF WsDescribeId
  <2>2. Reply("NoProperty").status = "NoProperty" /\ Listing({id}).status = "Success"
    BY DEF Listing, Reply
  <2>3. QED
    BY <2>1, <2>2
<1>6. QED
  BY <1>3, <1>4, <1>5 DEF frame, flags

\* A property is described if and only if reading, writing and subscribing do
\* not take it for unknown.
LEMMA DescribedIsKnown ==
  ASSUME NEW level, NEW id, Len(id) = 3,
         NEW command \in {"READ_PROPERTY", "WRITE_PROPERTY", "SUBSCRIBE_PROPERTY"}
  PROVE  AnswerTo(level, command, id).status = "NoProperty" <=> Hidden(level, id)
<1>1. /\ \A status : Reply(status).status = status
      /\ Queued("read", <<id>>).status = "queued"
      /\ QueuedWrite(id, DefaultWriteFlags, "empty text").status = "queued"
      /\ Subscribe(id).status \in {"Success", "Error"}
  BY DEF Reply, Queued, QueuedWrite, Subscribe
<1>2. CASE command = "READ_PROPERTY"
  BY <1>1, <1>2, OneIdFrames
<1>3. CASE command = "WRITE_PROPERTY"
  BY <1>1, <1>3, OneIdFrames
<1>4. CASE command = "SUBSCRIBE_PROPERTY"
  BY <1>1, <1>4, OneIdFrames DEF WsSubscribeEntry
<1>5. QED
  BY <1>2, <1>3, <1>4

\* The description of a device lists what can be described of it.
LEMMA ListedIsDescribed ==
  ASSUME devices \subseteq Devices, NEW level \in Nat, NEW user, NEW d \in devices
  PROVE  LET Described(id) == WebSocketReply(level, user,
               [command |-> "DESCRIBE", headers |-> [id |-> id, flags |-> {"IncludePropertyInformation"}], body |-> NoBody])
         IN  Described(<<Access, d>>).listed
               = {id \in Ids : Len(id) = 3 /\ id[2] = d /\ Described(id).status = "Success"}
<1> DEFINE flags == {"IncludePropertyInformation"}
           FrameOf(id) == [command |-> "DESCRIBE", headers |-> [id |-> id, flags |-> flags], body |-> NoBody]
           Described(id) == WebSocketReply(level, user, FrameOf(id))
<1>1. ASSUME NEW id
      PROVE  /\ Described(id) = WsDescribeId(level, id, flags)
             /\ Len(id) = 3 => (Described(id).status = "Success" <=> ~Hidden(level, id))
  BY DescriptionOf
<1>2. WsDescribeId(level, <<Access, d>>, flags).listed
        = {<<Access, d, n>> : n \in {m \in DOMAIN Table[d] : Table[d][m].level <= level}}
  <2> DEFINE id == <<Access, d>>
  <2>1. Len(id) = 2 /\ id[1] = Access /\ id[2] = d
    OBVIOUS
  <2> HIDE DEF id
  <2>2. WsDescribeId(level, id, flags) = Listing(ListedInDevice(level, d, flags))
    BY <2>1 DEF WsDescribeId
  <2>3. \A ids : Listing(ids).listed = ids
    BY DEF Listing, Reply
  <2>4. ListedInDevice(level, d, flags)
          = {<<Access, d, n>> : n \in {m \in DOMAIN Table[d] : Table[d][m].level <= level}}
    BY DEF ListedInDevice
  <2>5. QED
    BY <2>2, <2>3, <2>4 DEF id
<1> HIDE DEF FrameOf, flags, Described
<1>3. ASSUME NEW id \in Ids, Len(id) = 3, id[2] = d, ~Hidden(level, id)
      PROVE  id \in {<<Access, d, n>> : n \in {m \in DOMAIN Table[d] : Table[d][m].level <= level}}
  <2>1. /\ id[1] = Access /\ id[3] \in DOMAIN Table[d]
        /\ ~(level < Table[d][id[3]].level)
    BY <1>3 DEF Hidden, Resolves, PropertyOf
  <2>2. Table[d][id[3]].level \in Nat
    BY <2>1, SessionRequestAssumption
  <2>3. Table[d][id[3]].level <= level
    BY <2>1, <2>2
  <2>4. id = <<Access, d, id[3]>>
    BY <1>3, <2>1, ThreeParts
  <2>5. QED
    BY <2>1, <2>3, <2>4
<1>4. ASSUME NEW n \in DOMAIN Table[d], Table[d][n].level <= level
      PROVE  <<Access, d, n>> \in {id \in Ids : Len(id) = 3 /\ id[2] = d /\ ~Hidden(level, id)}
  <2> DEFINE id == <<Access, d, n>>
  <2>1. id \in Ids /\ Resolves(id) /\ Len(id) = 3 /\ id[2] = d /\ id[3] = n
    BY ThreeParts
  <2>2. Table[d][n].level \in Nat
    BY SessionRequestAssumption
  <2>3. ~(level < Table[d][n].level)
    BY <1>4, <2>2
  <2> HIDE DEF id
  <2>4. ~Hidden(level, id)
    BY <2>1, <2>3 DEF Hidden, PropertyOf
  <2>5. QED
    BY <2>1, <2>4 DEF id
<1>5. {<<Access, d, n>> : n \in {m \in DOMAIN Table[d] : Table[d][m].level <= level}}
        = {id \in Ids : Len(id) = 3 /\ id[2] = d /\ ~Hidden(level, id)}
  BY <1>3, <1>4
<1>6. Described(<<Access, d>>).listed
        = {id \in Ids : Len(id) = 3 /\ id[2] = d /\ Described(id).status = "Success"}
  <2>1. Described(<<Access, d>>) = WsDescribeId(level, <<Access, d>>, flags)
    BY <1>1
  <2>2. \A id \in Ids : Len(id) = 3 => (Described(id).status = "Success" <=> ~Hidden(level, id))
    BY <1>1
  <2>3. {id \in Ids : Len(id) = 3 /\ id[2] = d /\ Described(id).status = "Success"}
          = {id \in Ids : Len(id) = 3 /\ id[2] = d /\ ~Hidden(level, id)}
    BY <2>2
  <2>4. QED
    BY <1>2, <1>5, <2>1, <2>3
<1>7. QED
  BY <1>6 DEF Described, FrameOf, flags

\* What is found for a property of all devices, the virtual ones or the others.
LEMMA FoundIs ==
  ASSUME devices \subseteq Devices, NEW n \in Numbers, NEW virtual \in BOOLEAN
  PROVE  FindProperties(<<Star, Star, n>>, virtual, FunctionNames)
           = {<<Access, d, n>> : d \in {x \in devices : (virtual <=> x \in Virtual) /\ n \in DOMAIN Table[x]}}
<1> DEFINE id == <<Star, Star, n>>
<1>1. Len(id) = 3 /\ id[1] = Star /\ id[2] = Star /\ id[3] = n
  OBVIOUS
<1>2. n # Word
  BY SessionRequestAssumption DEF Numbers
<1> HIDE DEF id
<1>3. IsWildcard(id)
  BY <1>1, <1>2 DEF IsWildcard, IsValid
<1>4. \A x \in devices : FunctionNames \cap Functions[x] # {}
  <2>1. \A x \in devices : Functions[x] \subseteq FunctionNames /\ Functions[x] # {}
    BY SessionRequestAssumption
  <2>2. QED
    BY <2>1
<1>5. FindProperties(id, virtual, FunctionNames)
        = {<<Access, d, n>> : d \in {x \in devices : (virtual <=> x \in Virtual) /\ n \in DOMAIN Table[x]}}
  <2>1. \A x \in devices :
          (/\ IsWildcard(id)
           /\ id[1] \in {Star, Access}
           /\ virtual = (x \in Virtual)
           /\ FunctionNames \cap Functions[x] # {}
           /\ id[2] \in {Star, x}
           /\ id[3] \in DOMAIN Table[x])
          <=> (virtual <=> x \in Virtual) /\ n \in DOMAIN Table[x]
    BY <1>1, <1>3, <1>4
  <2>2. QED
    BY <1>1, <2>1 DEF FindProperties
<1>6. QED
  BY <1>5 DEF id

\* A call of an extension with a command is a request.
LEMMA CallsAreRequests ==
  ASSUME NEW x \in Extensions
  PROVE  [command |-> "CALL_EXTENSION", arguments |-> [extension |-> x, command |-> Unknown]] \in Requests
<1> DEFINE form == [extension |-> x, command |-> Unknown, extra |-> Absent]
<1>1. form \in Forms["CALL_EXTENSION"] /\ "CALL_EXTENSION" \in DOMAIN Forms
  BY DEF Forms, Optional, Extra
<1>2. Given(form) = [extension |-> x, command |-> Unknown]
  <2>1. {y \in DOMAIN form : form[y] # Absent} = {"extension", "command"}
    BY SessionAssumption
  <2>2. QED
    BY <2>1 DEF Given
<1>3. QED
  BY <1>1, <1>2 DEF Requests

\* In every state and for every session: the description of a device lists what
\* can be described one by one and is not unknown to reading, writing and
\* subscribing, what is found resolves, and the extensions that are announced
\* are those whose calls run (ShownAsAnswered): the descriptions of
\* sidevice.cpp, findProperties of sideviceaccessmanager.cpp and
\* availableExtensions against the handlers.
THEOREM ShowsWhatItAnswers == SessionsSpec => []ShownAsAnswered
<1>1. SessionsInv => ShownAsAnswered
  <2>1. SUFFICES ASSUME SessionsInv, NEW c \in DOMAIN sessions
                 PROVE  LET level == sessions[c].level
                            user == sessions[c].user
                            Described(id) == WebSocketReply(level, user,
                              [command |-> "DESCRIBE", headers |-> [id |-> id, flags |-> {"IncludePropertyInformation"}],
                               body |-> NoBody])
                            Found(n, virtual) == FindProperties(<<Star, Star, n>>, virtual, FunctionNames)
                        IN  /\ \A d \in devices :
                                 Described(<<Access, d>>).listed
                                   = {id \in Ids : Len(id) = 3 /\ id[2] = d /\ Described(id).status = "Success"}
                            /\ \A id \in Ids : \A command \in {"READ_PROPERTY", "WRITE_PROPERTY", "SUBSCRIBE_PROPERTY"} :
                                 Len(id) = 3 =>
                                   (Described(id).status = "Success" <=> AnswerTo(level, command, id).status # "NoProperty")
                            /\ \A n \in Numbers :
                                 /\ Found(n, FALSE) \cup Found(n, TRUE) = {id \in Ids : Resolves(id) /\ id[3] = n}
                                 /\ Found(n, FALSE) \cap Found(n, TRUE) = {}
                            /\ \A x \in Extensions :
                                 LET call == [command |-> "CALL_EXTENSION",
                                              arguments |-> [extension |-> x, command |-> Unknown]]
                                 IN  /\ x \in WebSocketExtensions(user)
                                          <=> WsCallExtension(user, WebSocketFrame(call)).status = "run"
                                     /\ x \in BluetoothExtensions(user)
                                          <=> BtCallExtension(user, BluetoothFrame(call)).status = "run"
    BY Zenon DEF ShownAsAnswered
  <2> DEFINE level == sessions[c].level
             user == sessions[c].user
             Found(n, virtual) == FindProperties(<<Star, Star, n>>, virtual, FunctionNames)
  <2>2. level \in Nat /\ devices \subseteq Devices
    BY <2>1 DEF SessionsInv
  <2>3. \A n \in Numbers : \A virtual \in BOOLEAN :
          Found(n, virtual)
            = {<<Access, d, n>> : d \in {x \in devices : (virtual <=> x \in Virtual) /\ n \in DOMAIN Table[x]}}
    BY <2>2, FoundIs
  <2>4. ASSUME NEW n \in Numbers
        PROVE  /\ Found(n, FALSE) \cup Found(n, TRUE) = {id \in Ids : Resolves(id) /\ id[3] = n}
               /\ Found(n, FALSE) \cap Found(n, TRUE) = {}
    <3>1. Found(n, FALSE) = {<<Access, d, n>> : d \in {x \in devices : x \notin Virtual /\ n \in DOMAIN Table[x]}}
      BY <2>3
    <3>2. Found(n, TRUE) = {<<Access, d, n>> : d \in {x \in devices : x \in Virtual /\ n \in DOMAIN Table[x]}}
      BY <2>3
    <3> HIDE DEF Found
    <3>3. \A d \in devices : n \in DOMAIN Table[d] =>
            <<Access, d, n>> \in Ids /\ Resolves(<<Access, d, n>>) /\ <<Access, d, n>>[3] = n
      BY <2>2, ThreeParts
    <3>4. \A id \in Ids : Resolves(id) /\ id[3] = n =>
            id[2] \in devices /\ n \in DOMAIN Table[id[2]] /\ id = <<Access, id[2], n>>
      <4>1. TAKE id \in Ids
      <4>2. HAVE Resolves(id) /\ id[3] = n
      <4>3. Len(id) = 3 /\ id[1] = Access /\ id[2] \in devices /\ n \in DOMAIN Table[id[2]]
        BY <4>2 DEF Resolves, IsValid
      <4>4. id = <<id[1], id[2], id[3]>>
        BY <2>2, <4>3, ThreeParts
      <4>5. QED
        BY <4>2, <4>3, <4>4
    <3>5. Found(n, FALSE) \cup Found(n, TRUE) = {<<Access, d, n>> : d \in {x \in devices : n \in DOMAIN Table[x]}}
      BY <3>1, <3>2
    <3>6. {<<Access, d, n>> : d \in {x \in devices : n \in DOMAIN Table[x]}} = {id \in Ids : Resolves(id) /\ id[3] = n}
      BY <3>3, <3>4
    <3>7. Found(n, FALSE) \cap Found(n, TRUE) = {}
      BY <3>1, <3>2, ZenonT(30)
    <3>8. QED
      BY <3>5, <3>6, <3>7
  <2>5. ASSUME NEW x \in Extensions
        PROVE  LET call == [command |-> "CALL_EXTENSION", arguments |-> [extension |-> x, command |-> Unknown]]
               IN  /\ x \in WebSocketExtensions(user)
                        <=> WsCallExtension(user, WebSocketFrame(call)).status = "run"
                   /\ x \in BluetoothExtensions(user)
                        <=> BtCallExtension(user, BluetoothFrame(call)).status = "run"
    <3> DEFINE call == [command |-> "CALL_EXTENSION", arguments |-> [extension |-> x, command |-> Unknown]]
    <3>1. call \in Requests
      BY CallsAreRequests
    <3>2. /\ call.command = "CALL_EXTENSION" /\ call.arguments.extension = x
          /\ {"extension", "command"} \subseteq DOMAIN call.arguments
      OBVIOUS
    <3> HIDE DEF call
    <3>3. /\ WsCallExtension(user, WebSocketFrame(call)) = CallStatus(user, x, Extensions)
          /\ BtCallExtension(user, BluetoothFrame(call)) = CallStatus(user, x, OnBluetooth)
      BY <3>1, <3>2, Calls
    <3>4. \A status : Reply(status).status = status
      BY DEF Reply
    <3>5. \A supporting : CallStatus(user, x, supporting).status = "run" <=> x \in supporting /\ AllowedForUser(user, x)
      BY <3>4 DEF CallStatus
    <3>6. QED
      BY <3>3, <3>5 DEF call, WebSocketExtensions, BluetoothExtensions
  <2>6. \A d \in devices :
          LET Described(id) == WebSocketReply(level, user,
                [command |-> "DESCRIBE", headers |-> [id |-> id, flags |-> {"IncludePropertyInformation"}],
                 body |-> NoBody])
          IN  Described(<<Access, d>>).listed
                = {id \in Ids : Len(id) = 3 /\ id[2] = d /\ Described(id).status = "Success"}
    BY <2>2, ListedIsDescribed
  <2>7. ASSUME NEW id \in Ids, NEW command \in {"READ_PROPERTY", "WRITE_PROPERTY", "SUBSCRIBE_PROPERTY"}, Len(id) = 3
        PROVE  LET described == WebSocketReply(level, user,
                     [command |-> "DESCRIBE", headers |-> [id |-> id, flags |-> {"IncludePropertyInformation"}],
                      body |-> NoBody])
               IN  described.status = "Success" <=> AnswerTo(level, command, id).status # "NoProperty"
    <3>1. AnswerTo(level, command, id).status = "NoProperty" <=> Hidden(level, id)
      BY <2>7, DescribedIsKnown
    <3>2. QED
      BY <2>7, <3>1, DescriptionOf
  <2> HIDE DEF level, user
  <2>8. QED
    BY <2>4, <2>5, <2>6, <2>7, Zenon DEF level, user
<1>2. QED
  BY <1>1, SessionsInductive, PTL

=============================================================================
