--------------------------- MODULE DeviceEnumeration ---------------------------
(***************************************************************************)
(* The enumeration of a device access by the Xcom-485i driver.  The device *)
(* access takes a snapshot of its device objects; the driver compares it   *)
(* with the bus, either from the device counts of the bus adapter (fast)   *)
(* or by asking address after address (slow); then the device access       *)
(* deletes the objects that have gone and adopts the new ones.             *)
(*                                                                         *)
(* Each question to the bus is a wait in which the driver dispatches       *)
(* events.  The bus may change meanwhile, and, if the operation queue has  *)
(* a surplus call of executeNext_ posted (see OperationQueue), another     *)
(* enumeration runs to its end inside the wait.                            *)
(*                                                                         *)
(* Addresses are counted from 1 within their category (11 is 1 for an      *)
(* Xtender), 0 is the category's virtual multicast device.  The model of a *)
(* device that answers is abstracted away except for the battery manager.  *)
(***************************************************************************)
EXTENDS Integers, Sequences, FiniteSets

CONSTANTS
  Known,        \* per category, addresses the enumerator's constructor knows
  CountLimit,   \* per category, largest device count fast enumeration takes
  BusCount,     \* per category, bound of the model: devices on the bus
  SlowChoices,  \* what the device options may say of forceSlowEnumeration_
  Faulty,       \* TRUE: a request on the bus may fail
  MaxNesting    \* bound of the model: 1 for no nested enumerations

Categories == <<"xtender", "varioTrack", "varioString">>
Kinds == {Categories[i] : i \in DOMAIN Categories}
BatteryModels == {"BSP", "XComCAN_BMS"}

ASSUME EnumerationAssumption ==
  /\ Known \in [Kinds -> Nat]
  /\ CountLimit \in [Kinds -> Nat]
  /\ BusCount \in [Kinds -> Nat]
  /\ SlowChoices \subseteq BOOLEAN
  /\ Faulty \in BOOLEAN
  /\ MaxNesting \in Nat \ {0}

VARIABLES
  forceSlow,  \* forceSlowEnumeration_, set once by the constructor
  children,   \* the device objects of the device access
  bus,        \* what is on the bus
  stack       \* enumerations being executed, innermost first

vars == <<forceSlow, children, bus, stack>>

Device == [kind : Kinds, index : Nat, model : {"valid"}, serial : Nat] \cup
          [kind : {"battery"}, index : {1}, model : BatteryModels, serial : Nat]

Phases == {"counts", "delta", "add", "drop", "grow", "virtual", "battery", "end"}

Bus == [count : [Kinds -> Nat], battery : BatteryModels \cup {"none"}]

\* existing and devices are the snapshot and the driver's copy of it, counts
\* the adapter's reply; steady says that since the enumeration began the bus
\* has not changed, no request has failed and nothing was nested.
Frame == [existing : SUBSET Device, devices : SUBSET Device, phase : Phases,
          position : 1..4, fast : BOOLEAN, counts : [Kinds -> Nat],
          batteries : 0..1, todo : Nat, steady : BOOLEAN]

-----------------------------------------------------------------------------

Current == Head(stack)

\* The category being enumerated.
Kind == Categories[Current.position]

\* xtenders, varioTracks, varioStrings: the devices the enumerator works on,
\* without the objects of the snapshot its constructor does not recognize.
Listed(frame, kind) ==
  {d \in frame.devices : /\ d.kind = kind
                         /\ d.index > 0
                         /\ d \in frame.existing => d.index <= Known[kind]}

Present == Listed(Current, Kind)
NextIndex == Cardinality(Present) + 1

\* The ends of the sorted lists.
LastOf(devices) == {d \in devices : \A e \in devices : e.index <= d.index}

\* Objects some set still names: a new object is none of them.
Held == children \cup UNION {stack[i].existing \cup stack[i].devices : i \in DOMAIN stack}

NewDevice(kind, index, model) ==
  LET Named(n) == [kind |-> kind, index |-> index, model |-> model, serial |-> n]
  IN  Named(CHOOSE n \in 0..Cardinality(Held) :
              /\ Named(n) \notin Held
              /\ \A m \in 0..n-1 : Named(m) \in Held)

WaitsForBus(frame) ==
  \/ frame.phase \in {"counts", "add"}
  \/ frame.phase = "drop" /\ Listed(frame, Categories[frame.position]) # {}
  \/ /\ frame.phase = "grow"
     /\ Cardinality(Listed(frame, Categories[frame.position])) < Known[Categories[frame.position]]
  \/ frame.phase = "battery" /\ ~(frame.fast /\ frame.batteries = 0)

\* Events are dispatched at the top level and in the waits of the driver.
MayDispatch == stack # <<>> => WaitsForBus(Current)

\* The requests of the model registers that the innermost enumeration may see
\* answered: TRUE for a valid model.
Answers(index) == {index <= bus.count[Kind]} \cup (IF Faulty THEN {FALSE} ELSE {})

\* The innermost enumeration goes on as frame; a failed request unsettles it.
Continue(frame) == stack' = <<frame>> \o Tail(stack)
Settled(answer, index) == Current.steady /\ (answer <=> index <= bus.count[Kind])

Init ==
  /\ forceSlow \in SlowChoices
  /\ children = {}
  /\ bus \in [count : {[k \in Kinds |-> 0]}, battery : {"none"}]
  /\ stack = <<>>

\* SIDeviceAccess::enumerateDevices up to the driver's first request.
BeginEnumeration ==
  /\ MayDispatch
  /\ Len(stack) < MaxNesting
  /\ stack' = <<[existing |-> children, devices |-> children,
                 phase |-> IF forceSlow THEN "drop" ELSE "counts",
                 position |-> 1, fast |-> FALSE, counts |-> [k \in Kinds |-> 0],
                 batteries |-> 0, todo |-> 0, steady |-> TRUE]>>
              \o [i \in DOMAIN stack |-> [stack[i] EXCEPT !.steady = FALSE]]
  /\ UNCHANGED <<forceSlow, children, bus>>

\* Mutant: counts out of range are taken as well.
ReadCountsAll ==
  /\ stack # <<>> /\ Current.phase = "counts"
  /\ Continue([Current EXCEPT !.phase = "delta", !.fast = TRUE, !.counts = bus.count,
                              !.batteries = IF bus.battery = "none" THEN 0 ELSE 1])
  /\ UNCHANGED <<forceSlow, children, bus>>

\* The adapter's device counts are read and in range: fast enumeration.
ReadCounts ==
  /\ stack # <<>> /\ Current.phase = "counts"
  /\ \A k \in Kinds : bus.count[k] <= CountLimit[k]
  /\ Continue([Current EXCEPT !.phase = "delta", !.fast = TRUE, !.counts = bus.count,
                              !.batteries = IF bus.battery = "none" THEN 0 ELSE 1])
  /\ UNCHANGED <<forceSlow, children, bus>>

\* They are not: the slow enumeration is the fallback.
FallBack ==
  /\ stack # <<>> /\ Current.phase = "counts"
  /\ Faulty \/ \E k \in Kinds : bus.count[k] > CountLimit[k]
  /\ Continue([Current EXCEPT !.phase = "drop"])
  /\ UNCHANGED <<forceSlow, children, bus>>

\* Mutant: the devices with the lowest addresses are removed.
CompareCountTakesFirst ==
  /\ stack # <<>> /\ Current.phase = "delta"
  /\ LET delta == Current.counts[Kind] - Cardinality(Present)
     IN  IF delta > 0
         THEN Continue([Current EXCEPT !.phase = "add", !.todo = delta])
         ELSE \E kept \in SUBSET Present :
                /\ Cardinality(kept) = Current.counts[Kind]
                /\ \A d \in kept, gone \in Present \ kept : d.index >= gone.index
                /\ Continue([Current EXCEPT !.phase = "virtual",
                                            !.devices = @ \ (Present \ kept)])
  /\ UNCHANGED <<forceSlow, children, bus>>

\* Fast enumeration: devices to add, or the last ones of the list to remove.
CompareCount ==
  /\ stack # <<>> /\ Current.phase = "delta"
  /\ LET delta == Current.counts[Kind] - Cardinality(Present)
     IN  IF delta > 0
         THEN Continue([Current EXCEPT !.phase = "add", !.todo = delta])
         ELSE \E kept \in SUBSET Present :
                /\ Cardinality(kept) = Current.counts[Kind]
                /\ \A d \in kept, gone \in Present \ kept : d.index <= gone.index
                /\ Continue([Current EXCEPT !.phase = "virtual",
                                            !.devices = @ \ (Present \ kept)])
  /\ UNCHANGED <<forceSlow, children, bus>>

\* One round of the adding loop: a device without a valid model is ignored.
FastAdd ==
  /\ stack # <<>> /\ Current.phase = "add"
  /\ \E valid \in Answers(NextIndex) :
       Continue([Current EXCEPT
         !.devices = IF valid THEN @ \cup {NewDevice(Kind, NextIndex, "valid")} ELSE @,
         !.todo = @ - 1,
         !.phase = IF Current.todo = 1 THEN "virtual" ELSE "add",
         !.steady = Settled(valid, NextIndex)])
  /\ UNCHANGED <<forceSlow, children, bus>>

\* Slow enumeration: the last device is removed while it does not respond.
SlowDrop ==
  /\ stack # <<>> /\ Current.phase = "drop"
  /\ \/ /\ Present = {}
        /\ Continue([Current EXCEPT !.phase = "grow"])
     \/ \E last \in LastOf(Present) : \E valid \in Answers(last.index) :
          Continue([Current EXCEPT
            !.phase = IF valid THEN "grow" ELSE "drop",
            !.devices = IF valid THEN @ ELSE @ \ {last},
            !.steady = Settled(valid, last.index)])
  /\ UNCHANGED <<forceSlow, children, bus>>

\* Devices are added as long as the next address responds.
SlowGrow ==
  /\ stack # <<>> /\ Current.phase = "grow"
  /\ \/ /\ NextIndex > Known[Kind]
        /\ Continue([Current EXCEPT !.phase = "virtual"])
     \/ /\ NextIndex <= Known[Kind]
        /\ \E valid \in Answers(NextIndex) :
             Continue([Current EXCEPT
               !.phase = IF valid THEN "grow" ELSE "virtual",
               !.devices = IF valid THEN @ \cup {NewDevice(Kind, NextIndex, "valid")} ELSE @,
               !.steady = Settled(valid, NextIndex)])
  /\ UNCHANGED <<forceSlow, children, bus>>

\* The category whose virtual device is updated after Kind: the fast
\* enumeration calls updateVirtualVarioTrack_ also after the VarioStrings.
UpdatedKind == IF Current.fast /\ Kind = "varioString" THEN "varioTrack" ELSE Kind

Virtuals(devices, kind) == {d \in devices : d.kind = kind /\ d.index = 0}

\* Mutant: the virtual device is never removed.
UpdateVirtualKeeps ==
  /\ stack # <<>> /\ Current.phase = "virtual"
  /\ LET reals == Listed(Current, UpdatedKind)
         virtuals == Virtuals(Current.devices, UpdatedKind)
     IN  Continue([Current EXCEPT
           !.devices = IF reals # {} /\ virtuals = {}
                       THEN @ \cup {NewDevice(UpdatedKind, 0, "valid")} ELSE @,
           !.position = @ + 1,
           !.phase = IF Current.position = Len(Categories) THEN "battery"
                     ELSE IF Current.fast THEN "delta" ELSE "drop",
           !.counts = [@ EXCEPT ![Kind] = 0], !.todo = 0])
  /\ UNCHANGED <<forceSlow, children, bus>>

\* updateVirtualXtender_ and its siblings: the virtual device exists while a
\* real one does.  The counts of a category are of no use any more.
UpdateVirtual ==
  /\ stack # <<>> /\ Current.phase = "virtual"
  /\ LET reals == Listed(Current, UpdatedKind)
         virtuals == Virtuals(Current.devices, UpdatedKind)
         After(devices) ==
           [Current EXCEPT
             !.devices = devices,
             !.position = @ + 1,
             !.phase = IF Current.position = Len(Categories) THEN "battery"
                       ELSE IF Current.fast THEN "delta" ELSE "drop",
             !.counts = [@ EXCEPT ![Kind] = 0], !.todo = 0]
     IN  \/ /\ reals = {}
            /\ \E gone \in virtuals : Continue(After(Current.devices \ {gone}))
         \/ /\ reals # {} /\ virtuals = {}
            /\ Continue(After(Current.devices \cup {NewDevice(UpdatedKind, 0, "valid")}))
         \/ /\ (reals = {}) <=> (virtuals = {})
            /\ Continue(After(Current.devices))
  /\ UNCHANGED <<forceSlow, children, bus>>

BatteryManagers(devices) == {d \in devices : d.kind = "battery"}

\* Fast enumeration with no battery manager counted.
NoBattery ==
  /\ stack # <<>> /\ Current.phase = "battery"
  /\ Current.fast /\ Current.batteries = 0
  /\ \E gone \in SUBSET BatteryManagers(Current.devices) :
       /\ Cardinality(gone) = IF BatteryManagers(Current.devices) = {} THEN 0 ELSE 1
       /\ Continue([Current EXCEPT !.phase = "end", !.devices = @ \ gone])
  /\ UNCHANGED <<forceSlow, children, bus>>

\* The battery manager's model is asked: it is removed if it does not respond
\* or has changed, and created if it responds and there is none (left).  The
\* model's states with several battery managers are those of nested runs, in
\* which the enumerator knows one of them.
ReadBattery ==
  /\ stack # <<>> /\ Current.phase = "battery"
  /\ ~(Current.fast /\ Current.batteries = 0)
  /\ \E model \in {bus.battery} \cup (IF Faulty THEN {"none"} ELSE {}) :
     \E manager \in SUBSET BatteryManagers(Current.devices) :
       LET stays == {d \in manager : d.model = model}
           added == IF model # "none" /\ stays = {} THEN {NewDevice("battery", 1, model)} ELSE {}
       IN  /\ Cardinality(manager) = IF BatteryManagers(Current.devices) = {} THEN 0 ELSE 1
           /\ Continue([Current EXCEPT
                !.phase = "end",
                !.devices = (@ \ (manager \ stays)) \cup added,
                !.steady = @ /\ model = bus.battery])
  /\ UNCHANGED <<forceSlow, children, bus>>

\* Objects that have gone are deleted, new ones become children.  A nested
\* enumeration may have deleted an object of the snapshot already.
EndEnumeration ==
  /\ stack # <<>> /\ Current.phase = "end"
  /\ children' = (children \ (Current.existing \ Current.devices))
                   \cup (Current.devices \ Current.existing)
  /\ stack' = Tail(stack)
  /\ UNCHANGED <<forceSlow, bus>>

\* The environment: devices are attached to or detached from the bus.
ChangeBus ==
  /\ MayDispatch
  /\ \/ \E k \in Kinds : \E n \in 0..BusCount[k] : bus' = [bus EXCEPT !.count[k] = n]
     \/ \E model \in BatteryModels \cup {"none"} : bus' = [bus EXCEPT !.battery = model]
  /\ bus' # bus
  /\ stack' = [i \in DOMAIN stack |-> [stack[i] EXCEPT !.steady = FALSE]]
  /\ UNCHANGED <<forceSlow, children>>

Next ==
  \/ BeginEnumeration
  \/ ReadCounts
  \/ FallBack
  \/ CompareCount
  \/ FastAdd
  \/ SlowDrop
  \/ SlowGrow
  \/ UpdateVirtual
  \/ NoBattery
  \/ ReadBattery
  \/ EndEnumeration
  \/ ChangeBus

Spec == Init /\ [][Next]_vars

-----------------------------------------------------------------------------

\* The variables have their types: in particular no loop of the fast
\* enumeration runs more rounds than the counts ask for (todo is a natural).
TypeOK ==
  /\ forceSlow \in BOOLEAN
  /\ children \subseteq Device
  /\ bus \in Bus
  /\ \A i \in DOMAIN stack : stack[i] \in Frame

\* No two device objects have the same address on the bus ("Add battery
\* manager if not already present", xcom485ideviceaccess.cpp:282; "Delta is
\* positive if VarioTracks were added", line 113): ids of devices are made of
\* their addresses, and the look-up by id finds the first only.
UniqueAddresses ==
  \A d, e \in children : d.kind = e.kind /\ d.index = e.index => d = e

Reals(kind) == {d \in children : d.kind = kind /\ d.index > 0}

\* The real devices of a category have consecutive addresses from the first
\* on, each once.  Both enumerations depend on it when they take the length of
\* a list for the last address (lines 86 and 215), and have to preserve it
\* although the bus changes and requests fail under them.
ConsecutiveAddresses ==
  \A kind \in Kinds : {d.index : d \in Reals(kind)} = 1..Cardinality(Reals(kind))

\* "If there is at least one VarioString on the bus, create the virtual
\* multicast device, if none VarioStrings are present remove virtual device."
\* (line 315).
VirtualVarioStringFollowsReal ==
  Virtuals(children, "varioString") # {} <=> Reals("varioString") # {}

\* After an enumeration a category has a virtual device exactly if it has a
\* real one (lines 293, 304 and 315).  For the VarioStrings that is true of the
\* slow enumeration only, see UpdatedKind.
VirtualFollowsReal ==
  /\ \A kind \in {"xtender", "varioTrack"} : Virtuals(children, kind) # {} <=> Reals(kind) # {}
  /\ forceSlow => VirtualVarioStringFollowsReal

\* The devices of the bus that have an address the enumerator knows.
OnBus(kind) == IF bus.count[kind] <= Known[kind] THEN bus.count[kind] ELSE Known[kind]

\* The children are what is on the bus, as far as it has a known address.
MirrorsBus ==
  /\ \A kind \in Kinds : {d.index : d \in Reals(kind)} = 1..OnBus(kind)
  /\ {d.model : d \in BatteryManagers(children)} = {bus.battery} \ {"none"}

\* An enumeration during which the bus did not change and no request failed
\* ends with exactly the devices that are on the bus at addresses the
\* enumerator knows, whatever changes and failures the enumerations before it
\* have met.
EnumerationMirrorsBus ==
  [][EndEnumeration /\ Current.steady => MirrorsBus']_vars
=============================================================================
