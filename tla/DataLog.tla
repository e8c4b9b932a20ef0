------------------------------ MODULE DataLog ------------------------------
(***************************************************************************)
(* The groups of the data log.  Each group has an interval, a list of      *)
(* property ids and a single shot timer.  When the timer fires, the group  *)
(* reads all properties of its list as one batch; the finished batch is    *)
(* stored and the timer started again.                                     *)
(*                                                                         *)
(* The list changes under the group: a device that appears adds the ids    *)
(* that the wildcards of the configuration match, a device that disappears *)
(* takes all its ids away.  Devices come and go between the parts of a     *)
(* batch, and inside one if the driver waits for its bus.                  *)
(*                                                                         *)
(* The order of the ids in a list decides nothing but the order of the     *)
(* reads: a list is modelled as how often it holds each id.                *)
(***************************************************************************)
EXTENDS Naturals, Sequences, FiniteSets, Functions

CONSTANTS
  Groups,          \* one for each interval of the configuration
  Ids,             \* ids of properties: device and property
  DeviceOf,        \* [Ids -> device]
  VirtualDevices,  \* devices the data log ignores
  Explicit,        \* [Groups -> SUBSET Ids]: ids without wildcard
  Wildcards,       \* [Groups -> set of wildcard ids]
  Matched,         \* [wildcard -> SUBSET Ids]: existing properties it matches
  MaxBatches       \* bound on the outstanding batches of a group

Devices == Range(DeviceOf)

AllWildcards == UNION Range(Wildcards)

ASSUME DataLogAssumption ==
  /\ IsFiniteSet(Ids)
  /\ IsFiniteSet(AllWildcards)
  /\ DeviceOf \in [Ids -> Devices]
  /\ Explicit \in [Groups -> SUBSET Ids]
  /\ Wildcards \in [Groups -> SUBSET AllWildcards]
  /\ Matched \in [AllWildcards -> SUBSET Ids]
  /\ MaxBatches \in Nat \ {0}

VARIABLES
  present,         \* devices of the device access
  departed,        \* auxiliary: devices that have been removed at least once
  stopped,         \* auxiliary: stopPropertyPolling was called, which the daemon never does
  active,          \* active_ of each group
  armed,           \* groups whose timer runs
  propertyIDs,     \* propertyIDs_ of each group, as a multiset
  batches          \* read operations of each group, oldest first

vars == <<present, departed, stopped, active, armed, propertyIDs, batches>>

Outcomes == {"unread", "value", "null"}

TypeOK ==
  /\ present \subseteq Devices
  /\ departed \subseteq Devices
  /\ stopped \in BOOLEAN
  /\ active \subseteq Groups
  /\ armed \subseteq Groups
  /\ propertyIDs \in [Groups -> [Ids -> Nat]]
  /\ batches \in [Groups -> Seq([Ids -> Outcomes \cup {"absent"}])]

-----------------------------------------------------------------------------

\* The ids a group holds at least once.
Listed(g) == {id \in Ids : propertyIDs[g][id] > 0}

\* How many wildcards of the group match the property.
Matches(g, id) == Cardinality({w \in Wildcards[g] : id \in Matched[w]})

\* The groups are created from the configuration before the first enumeration.
Init ==
  /\ present = {}
  /\ departed = {}
  /\ stopped = FALSE
  /\ active = {}
  /\ armed = {}
  /\ propertyIDs = [g \in Groups |-> [id \in Ids |-> IF id \in Explicit[g] THEN 1 ELSE 0]]
  /\ batches = [g \in Groups |-> <<>>]

\* All groups are started, those that are active are left as they are.
StartPropertyPolling ==
  /\ active' = Groups
  /\ armed' = armed \cup (Groups \ active)
  /\ UNCHANGED <<present, departed, stopped, propertyIDs, batches>>

StopPropertyPolling ==
  /\ stopped' = TRUE
  /\ active' = {}
  /\ armed' = armed \ active
  /\ UNCHANGED <<present, departed, propertyIDs, batches>>

\* Mutant: virtual devices are logged like the others.
AddWildcardPropertiesOfAny(g, d) ==
  [id \in Ids |-> propertyIDs[g][id] + IF DeviceOf[id] = d THEN Matches(g, id) ELSE 0]

\* The list of a group after the device has been added.
AddWildcardProperties(g, d) ==
  [id \in Ids |-> propertyIDs[g][id]
                  + IF DeviceOf[id] = d /\ d \notin VirtualDevices THEN Matches(g, id) ELSE 0]

\* The list of a group after the device has been removed: every id of the
\* device goes, the ones without wildcard too.
RemoveWildcardProperties(g, d) ==
  [id \in Ids |-> IF DeviceOf[id] = d /\ d \notin VirtualDevices THEN 0 ELSE propertyIDs[g][id]]

\* An enumeration has found a device that was not there.
OnDeviceAdded(d) ==
  /\ d \notin present
  /\ present' = present \cup {d}
  /\ propertyIDs' = [g \in Groups |-> AddWildcardProperties(g, d)]
  /\ UNCHANGED <<departed, stopped, active, armed, batches>>

\* An enumeration has not found a device again.
OnDeviceRemoved(d) ==
  /\ d \in present
  /\ present' = present \ {d}
  /\ departed' = departed \cup {d}
  /\ propertyIDs' = [g \in Groups |-> RemoveWildcardProperties(g, d)]
  /\ UNCHANGED <<stopped, active, armed, batches>>

-----------------------------------------------------------------------------

\* A batch that has not read anything yet.
NewBatch(g) == [id \in Ids |-> IF id \in Listed(g) THEN "unread" ELSE "absent"]

\* Mutant: an empty list neither reads nor waits for the next time.
OnTimeoutForgets(g) ==
  /\ g \in armed
  /\ Len(batches[g]) < MaxBatches
  /\ armed' = armed \ {g}
  /\ batches' = IF g \in active /\ Listed(g) # {}
                THEN [batches EXCEPT ![g] = Append(@, NewBatch(g))]
                ELSE batches
  /\ UNCHANGED <<present, departed, stopped, active, propertyIDs>>

\* Mutant: the timer is not single shot.
OnTimeoutRepeats(g) ==
  /\ g \in armed
  /\ Len(batches[g]) < MaxBatches
  /\ batches' = IF g \in active /\ Listed(g) # {}
                THEN [batches EXCEPT ![g] = Append(@, NewBatch(g))]
                ELSE batches
  /\ UNCHANGED <<present, departed, stopped, active, armed, propertyIDs>>

\* The timer of a group fires: a batch is enqueued, or the timer is started
\* again if there is nothing to read.
OnTimeout(g) ==
  /\ g \in armed
  /\ Len(batches[g]) < MaxBatches
  /\ IF g \in active /\ Listed(g) # {}
     THEN /\ batches' = [batches EXCEPT ![g] = Append(@, NewBatch(g))]
          /\ armed' = armed \ {g}
     ELSE /\ armed' = IF g \in active THEN armed ELSE armed \ {g}
          /\ UNCHANGED batches
  /\ UNCHANGED <<present, departed, stopped, active, propertyIDs>>

\* A part of a batch has been read: the value if the device is there and
\* answers.  An id the list holds twice is read twice, the later result counts.
ReadPart(g, i, id) ==
  /\ i \in DOMAIN batches[g]
  /\ batches[g][i][id] = "unread"
  /\ \E outcome \in {"value", "null"} :
       /\ outcome = "value" => DeviceOf[id] \in present
       /\ batches' = [batches EXCEPT ![g][i][id] = outcome]
  /\ UNCHANGED <<present, departed, stopped, active, armed, propertyIDs>>

\* All parts of a batch have been read.
Complete(batch) == \A id \in Ids : batch[id] # "unread"

\* Mutant: the handler does not start the timer.
OnFinishedOnce(g, i) ==
  /\ i \in DOMAIN batches[g]
  /\ Complete(batches[g][i])
  /\ batches' = [batches EXCEPT ![g] = SubSeq(@, 1, i - 1) \o SubSeq(@, i + 1, Len(@))]
  /\ UNCHANGED <<present, departed, stopped, active, armed, propertyIDs>>

\* The batch is stored and released, and the next reading is due.
OnFinished(g, i) ==
  /\ i \in DOMAIN batches[g]
  /\ Complete(batches[g][i])
  /\ batches' = [batches EXCEPT ![g] = SubSeq(@, 1, i - 1) \o SubSeq(@, i + 1, Len(@))]
  /\ armed' = IF g \in active THEN armed \cup {g} ELSE armed
  /\ UNCHANGED <<present, departed, stopped, active, propertyIDs>>

Next ==
  \/ StartPropertyPolling
  \/ StopPropertyPolling
  \/ \E d \in Devices : OnDeviceAdded(d) \/ OnDeviceRemoved(d)
  \/ \E g \in Groups :
       \/ OnTimeout(g)
       \/ \E i \in 1..MaxBatches : OnFinished(g, i)
       \/ \E i \in 1..MaxBatches, id \in Ids : ReadPart(g, i, id)

Safety == Init /\ [][Next]_vars

\* Timers fire, and the queue finishes what is enqueued (OperationQueue).  The
\* daemon starts the groups once it has enumerated the devices.
Fairness ==
  /\ WF_vars(Groups # active /\ StartPropertyPolling)
  /\ \A g \in Groups :
       /\ WF_vars(OnTimeout(g))
       /\ \A i \in 1..MaxBatches :
            /\ WF_vars(OnFinished(g, i))
            /\ \A id \in Ids : WF_vars(ReadPart(g, i, id))

Spec == Safety /\ Fairness

-----------------------------------------------------------------------------

(***************************************************************************)
(* A group that is active has either a running timer or a batch that will  *)
(* start it again, whatever is started, stopped, added and removed while   *)
(* batches are out: logging never comes to a halt.                         *)
(***************************************************************************)
NeverIdle == \A g \in active : g \in armed \/ batches[g] # <<>>

(***************************************************************************)
(* As long as no group is stopped, which the daemon never does, a group    *)
(* has a timer or a batch, not both, and one batch at a time: a slow bus   *)
(* delays the log and is not flooded by it.  A group that is stopped and   *)
(* started while a batch is out has both, and may get ever more batches.   *)
(***************************************************************************)
TimerOrBatch ==
  ~stopped => \A g \in Groups : Len(batches[g]) <= IF g \in armed THEN 0 ELSE 1

(***************************************************************************)
(* The list of a group is what the configuration says of the devices that  *)
(* are there: an id is held once for each wildcard that matches it while   *)
(* its device is present, and once if it is configured without wildcard,   *)
(* until its device is removed for the first time.  It is not brought back *)
(* with the device.                                                        *)
(***************************************************************************)
ListsMirrorDevices ==
  \A g \in Groups, id \in Ids :
    LET real == DeviceOf[id] \notin VirtualDevices IN
    propertyIDs[g][id] =
      (IF real /\ DeviceOf[id] \in present THEN Matches(g, id) ELSE 0)
      + (IF id \in Explicit[g] /\ ~(real /\ DeviceOf[id] \in departed) THEN 1 ELSE 0)

(***************************************************************************)
(* Every property that a wildcard of a group matches is logged again and   *)
(* again while its device stays and the groups are not stopped any more,   *)
(* whatever other devices and groups do.                                   *)
(***************************************************************************)
Logs(g, id) == \E i \in 1..MaxBatches : OnFinished(g, i) /\ batches[g][i][id] # "absent"

MatchedIsLogged ==
  \A g \in Groups, id \in Ids :
    Matches(g, id) > 0 /\ DeviceOf[id] \notin VirtualDevices =>
      (<>[](DeviceOf[id] \in present /\ active = Groups) => []<><<Logs(g, id)>>_vars)

=============================================================================
