------------------------------ MODULE Storage ------------------------------
(***************************************************************************)
(* The SQLite storage of property values and device messages               *)
(* (drivers/storage/sqlite/sqlitestorage.cpp), with the data log as its    *)
(* writer (sidataloggroup.cpp:77, sidatalogmanager.cpp:31).                *)
(*                                                                         *)
(* Every call runs to its end on the daemon's thread, so a call is a step. *)
(* What can go wrong is the data base: a query fails, the commit fails     *)
(* (its result is ignored) and leaves the transaction open or rolls it     *)
(* back, the daemon dies.  "disk" is what a new connection finds, "view"   *)
(* what the daemon's connection sees; they differ in an open transaction.  *)
(* A value is the number of the batch that stored it, a message its number.*)
(***************************************************************************)
EXTENDS Naturals, FiniteSets

CONSTANTS
    LoggedIds,      \* the ids of the logged properties
    StorageTime,    \* maximalStorageDays, in units of the clock
    LastTime,       \* bound: the clock stops here
    MaxBatches,     \* bound on the calls that store
    MaxFaults       \* bound on failures and crashes

ASSUME StorageAssumption ==
    /\ StorageTime \in Nat
    /\ LastTime \in Nat
    /\ MaxBatches \in Nat
    /\ MaxFaults \in Nat

VARIABLES
    clock,          \* QDateTime::currentDateTimeUtc()
    disk,           \* the tables as last committed
    view,           \* the tables as the connection sees them
    inTransaction,  \* a transaction is open between two calls
    isOpen,         \* db_ is open
    batches,        \* the calls so far that store (history)
    stored,         \* their number
    faults

storageVars == <<clock, disk, view, inTransaction, isOpen, batches, stored,
                 faults>>

Tables == [values : SUBSET [id : LoggedIds, time : 0 .. LastTime,
                            value : 1 .. MaxBatches],
           messages : SUBSET [time : 0 .. LastTime, message : 1 .. MaxBatches]]

StorageInit ==
    /\ clock = 0
    /\ disk = [values |-> {}, messages |-> {}]
    /\ view = disk
    /\ inTransaction = FALSE
    /\ isOpen = TRUE
    /\ batches = {}
    /\ stored = 0
    /\ faults = 0

----------------------------------------------------------------------------
(* addDays(-maximalStorageDays_) of now.  A time before it is outside.     *)
Outside(time) == time + StorageTime < clock

(* A table on which "INSERT OR REPLACE" has run for every property.        *)
Insert(tables, ids, time, value) ==
    [tables EXCEPT !.values =
        {row \in @ : row.id \notin ids \/ row.time # time}
            \cup [id : ids, time : {time}, value : {value}]]

InsertMessage(tables, time, number) ==
    [tables EXCEPT !.messages = @ \cup {[time |-> time, message |-> number]}]

(* Mutant: the values written before the failing query stay.               *)
RollbackNothing ==
    /\ faults < MaxFaults
    /\ faults' = faults + 1
    /\ \E ids \in SUBSET LoggedIds : view' = Insert(view, ids, clock, stored + 1)
    /\ disk' = view'
    /\ inTransaction' = FALSE

(* A query fails: rollback, which also takes back what an earlier call     *)
(* left in the transaction.  The call returns false.                       *)
Rollback ==
    /\ faults < MaxFaults
    /\ faults' = faults + 1
    /\ view' = disk
    /\ disk' = disk
    /\ inTransaction' = FALSE

(* commit(), whose result is not looked at: it succeeds, or fails and the  *)
(* transaction stays open (the file is busy) or is rolled back (disk full).*)
Commit(tables) ==
    \/ /\ disk' = tables
       /\ view' = tables
       /\ inTransaction' = FALSE
       /\ faults' = faults
    \/ /\ faults < MaxFaults
       /\ faults' = faults + 1
       /\ disk' = disk
       /\ \/ view' = tables /\ inTransaction' = TRUE
          \/ view' = disk /\ inTransaction' = FALSE

(* The batch of this call, what it returned and whether its commit worked. *)
Record(ids, time, result) ==
    /\ stored' = stored + 1
    /\ batches' = batches \cup
          {[number |-> stored + 1, ids |-> ids, time |-> time,
            committed |-> result /\ disk' = view' /\ faults' = faults]}

(* storePropertyValues_: the data log passes no timestamp, so the values   *)
(* are of now and never outside the storage time.                          *)
StorePropertyValues(ids) ==
    /\ isOpen
    /\ stored < MaxBatches
    /\ \/ /\ Rollback
          /\ Record(ids, clock, FALSE)
       \/ /\ Commit(Insert(view, ids, clock, stored + 1))
          /\ Record(ids, clock, TRUE)
    /\ UNCHANGED <<clock, isOpen>>

(* storeDeviceMessages_ with the one message the data log passes: its time *)
(* is the device's, and a message outside the storage time is skipped.     *)
StoreDeviceMessage(time) ==
    /\ isOpen
    /\ stored < MaxBatches
    /\ \/ /\ ~Outside(time)
          /\ Rollback
          /\ Record({}, time, FALSE)
       \/ /\ Commit(IF Outside(time) THEN view
                    ELSE InsertMessage(view, time, stored + 1))
          /\ Record({}, time, TRUE)
    /\ UNCHANGED <<clock, isOpen>>

----------------------------------------------------------------------------
(* The rows a clean-up leaves when both of its queries succeed.            *)
Kept(tables) ==
    [values |-> {row \in tables.values : ~Outside(row.time)},
     messages |-> {row \in tables.messages : ~Outside(row.time)}]

(* timerEvent: two queries of their own, each may fail without the other.  *)
Cleaned(tables) ==
    {Kept(tables), tables,
     [tables EXCEPT !.values = Kept(tables).values],
     [tables EXCEPT !.messages = Kept(tables).messages]}

CleanUp ==
    \E tables \in Cleaned(view) :
        /\ tables = Kept(view) \/ faults < MaxFaults
        /\ faults' = IF tables = Kept(view) THEN faults ELSE faults + 1
        /\ view' = tables
        /\ disk' = IF inTransaction THEN disk ELSE tables

TimerEvent ==
    /\ isOpen
    /\ CleanUp
    /\ UNCHANGED <<clock, inTransaction, isOpen, batches, stored>>

(* The destructor, or the death of the daemon: an open transaction is lost.*)
Close ==
    /\ isOpen
    /\ faults < MaxFaults
    /\ faults' = faults + 1
    /\ isOpen' = FALSE
    /\ view' = disk
    /\ inTransaction' = FALSE
    /\ UNCHANGED <<clock, disk, batches, stored>>

(* Mutant: the tables are created anew.                                    *)
OpenEmpty ==
    /\ ~isOpen
    /\ isOpen' = TRUE
    /\ view' = [values |-> {}, messages |-> {}]
    /\ disk' = view'
    /\ UNCHANGED <<clock, inTransaction, batches, stored, faults>>

(* open: the tables are created if they do not exist, then timerEvent is   *)
(* called, whose queries may fail here as well.                            *)
Open ==
    /\ ~isOpen
    /\ isOpen' = TRUE
    /\ CleanUp
    /\ UNCHANGED <<clock, inTransaction, batches, stored>>

Tick ==
    /\ clock < LastTime
    /\ clock' = clock + 1
    /\ UNCHANGED <<disk, view, inTransaction, isOpen, batches, stored, faults>>

StorageNext ==
    \/ \E ids \in (SUBSET LoggedIds) \ {{}} : StorePropertyValues(ids)
    \/ \E time \in 0 .. clock : StoreDeviceMessage(time)
    \/ TimerEvent
    \/ Close
    \/ Open
    \/ Tick

StorageSpec == StorageInit /\ [][StorageNext]_storageVars

----------------------------------------------------------------------------
(* The retrieving calls, which change nothing.  "from" is moved into the   *)
(* storage time, whatever the last clean-up left.                          *)
InRange(row, from, to) == row.time >= from /\ ~Outside(row.time) /\ row.time <= to

(* ORDER BY timestamp DESC limit: those with fewer than "limit" newer ones.*)
Newest(rows, limit) ==
    {row \in rows : Cardinality({r \in rows : r.time > row.time}) < limit}

RetrievePropertyValues(id, from, to, limit) ==
    Newest({row \in view.values : row.id = id /\ InRange(row, from, to)}, limit)

(* The status: an empty answer asks whether the id has any row at all.     *)
RetrieveStatus(id, from, to, limit) ==
    IF RetrievePropertyValues(id, from, to, limit) = {}
          /\ \A row \in view.values : row.id # id
    THEN "NoProperty" ELSE "Success"

(* Mutant: rows older than the storage time still make an id available.    *)
AvailableEver(from, to) ==
    {row.id : row \in {r \in view.values : r.time <= to}}

AvailableStoredProperties(from, to) ==
    {row.id : row \in {r \in view.values : InRange(r, from, to)}}

RetrieveDeviceMessages(from, to) ==
    {row \in view.messages : InRange(row, from, to)}
----------------------------------------------------------------------------
(* The tables have their types, an id has one value at a time (the unique  *)
(* index), and only an open transaction sets the connection's view apart.  *)
StorageTypeOK ==
    /\ clock \in 0 .. LastTime
    /\ disk \in Tables /\ view \in Tables
    /\ inTransaction \in BOOLEAN /\ isOpen \in BOOLEAN
    /\ faults \in 0 .. MaxFaults
    /\ batches \subseteq [number : 1 .. MaxBatches, ids : SUBSET LoggedIds,
                          time : 0 .. LastTime, committed : BOOLEAN]
    /\ stored \in 0 .. MaxBatches
    /\ \A b \in batches : b.number <= stored
    /\ \A tables \in {disk, view} : \A r, s \in tables.values :
          r.id = s.id /\ r.time = s.time => r = s
    /\ inTransaction => isOpen
    /\ ~inTransaction => disk = view

(* A batch of values is in the data base with all its ids or with none,    *)
(* through failing queries and commits, crashes and clean-ups; an id may   *)
(* only be missing because a later batch of the same second replaced it.   *)
BatchesAreWhole ==
    \A b \in batches : \A tables \in {disk, view} :
        LET found == {row.id : row \in {r \in tables.values : r.value = b.number}}
        IN  found # {} =>
              \A id \in b.ids \ found :
                  \E later \in batches :
                      later.number > b.number /\ later.time = b.time /\ id \in later.ids

(* What a successful commit wrote stays on the disk until it is older than *)
(* the storage time: no rollback, failed commit, crash or start takes it.  *)
CommittedIsKept ==
    \A b \in batches : b.committed /\ ~Outside(b.time) =>
        /\ \A id \in b.ids :
              \E row \in disk.values :
                  row.id = id /\ row.time = b.time /\ row.value >= b.number
        /\ b.ids = {} => [time |-> b.time, message |-> b.number] \in disk.messages

(* The answers agree with each other, between two clean-ups too: an id is  *)
(* available in a range exactly if its values can be retrieved, it is then *)
(* not reported as unknown, no answer is older than the storage time, and  *)
(* a limit leaves out older values only.                                   *)
AnswersAgree ==
    \A from, to \in 0 .. LastTime, id \in LoggedIds :
        LET all == RetrievePropertyValues(id, from, to, LastTime + 1)
            one == RetrievePropertyValues(id, from, to, 1)
        IN  /\ (all # {}) <=> id \in AvailableStoredProperties(from, to)
            /\ all # {} => RetrieveStatus(id, from, to, 1) = "Success"
            /\ \A row \in all : ~Outside(row.time)
            /\ (one # {}) <=> (all # {})
            /\ \A new \in one, row \in all : new.time >= row.time
=============================================================================
