------------------------------ MODULE RecordsProofs ------------------------------
(***************************************************************************)
(* Theorems about the components that keep records.                        *)
(*                                                                         *)
(* Storage: for any ids, storage time, number of calls and number of       *)
(* failures.  The connection's view and the disk exchange their contents   *)
(* at every commit, rollback and crash, so what is said of one has to hold *)
(* of both.  It is said of a table and a set of calls, in operators.       *)
(*                                                                         *)
(* WebStorage: for any keys and spellings.                                 *)
(*                                                                         *)
(* UserFile: for any names, levels, number of changes and of programs that *)
(* die.  What a change holds is said of lists: the levels in it were given *)
(* to the names, and, while nothing overlaps, it is exactly what the       *)
(* accepted changes and this one leave.                                    *)
(*                                                                         *)
(* XcomRegisters: for any readings of the model registers, any numbers and *)
(* times that are written.  The tables are compared by ranges: the         *)
(* settings of a family are within 600 ids of its first one.               *)
(*                                                                         *)
(* ExtensionCommands: for any users and texts.  The parameters of a call   *)
(* and its headers are told apart by how many arguments it gives.          *)
(***************************************************************************)
EXTENDS Storage, WebStorage, UserFile, XcomRegisters, ExtensionCommands,
        SequenceLemmas, SequenceTheorems, FiniteSetTheorems

-----------------------------------------------------------------------------
(* Storage                                                                  *)

Batches == [number : 1 .. MaxBatches, ids : SUBSET LoggedIds, time : 0 .. LastTime, committed : BOOLEAN]

\* Each id has at most one value at a time.
Unique(tables) == \A r, s \in tables.values : r.id = s.id /\ r.time = s.time => r = s

-----------------------------------------------------------------------------
(* Types                                                                    *)

\* A batch leaves the tables' types and the unique index.
LEMMA InsertType ==
  ASSUME NEW tables \in Tables, NEW ids \in SUBSET LoggedIds, NEW time \in 0 .. LastTime, NEW value \in 1 .. MaxBatches,
         Unique(tables)
  PROVE  Insert(tables, ids, time, value) \in Tables /\ Unique(Insert(tables, ids, time, value))
<1> DEFINE new == Insert(tables, ids, time, value)
<1>1. new.values = {row \in tables.values : row.id \notin ids \/ row.time # time}
                     \cup [id : ids, time : {time}, value : {value}]
  BY DEF Insert, Tables
<1>2. new \in Tables
  BY DEF Insert, Tables
<1>3. ASSUME NEW r \in new.values, NEW s \in new.values, r.id = s.id, r.time = s.time
      PROVE  r = s
  <2>1. \A x \in [id : ids, time : {time}, value : {value}] : x = [id |-> x.id, time |-> time, value |-> value] /\ x.id \in ids
    OBVIOUS
  <2>2. QED
    BY <1>1, <1>3, <2>1 DEF Unique
<1>4. QED
  BY <1>2, <1>3 DEF Unique

\* So does a clean-up, complete or not.
LEMMA CleanedType ==
  ASSUME NEW tables \in Tables, NEW cleaned \in Cleaned(tables), Unique(tables)
  PROVE  cleaned \in Tables /\ Unique(cleaned)
BY DEF Cleaned, Kept, Tables, Unique

\* A call leaves both tables well typed if its own table is.
LEMMA CallType ==
  ASSUME StorageTypeOK, isOpen, stored < MaxBatches,
         NEW tables \in Tables, Unique(tables),
         NEW ids \in SUBSET LoggedIds, NEW time \in 0 .. LastTime, NEW result \in BOOLEAN,
         Rollback \/ Commit(tables), Record(ids, time, result), UNCHANGED <<clock, isOpen>>
  PROVE  StorageTypeOK'
<1>0. faults \in 0 .. MaxFaults /\ inTransaction \in BOOLEAN
  BY DEF StorageTypeOK
<1>1. /\ disk' \in {disk, tables} /\ view' \in {disk, tables}
      /\ inTransaction' \in BOOLEAN
      /\ ~inTransaction' => disk' = view'
      /\ faults' \in 0 .. MaxFaults
  <2>1. faults' = faults \/ (faults < MaxFaults /\ faults' = faults + 1)
    BY DEF Rollback, Commit
  <2>2. faults' \in 0 .. MaxFaults
    BY <1>0, <2>1, StorageAssumption
  <2>3. CASE Rollback
    BY <2>2, <2>3 DEF Rollback
  <2>4. CASE Commit(tables)
    BY <2>2, <2>4 DEF Commit
  <2>5. QED
    BY <2>3, <2>4
<1>2. stored' \in 0 .. MaxBatches /\ stored' = stored + 1 /\ stored + 1 \in 1 .. MaxBatches
  BY StorageAssumption DEF StorageTypeOK, Record
<1>3. batches' \subseteq Batches /\ \A b \in batches' : b.number <= stored'
  <2> DEFINE c == result /\ disk' = view' /\ faults' = faults
             new == [number |-> stored + 1, ids |-> ids, time |-> time, committed |-> c]
  <2>1. batches' = batches \cup {new} /\ c \in BOOLEAN
    BY DEF Record
  <2> HIDE DEF c
  <2>2. new \in Batches
    BY <1>2, <2>1 DEF Batches
  <2>3. batches \subseteq Batches /\ \A b \in batches : b.number <= stored
    BY DEF StorageTypeOK, Batches
  <2>4. \A b \in batches : b.number <= stored'
    <3> SUFFICES ASSUME NEW b \in batches PROVE b.number <= stored'
      OBVIOUS
    <3>1. b.number \in Nat /\ b.number <= stored /\ stored \in Nat
      BY <2>3, StorageAssumption DEF Batches, StorageTypeOK
    <3>2. QED
      BY <1>2, <3>1
  <2>5. QED
    BY <1>2, <2>1, <2>2, <2>3, <2>4
<1>4. disk' \in Tables /\ view' \in Tables /\ Unique(disk') /\ Unique(view')
  BY <1>1 DEF StorageTypeOK, Unique
<1>5. QED
  BY <1>1, <1>2, <1>3, <1>4 DEF StorageTypeOK, Unique, Batches

\* Type correctness of the storage, with the unique index and the transaction
\* as the only difference between the connection's view and the disk.
THEOREM StorageTypeCorrect == StorageSpec => []StorageTypeOK
<1>1. StorageInit => StorageTypeOK
  <2> SUFFICES ASSUME StorageInit PROVE StorageTypeOK
    OBVIOUS
  <2>1. [values |-> {}, messages |-> {}] \in Tables
    BY DEF Tables
  <2>2. disk \in Tables /\ view \in Tables /\ disk.values = {} /\ view.values = {}
    BY <2>1 DEF StorageInit
  <2>3. QED
    <3>1. 0 \in 0 .. LastTime /\ 0 \in 0 .. MaxFaults /\ 0 \in 0 .. MaxBatches
      BY StorageAssumption
    <3>2. QED
      BY <2>2, <3>1 DEF StorageInit, StorageTypeOK
<1>2. StorageTypeOK /\ [StorageNext]_storageVars => StorageTypeOK'
  <2> SUFFICES ASSUME StorageTypeOK, [StorageNext]_storageVars
               PROVE  StorageTypeOK'
    OBVIOUS
  <2>1. ASSUME NEW ids \in SUBSET LoggedIds, StorePropertyValues(ids)
        PROVE  StorageTypeOK'
    <3>1. stored + 1 \in 1 .. MaxBatches /\ stored < MaxBatches /\ isOpen /\ UNCHANGED <<clock, isOpen>>
      BY <2>1, StorageAssumption DEF StorageTypeOK, StorePropertyValues
    <3>2. /\ Insert(view, ids, clock, stored + 1) \in Tables
          /\ Unique(Insert(view, ids, clock, stored + 1))
      BY <3>1, InsertType DEF StorageTypeOK, Unique
    <3>3. clock \in 0 .. LastTime
      BY DEF StorageTypeOK
    <3>4. CASE Rollback /\ Record(ids, clock, FALSE)
      BY <3>1, <3>2, <3>3, <3>4, CallType
    <3>5. CASE Commit(Insert(view, ids, clock, stored + 1)) /\ Record(ids, clock, TRUE)
      BY <3>1, <3>2, <3>3, <3>5, CallType
    <3>6. QED
      BY <2>1, <3>4, <3>5 DEF StorePropertyValues
  <2>2. ASSUME NEW time \in 0 .. clock, StoreDeviceMessage(time)
        PROVE  StorageTypeOK'
    <3> DEFINE tables == IF Outside(time) THEN view ELSE InsertMessage(view, time, stored + 1)
    <3>1. stored + 1 \in 1 .. MaxBatches /\ stored < MaxBatches /\ isOpen /\ UNCHANGED <<clock, isOpen>>
      BY <2>2, StorageAssumption DEF StorageTypeOK, StoreDeviceMessage
    <3>2. time \in 0 .. LastTime /\ {} \in SUBSET LoggedIds
      BY StorageAssumption DEF StorageTypeOK
    <3>3. tables \in Tables /\ Unique(tables)
      BY <3>1, <3>2 DEF StorageTypeOK, InsertMessage, Tables, Unique
    <3> HIDE DEF tables
    <3>4. CASE Rollback /\ Record({}, time, FALSE)
      BY <3>1, <3>2, <3>3, <3>4, CallType
    <3>5. CASE Commit(tables) /\ Record({}, time, TRUE)
      BY <3>1, <3>2, <3>3, <3>5, CallType
    <3>6. QED
      BY <2>2, <3>4, <3>5 DEF StoreDeviceMessage, tables
  <2>3. CASE TimerEvent
    <3>1. PICK tables \in Cleaned(view) :
            /\ tables = Kept(view) \/ faults < MaxFaults
            /\ faults' = IF tables = Kept(view) THEN faults ELSE faults + 1
            /\ view' = tables
            /\ disk' = IF inTransaction THEN disk ELSE tables
      BY <2>3 DEF TimerEvent, CleanUp
    <3>2. tables \in Tables /\ Unique(tables)
      BY CleanedType DEF StorageTypeOK, Unique
    <3>3. QED
      BY <2>3, <3>1, <3>2, StorageAssumption DEF TimerEvent, StorageTypeOK, Unique
  <2>4. CASE Close
    <3>1. faults' \in 0 .. MaxFaults
      BY <2>4, StorageAssumption DEF Close, StorageTypeOK
    <3>2. QED
      BY <2>4, <3>1 DEF Close, StorageTypeOK
  <2>5. CASE Open
    <3>1. PICK tables \in Cleaned(view) :
            /\ tables = Kept(view) \/ faults < MaxFaults
            /\ faults' = IF tables = Kept(view) THEN faults ELSE faults + 1
            /\ view' = tables
            /\ disk' = IF inTransaction THEN disk ELSE tables
      BY <2>5 DEF Open, CleanUp
    <3>2. tables \in Tables /\ Unique(tables)
      BY CleanedType DEF StorageTypeOK, Unique
    <3>3. ~inTransaction
      BY <2>5 DEF Open, StorageTypeOK
    <3>4. QED
      BY <2>5, <3>1, <3>2, <3>3, StorageAssumption DEF Open, StorageTypeOK, Unique
  <2>6. CASE Tick \/ UNCHANGED storageVars
    BY <2>6, StorageAssumption DEF Tick, storageVars, StorageTypeOK
  <2>7. QED
    BY <2>1, <2>2, <2>3, <2>4, <2>5, <2>6 DEF StorageNext
<1>3. QED
  BY <1>1, <1>2, PTL DEF StorageSpec

-----------------------------------------------------------------------------
(* What a table owes to the calls: every row is of one of them, a call that *)
(* has a row has all of them but those a later call of the same time has    *)
(* replaced, and a committed call has rows as new as its own.               *)

Rows(b) == [id : b.ids, time : {b.time}, value : {b.number}]

Replaced(calls, b, id) == \E later \in calls : later.number > b.number /\ later.time = b.time /\ id \in later.ids

Origin(tables, calls) == \A row \in tables.values : \E b \in calls : row \in Rows(b)

Whole(tables, calls) ==
  \A b \in calls : (\E row \in tables.values : row.value = b.number) =>
    \A id \in b.ids : [id |-> id, time |-> b.time, value |-> b.number] \in tables.values \/ Replaced(calls, b, id)

Held(tables, b) ==
  /\ \A id \in b.ids : \E row \in tables.values : row.id = id /\ row.time = b.time /\ row.value >= b.number
  /\ b.ids = {} => [time |-> b.time, message |-> b.number] \in tables.messages

Keeps(tables, calls, now) == \A b \in calls : b.committed /\ ~(b.time + StorageTime < now) => Held(tables, b)

Sound(tables, calls, now) == Origin(tables, calls) /\ Whole(tables, calls) /\ Keeps(tables, calls, now)

\* The calls are told apart by their numbers.
Numbered(calls, n) ==
  /\ calls \subseteq Batches
  /\ \A b \in calls : b.number <= n
  /\ \A b, c \in calls : b.number = c.number => b = c

\* A call that leaves no row leaves a sound table sound.
LEMMA SoundWithCall ==
  ASSUME NEW tables \in Tables, NEW calls, NEW n \in Nat, NEW now \in Nat, NEW x \in Batches,
         Numbered(calls, n), x.number = n + 1, Sound(tables, calls, now),
         x.committed => x.time + StorageTime < now \/ Held(tables, x)
  PROVE  Sound(tables, calls \cup {x}, now) /\ Numbered(calls \cup {x}, n + 1)
<1>1. \A b \in calls : b \in Batches /\ b.number \in Nat /\ b.number <= n
  BY DEF Numbered, Batches
<1>2. Origin(tables, calls \cup {x})
  BY DEF Sound, Origin
<1>3. \A row \in tables.values : row.value # x.number
  BY <1>1 DEF Sound, Origin, Rows
<1>4. Whole(tables, calls \cup {x})
  BY <1>3 DEF Sound, Whole, Replaced
<1>5. Keeps(tables, calls \cup {x}, now)
  BY DEF Sound, Keeps
<1>6. Numbered(calls \cup {x}, n + 1)
  BY <1>1 DEF Numbered
<1>7. QED
  BY <1>2, <1>4, <1>5, <1>6 DEF Sound

\* The rows of a call replace those of its time and leave the table sound.
LEMMA SoundWithRows ==
  ASSUME NEW tables \in Tables, NEW calls, NEW n \in Nat, NEW now \in Nat, NEW x \in Batches,
         Numbered(calls, n), x.number = n + 1, x.ids # {}, Sound(tables, calls, now)
  PROVE  Sound(Insert(tables, x.ids, x.time, n + 1), calls \cup {x}, now)
<1> DEFINE new == Insert(tables, x.ids, x.time, n + 1)
           all == calls \cup {x}
<1>1. /\ new.values = {row \in tables.values : row.id \notin x.ids \/ row.time # x.time} \cup Rows(x)
      /\ new.messages = tables.messages
  BY DEF Insert, Tables, Rows
<1> HIDE DEF new
<1>2. \A b \in calls : b \in Batches /\ b.number \in Nat /\ b.number <= n /\ b.number # x.number /\ x.number > b.number
  BY DEF Numbered, Batches
<1>3. Origin(new, all)
  BY <1>1 DEF Sound, Origin
<1>4. \A row \in Rows(x) : row.value = n + 1 /\ row.time = x.time /\ row.id \in x.ids
  BY DEF Rows
<1>5. Whole(new, all)
  <2>1. ASSUME NEW b \in all, NEW row \in new.values, row.value = b.number, NEW id \in b.ids
        PROVE  [id |-> id, time |-> b.time, value |-> b.number] \in new.values \/ Replaced(all, b, id)
    <3>1. CASE b = x
      BY <1>1, <3>1, <2>1 DEF Rows
    <3>2. CASE b \in calls
      <4>1. row \in tables.values
        BY <1>1, <1>2, <1>4, <2>1, <3>2
      <4>2. CASE Replaced(calls, b, id)
        BY <4>2 DEF Replaced
      <4>3. CASE [id |-> id, time |-> b.time, value |-> b.number] \in tables.values
        <5>1. CASE id \in x.ids /\ b.time = x.time
          BY <1>2, <3>2, <5>1 DEF Replaced
        <5>2. CASE id \notin x.ids \/ b.time # x.time
          BY <1>1, <4>3, <5>2
        <5>3. QED
          BY <5>1, <5>2
      <4>4. QED
        BY <2>1, <3>2, <4>1, <4>2, <4>3 DEF Sound, Whole
    <3>3. QED
      BY <3>1, <3>2
  <2>2. QED
    BY <2>1 DEF Whole
<1>6. Keeps(new, all, now)
  <2>1. Held(new, x)
    <3>1. \A id \in x.ids : [id |-> id, time |-> x.time, value |-> x.number] \in new.values
      BY <1>1 DEF Rows
    <3>2. ASSUME NEW id \in x.ids
          PROVE  \E row \in new.values : row.id = id /\ row.time = x.time /\ row.value >= x.number
      <4> DEFINE w == [id |-> id, time |-> x.time, value |-> x.number]
      <4>1. w \in new.values
        BY <3>1, <3>2
      <4>2. w.id = id /\ w.time = x.time /\ w.value >= x.number
        BY DEF Batches
      <4> HIDE DEF w
      <4>3. QED
        BY <4>1, <4>2
    <3>3. QED
      BY <3>2 DEF Held
  <2>2. ASSUME NEW b \in calls, Held(tables, b)
        PROVE  Held(new, b)
    <3>1. ASSUME NEW id \in b.ids
          PROVE  \E row \in new.values : row.id = id /\ row.time = b.time /\ row.value >= b.number
      <4>1. PICK row \in tables.values : row.id = id /\ row.time = b.time /\ row.value >= b.number
        BY <2>2, <3>1 DEF Held
      <4>2. CASE row.id \in x.ids /\ row.time = x.time
        <5>1. [id |-> id, time |-> x.time, value |-> n + 1] \in new.values
          BY <1>1, <4>1, <4>2 DEF Rows
        <5>2. QED
          BY <1>2, <4>1, <4>2, <5>1
      <4>3. CASE ~(row.id \in x.ids /\ row.time = x.time)
        BY <1>1, <4>1, <4>3
      <4>4. QED
        BY <4>2, <4>3
    <3>2. QED
      BY <1>1, <2>2, <3>1 DEF Held
  <2>3. QED
    BY <2>1, <2>2 DEF Sound, Keeps
<1>7. QED
  BY <1>3, <1>5, <1>6 DEF Sound, new

\* A message in the table leaves it sound.
LEMMA SoundWithMessage ==
  ASSUME NEW tables \in Tables, NEW calls, NEW n \in Nat, NEW now \in Nat, NEW time, Sound(tables, calls, now)
  PROVE  Sound(InsertMessage(tables, time, n), calls, now)
<1> DEFINE new == InsertMessage(tables, time, n)
<1>1. new.values = tables.values /\ new.messages = tables.messages \cup {[time |-> time, message |-> n]}
  BY DEF InsertMessage, Tables
<1> HIDE DEF new
<1>2. Origin(new, calls) /\ Whole(new, calls)
  BY <1>1 DEF Sound, Origin, Whole
<1>3. Keeps(new, calls, now)
  BY <1>1 DEF Sound, Keeps, Held
<1>4. QED
  BY <1>2, <1>3 DEF Sound, new

\* A clean-up takes all rows of a call or none.
LEMMA SoundCleaned ==
  ASSUME NEW tables \in Tables, NEW cleaned \in Cleaned(tables), NEW n \in Nat, Numbered(batches, n),
         Sound(tables, batches, clock)
  PROVE  Sound(cleaned, batches, clock)
<1>1. /\ cleaned.values \in {tables.values, {row \in tables.values : ~Outside(row.time)}}
      /\ cleaned.messages \in {tables.messages, {row \in tables.messages : ~Outside(row.time)}}
  BY DEF Cleaned, Kept, Tables
<1>2. cleaned.values \subseteq tables.values /\ \A row \in tables.values : Outside(row.time) \/ row \in cleaned.values
  BY <1>1
<1>3. \A row \in tables.messages : Outside(row.time) \/ row \in cleaned.messages
  BY <1>1
<1>4. Origin(cleaned, batches)
  BY <1>2 DEF Sound, Origin
<1>5. Whole(cleaned, batches)
  <2>1. ASSUME NEW b \in batches, NEW row \in cleaned.values, row.value = b.number, NEW id \in b.ids,
               ~Replaced(batches, b, id)
        PROVE  [id |-> id, time |-> b.time, value |-> b.number] \in cleaned.values
    <3>1. row \in tables.values
      BY <1>2
    <3>2. PICK c \in batches : row \in Rows(c)
      BY <3>1 DEF Sound, Origin
    <3>3. c = b /\ row.time = b.time
      BY <2>1, <3>2 DEF Rows, Numbered
    <3>4. [id |-> id, time |-> b.time, value |-> b.number] \in tables.values
      BY <2>1, <3>1 DEF Sound, Whole
    <3>5. CASE cleaned.values = tables.values
      BY <3>4, <3>5
    <3>6. CASE cleaned.values = {r \in tables.values : ~Outside(r.time)}
      <4>1. ~Outside(b.time)
        BY <2>1, <3>3, <3>6
      <4>2. QED
        BY <3>4, <3>6, <4>1
    <3>7. QED
      BY <1>1, <3>5, <3>6
  <2>2. QED
    BY <2>1 DEF Whole
<1>6. Keeps(cleaned, batches, clock)
  <2>1. ASSUME NEW b \in batches, b.committed, ~(b.time + StorageTime < clock)
        PROVE  Held(cleaned, b)
    <3>1. Held(tables, b) /\ ~Outside(b.time)
      BY <2>1 DEF Sound, Keeps, Outside
    <3>2. ASSUME NEW id \in b.ids
          PROVE  \E row \in cleaned.values : row.id = id /\ row.time = b.time /\ row.value >= b.number
      BY <1>2, <3>1, <3>2 DEF Held
    <3>3. ASSUME b.ids = {}
          PROVE  [time |-> b.time, message |-> b.number] \in cleaned.messages
      BY <1>3, <3>1, <3>3 DEF Held
    <3>4. QED
      BY <3>2, <3>3 DEF Held
  <2>2. QED
    BY <2>1 DEF Keeps
<1>7. QED
  BY <1>4, <1>5, <1>6 DEF Sound

-----------------------------------------------------------------------------

StorageInv == Numbered(batches, stored) /\ Sound(disk, batches, clock) /\ Sound(view, batches, clock)

\* A table is sound with the call that is about to be recorded.
SoundWith(tables, ids, time) ==
  \A x \in Batches : x.number = stored + 1 /\ x.ids = ids /\ x.time = time =>
    Sound(tables, batches \cup {x}, clock)

\* A call that rolls back or commits a table that is sound with it.
LEMMA CallSound ==
  ASSUME StorageTypeOK, StorageInv, stored < MaxBatches, UNCHANGED clock,
         NEW tables, NEW ids \in SUBSET LoggedIds, NEW time \in 0 .. LastTime, NEW result \in BOOLEAN,
         Record(ids, time, result),
         (Rollback /\ ~result) \/ Commit(tables),
         SoundWith(tables, ids, time)
  PROVE  StorageInv'
<1> DEFINE c == result /\ disk' = view' /\ faults' = faults
           x == [number |-> stored + 1, ids |-> ids, time |-> time, committed |-> c]
<1>1. batches' = batches \cup {x} /\ stored' = stored + 1 /\ c \in BOOLEAN
  BY DEF Record
<1>2. stored \in Nat /\ faults \in Nat /\ clock \in Nat /\ disk \in Tables /\ stored + 1 \in 1 .. MaxBatches
  BY StorageAssumption DEF StorageTypeOK
<1>3. x \in Batches /\ x.number = stored + 1 /\ x.ids = ids /\ x.time = time /\ (x.committed <=> c)
  <2> HIDE DEF c
  <2> QED
    BY <1>1, <1>2 DEF Batches
<1>4. c => result /\ disk' = view' /\ faults' = faults
  OBVIOUS
<1> HIDE DEF x, c
<1>5. Numbered(batches \cup {x}, stored + 1)
  <2>1. \A b \in batches : b.number \in Nat /\ b.number <= stored
    BY DEF StorageInv, Numbered, Batches
  <2>2. QED
    BY <1>2, <1>3, <2>1 DEF StorageInv, Numbered
<1>6. ~c => Sound(disk, batches \cup {x}, clock)
  BY <1>2, <1>3, SoundWithCall DEF StorageInv
<1>7. Sound(tables, batches \cup {x}, clock)
  BY <1>3 DEF SoundWith
<1>8. (disk' = disk => ~c \/ disk' = tables) /\ disk' \in {disk, tables} /\ view' \in {disk, tables}
      /\ (view' = disk => ~c \/ view' = tables)
  <2>1. CASE Rollback /\ ~result
    BY <1>4, <2>1 DEF Rollback
  <2>2. CASE Commit(tables)
    <3>1. CASE disk' = tables /\ view' = tables
      BY <3>1
    <3>2. CASE faults' = faults + 1 /\ disk' = disk /\ view' \in {disk, tables}
      BY <1>2, <1>4, <3>2
    <3>3. QED
      BY <2>2, <3>1, <3>2 DEF Commit
  <2>3. QED
    BY <2>1, <2>2
<1>9. Sound(disk', batches', clock') /\ Sound(view', batches', clock')
  BY <1>1, <1>6, <1>7, <1>8
<1>10. QED
  BY <1>1, <1>5, <1>9 DEF StorageInv

\* Both tables stay sound through every sequence of calls, failures, crashes
\* and clean-ups.
THEOREM StorageStaysSound == StorageSpec => []StorageInv
<1>1. StorageInit => StorageInv
  BY StorageAssumption DEF StorageInit, StorageInv, Numbered, Sound, Origin, Whole, Keeps
<1>2. StorageTypeOK /\ StorageInv /\ [StorageNext]_storageVars => StorageInv'
  <2> SUFFICES ASSUME StorageTypeOK, StorageInv, [StorageNext]_storageVars
               PROVE  StorageInv'
    OBVIOUS
  <2>0. /\ clock \in Nat /\ clock \in 0 .. LastTime /\ stored \in Nat
        /\ disk \in Tables /\ view \in Tables
    BY StorageAssumption DEF StorageTypeOK
  <2>1. ASSUME NEW ids \in (SUBSET LoggedIds) \ {{}}, StorePropertyValues(ids)
        PROVE  StorageInv'
    <3> DEFINE tables == Insert(view, ids, clock, stored + 1)
    <3>1. ASSUME NEW x \in Batches, x.number = stored + 1, x.ids = ids, x.time = clock
          PROVE  Sound(tables, batches \cup {x}, clock)
      BY <2>0, <3>1, SoundWithRows DEF StorageInv
    <3>2. \/ Rollback /\ Record(ids, clock, FALSE)
          \/ Commit(tables) /\ Record(ids, clock, TRUE)
      BY <2>1 DEF StorePropertyValues
    <3>3. stored < MaxBatches /\ UNCHANGED clock
      BY <2>1 DEF StorePropertyValues
    <3> HIDE DEF tables
    <3>4. SoundWith(tables, ids, clock)
      BY <3>1 DEF SoundWith
    <3>5. CASE Rollback /\ Record(ids, clock, FALSE)
      BY <2>0, <3>3, <3>4, <3>5, CallSound
    <3>6. CASE Commit(tables) /\ Record(ids, clock, TRUE)
      BY <2>0, <3>3, <3>4, <3>6, CallSound
    <3>7. QED
      BY <3>2, <3>5, <3>6
  <2>2. ASSUME NEW time \in 0 .. clock, StoreDeviceMessage(time)
        PROVE  StorageInv'
    <3> DEFINE tables == IF Outside(time) THEN view ELSE InsertMessage(view, time, stored + 1)
    <3>1. time \in 0 .. LastTime /\ {} \in SUBSET LoggedIds
      BY <2>0, StorageAssumption
    <3>2. ASSUME NEW x \in Batches, x.number = stored + 1, x.ids = {}, x.time = time
          PROVE  Sound(tables, batches \cup {x}, clock)
      <4>1. CASE Outside(time)
        BY <2>0, <3>2, <4>1, SoundWithCall DEF StorageInv, Outside
      <4>2. CASE ~Outside(time)
        <5>1. Sound(InsertMessage(view, time, stored + 1), batches, clock)
          BY <2>0, SoundWithMessage DEF StorageInv
        <5>2. InsertMessage(view, time, stored + 1) \in Tables
          <6>1. stored + 1 \in 1 .. MaxBatches
            BY <2>0, <2>2, StorageAssumption DEF StoreDeviceMessage
          <6>2. QED
            BY <2>0, <3>1, <6>1 DEF InsertMessage, Tables
        <5>3. Held(InsertMessage(view, time, stored + 1), x)
          BY <2>0, <3>2 DEF Held, InsertMessage, Tables
        <5>4. QED
          BY <2>0, <3>2, <4>2, <5>1, <5>2, <5>3, SoundWithCall DEF StorageInv
      <4>3. QED
        BY <4>1, <4>2
    <3>3. \/ Rollback /\ Record({}, time, FALSE)
          \/ Commit(tables) /\ Record({}, time, TRUE)
      BY <2>2 DEF StoreDeviceMessage
    <3>4. stored < MaxBatches /\ UNCHANGED clock
      BY <2>2 DEF StoreDeviceMessage
    <3> HIDE DEF tables
    <3>5. SoundWith(tables, {}, time)
      BY <3>2 DEF SoundWith
    <3>6. CASE Rollback /\ Record({}, time, FALSE)
      BY <3>1, <3>4, <3>5, <3>6, CallSound
    <3>7. CASE Commit(tables) /\ Record({}, time, TRUE)
      BY <3>1, <3>4, <3>5, <3>7, CallSound
    <3>8. QED
      BY <3>3, <3>6, <3>7
  <2>3. CASE TimerEvent
    <3>1. PICK tables \in Cleaned(view) : view' = tables /\ disk' = IF inTransaction THEN disk ELSE tables
      BY <2>3 DEF TimerEvent, CleanUp
    <3>2. Sound(tables, batches, clock)
      BY <2>0, SoundCleaned DEF StorageInv
    <3>3. disk' \in {disk, tables} /\ UNCHANGED <<clock, batches, stored>>
      BY <2>3, <3>1 DEF TimerEvent
    <3>4. QED
      BY <3>1, <3>2, <3>3 DEF StorageInv
  <2>4. CASE Close
    BY <2>4 DEF Close, StorageInv
  <2>5. CASE Open
    <3>1. PICK tables \in Cleaned(view) : view' = tables /\ disk' = IF inTransaction THEN disk ELSE tables
      BY <2>5 DEF Open, CleanUp
    <3>2. Sound(tables, batches, clock)
      BY <2>0, SoundCleaned DEF StorageInv
    <3>3. disk' \in {disk, tables} /\ UNCHANGED <<clock, batches, stored>>
      BY <2>5, <3>1 DEF Open
    <3>4. QED
      BY <3>1, <3>2, <3>3 DEF StorageInv
  <2>6. CASE Tick
    <3>1. ASSUME NEW tables, Sound(tables, batches, clock)
          PROVE  Sound(tables, batches, clock + 1)
      <4>1. \A b \in batches : b.time + StorageTime < clock => b.time + StorageTime < clock + 1
        BY <2>0, StorageAssumption DEF StorageInv, Numbered, Batches
      <4>2. QED
        BY <3>1, <4>1 DEF Sound, Keeps
    <3>2. QED
      BY <2>6, <3>1 DEF Tick, StorageInv
  <2>7. CASE UNCHANGED storageVars
    BY <2>7 DEF storageVars, StorageInv
  <2>8. QED
    BY <2>1, <2>2, <2>3, <2>4, <2>5, <2>6, <2>7 DEF StorageNext
<1>3. QED
  BY <1>1, <1>2, StorageTypeCorrect, PTL DEF StorageSpec

\* A batch of values is in the data base with all its ids or with none, but
\* for what a later batch of the same second has replaced.
THEOREM BatchesStayWhole == StorageSpec => []BatchesAreWhole
<1>1. StorageInv => BatchesAreWhole
  <2> SUFFICES ASSUME StorageInv, NEW b \in batches, NEW tables \in {disk, view},
                      NEW row \in tables.values, row.value = b.number, NEW id \in b.ids,
                      id \notin {r.id : r \in {s \in tables.values : s.value = b.number}}
               PROVE  Replaced(batches, b, id)
    BY DEF BatchesAreWhole, Replaced
  <2>1. Whole(tables, batches)
    BY DEF StorageInv, Sound
  <2>2. [id |-> id, time |-> b.time, value |-> b.number] \notin tables.values
    OBVIOUS
  <2>3. QED
    BY <2>1, <2>2 DEF Whole
<1>2. QED
  BY <1>1, StorageStaysSound, PTL

\* What a successful commit wrote stays until it is older than the storage time.
THEOREM CommittedStays == StorageSpec => []CommittedIsKept
<1>1. StorageInv => CommittedIsKept
  BY DEF StorageInv, Sound, Keeps, Held, CommittedIsKept, Outside
<1>2. QED
  BY <1>1, StorageStaysSound, PTL

-----------------------------------------------------------------------------
(* The answers                                                              *)

\* Rows of different times are finitely many, at most one for each time.
LEMMA RowsByTime ==
  ASSUME NEW S, NEW a \in Nat, NEW b \in Nat, a <= b + 1,
         \A r \in S : r.time \in a .. b,
         \A r, s \in S : r.time = s.time => r = s
  PROVE  IsFiniteSet(S) /\ Cardinality(S) <= b - a + 1
<1> DEFINE f == [r \in S |-> r.time]
<1>1. f \in Injection(S, a .. b)
  BY DEF Injection, IsInjective
<1>2. IsFiniteSet(a .. b) /\ Cardinality(a .. b) = b - a + 1
  BY FS_Interval
<1>3. IsFiniteSet(S) /\ Cardinality(S) <= Cardinality(a .. b)
  BY <1>1, <1>2, FS_Injection
<1>4. QED
  BY <1>2, <1>3

\* Some row is the newest.
LEMMA NewestRow ==
  ASSUME NEW S, S # {}, NEW last \in Nat, \A r \in S : r.time \in 0 .. last
  PROVE  \E r \in S : \A s \in S : s.time <= r.time
<1> DEFINE ages == {last - r.time : r \in S}
<1>1. ages \in SUBSET Nat /\ ages # {}
  OBVIOUS
<1>2. Min(ages) \in ages /\ \A age \in ages : Min(ages) <= age
  BY <1>1, FirstPosition
<1>3. PICK r \in S : Min(ages) = last - r.time
  BY <1>2
<1>4. ASSUME NEW s \in S
      PROVE  s.time <= r.time
  <2>1. last - r.time <= last - s.time
    BY <1>2, <1>3
  <2>2. r.time \in Int /\ s.time \in Int
    OBVIOUS
  <2>3. QED
    BY <2>1, <2>2
<1>5. QED
  BY <1>4

\* What can be retrieved is available and known, not older than the storage
\* time, and a limit leaves out older values only.
THEOREM AnswersAlwaysAgree == StorageSpec => []AnswersAgree
<1>1. StorageTypeOK => AnswersAgree
  <2> SUFFICES ASSUME StorageTypeOK, NEW from \in 0 .. LastTime, NEW to \in 0 .. LastTime, NEW id \in LoggedIds
               PROVE  LET all == RetrievePropertyValues(id, from, to, LastTime + 1)
                          one == RetrievePropertyValues(id, from, to, 1)
                      IN  /\ (all # {}) <=> id \in AvailableStoredProperties(from, to)
                          /\ all # {} => RetrieveStatus(id, from, to, 1) = "Success"
                          /\ \A row \in all : ~Outside(row.time)
                          /\ (one # {}) <=> (all # {})
                          /\ \A new \in one, row \in all : new.time >= row.time
    BY DEF AnswersAgree
  <2> DEFINE S == {row \in view.values : row.id = id /\ InRange(row, from, to)}
             newer(row) == {r \in S : r.time > row.time}
             all == RetrievePropertyValues(id, from, to, LastTime + 1)
             one == RetrievePropertyValues(id, from, to, 1)
  <2>1. all = {row \in S : Cardinality(newer(row)) < LastTime + 1} /\ one = {row \in S : Cardinality(newer(row)) < 1}
    BY DEF RetrievePropertyValues, Newest
  <2>2. LastTime \in Nat
    BY StorageAssumption
  <2>3. /\ \A r \in view.values : r.time \in 0 .. LastTime
        /\ \A r, s \in view.values : r.id = s.id /\ r.time = s.time => r = s
    BY DEF StorageTypeOK, Tables
  <2>4. /\ \A r \in S : r.time \in 0 .. LastTime /\ ~Outside(r.time)
        /\ \A r, s \in S : r.time = s.time => r = s
        /\ S # {} => \E r \in view.values : r.id = id
        /\ (S # {}) <=> id \in AvailableStoredProperties(from, to)
    BY <2>3 DEF AvailableStoredProperties, InRange
  <2> HIDE DEF S, all, one
  <2>5. ASSUME NEW row \in S
        PROVE  IsFiniteSet(newer(row)) /\ Cardinality(newer(row)) < LastTime + 1
    <3> DEFINE N == newer(row)
    <3>1. \A r \in N : r.time \in 1 .. LastTime
      BY <2>4
    <3>2. \A r, s \in N : r.time = s.time => r = s
      BY <2>4
    <3> HIDE DEF N
    <3>3. IsFiniteSet(N) /\ Cardinality(N) <= LastTime - 1 + 1
      BY <2>2, <3>1, <3>2, RowsByTime
    <3>4. Cardinality(N) \in Nat
      BY <3>3, FS_CardinalityType
    <3>5. QED
      BY <2>2, <3>3, <3>4 DEF N
  <2>6. all = S
    BY <2>1, <2>5
  <2>7. ASSUME NEW row \in one
        PROVE  row \in S /\ newer(row) = {}
    <3>1. row \in S /\ Cardinality(newer(row)) < 1
      BY <2>1
    <3>2. IsFiniteSet(newer(row)) /\ Cardinality(newer(row)) \in Nat
      BY <2>5, <3>1, FS_CardinalityType
    <3>3. Cardinality(newer(row)) = 0
      BY <3>1, <3>2
    <3>4. QED
      BY <3>1, <3>2, <3>3, FS_EmptySet
  <2>8. S # {} => one # {}
    <3>1. SUFFICES ASSUME S # {}
                   PROVE  one # {}
      OBVIOUS
    <3>2. PICK r \in S : \A s \in S : s.time <= r.time
      BY <2>2, <2>4, <3>1, NewestRow
    <3>3. newer(r) = {}
      BY <2>4, <3>2
    <3>4. Cardinality(newer(r)) < 1
      BY <3>3, FS_EmptySet
    <3>5. QED
      BY <2>1, <3>4
  <2>9. \A new \in one, row \in S : new.time >= row.time
    <3> SUFFICES ASSUME NEW new \in one, NEW row \in S
                 PROVE  new.time >= row.time
      OBVIOUS
    <3>1. new \in S /\ row \notin newer(new)
      BY <2>7
    <3>2. new.time \in 0 .. LastTime /\ row.time \in 0 .. LastTime
      BY <2>4, <3>1
    <3>3. QED
      BY <3>1, <3>2
  <2>10. all # {} => RetrieveStatus(id, from, to, 1) = "Success"
    BY <2>4, <2>6 DEF RetrieveStatus
  <2>11. QED
    BY <2>4, <2>6, <2>7, <2>8, <2>9, <2>10 DEF all, one
<1>2. QED
  BY <1>1, StorageTypeCorrect, PTL

-----------------------------------------------------------------------------
(* Web storage                                                              *)

\* All spellings of a key have one column, and the empty key has its own.
LEMMA ColumnsOfKeys ==
  ASSUME NEW key \in Keys
  PROVE  /\ Column(key) \in {Column(k) : k \in Keys}
         /\ \A k \in SameColumn(key) : k \in Keys /\ Column(k) = Column(key)
         /\ \A k \in Keys : k \notin SameColumn(key) => Column(k) # Column(key)
BY DEF SameColumn

WebInv ==
  /\ rows \in [{Column(k) : k \in Keys} -> Bodies \cup {NoBody}]
  /\ latest \in [Keys -> Bodies \cup {NoBody}]
  /\ \A key \in Keys : rows[Column(key)] = latest[key]

\* Any client that reads a key of the web storage by any of its spellings
\* gets the body of the last write that was reported as done.
THEOREM LatestIsRead == WebSpec => []ReadsLatest
<1>1. WebInit => WebInv
  BY DEF WebInit, WebInv
<1>2. WebInv /\ [WebNext]_webVars => WebInv'
  <2> SUFFICES ASSUME WebInv, [WebNext]_webVars
               PROVE  WebInv'
    OBVIOUS
  <2>1. ASSUME NEW key \in Keys, NEW body \in Bodies \cup {NoBody}, Write(key, body)
        PROVE  WebInv'
    <3>1. CASE UNCHANGED <<rows, latest>>
      BY <3>1 DEF WebInv
    <3>2. CASE /\ rows' = [rows EXCEPT ![Column(key)] = body]
               /\ latest' = [k \in Keys |-> IF k \in SameColumn(key) THEN body ELSE latest[k]]
      BY <3>2, ColumnsOfKeys DEF WebInv
    <3>3. QED
      BY <2>1, <3>1, <3>2 DEF Write
  <2>2. CASE UNCHANGED webVars
    BY <2>2 DEF webVars, WebInv
  <2>3. QED
    BY <2>1, <2>2 DEF WebNext
<1>3. WebInv => ReadsLatest
  BY DEF WebInv, ReadsLatest, Read
<1>4. QED
  BY <1>1, <1>2, <1>3, PTL DEF WebSpec

-----------------------------------------------------------------------------
(* The file of users                                                        *)

Line == Users \cup Torn
Kinds == {"add", "password", "level", "remove"}

\* What a program may be doing.
Idle == [stage : {"none"}]
Asking == [stage : {"asking", "called"}, user : Users, kind : Kinds]
Loaded == [stage : {"loaded"}, user : Users, kind : Kinds, users : Seq(Line)]
Writing == [stage : {"writing"}, user : Users, kind : Kinds, users : Seq(Line), written : Nat]

UserFileTyped ==
  /\ file \in Seq(Line)
  /\ call \in [Programs -> Idle \cup Asking \cup Loaded \cup Writing]
  /\ kills \in Nat
  /\ expected \in SUBSET Users
  /\ disturbed \in BOOLEAN

\* Every level in a list is one that was given to that name.
Granted(list, given) ==
  \A i \in DOMAIN list :
    list[i].level # NoLevel => [name |-> list[i].name, level |-> list[i].level] \in given

Changing(program) == call[program].stage \in {"loaded", "writing"}

LevelInv ==
  /\ Granted(file, granted)
  /\ \A program \in Programs : Changing(program) => Granted(call[program].users, granted)

\* A list that loads and holds the users, all of them if no program died.
Exact(list, users, complete) ==
  /\ list \in Seq(Users)
  /\ ToSet(list) \subseteq users
  /\ complete => ToSet(list) = users
  /\ \A i \in DOMAIN list : list[i].name \notin SplitNames
  /\ \A i, j \in DOMAIN list : list[i].name = list[j].name => i = j

Undisturbed ==
  /\ \A p, q \in Programs : Changing(p) /\ Changing(q) => p = q
  /\ (\A p \in Programs : call[p].stage # "writing") => Exact(file, expected, kills = 0)
  /\ \A p \in Programs : Changing(p) =>
        Exact(call[p].users, Effect(expected, call[p].user, call[p].kind), kills = 0)
  /\ \A p \in Programs : call[p].stage = "writing" =>
        /\ call[p].written <= Len(call[p].users)
        /\ file = SubSeq(call[p].users, 1, call[p].written)

UserFileInv == UserFileTyped /\ LevelInv /\ (~disturbed => Undisturbed)

\* What findByUsername looks for.
Found(list, name) ==
  LET I == {i \in 1 .. Len(list) : list[i].name = name}
  IN  IF I # {} THEN Min(I) ELSE 0

\* It finds a user of the name, if there is one.
LEMMA FindByUsername ==
  ASSUME NEW list \in Seq(Line), NEW name
  PROVE  IF HasUser(list, name)
         THEN Found(list, name) \in 1 .. Len(list) /\ list[Found(list, name)].name = name
         ELSE Found(list, name) = 0
<1> DEFINE I == {i \in 1 .. Len(list) : list[i].name = name}
<1>1. Found(list, name) = IF I # {} THEN Min(I) ELSE 0
  BY DEF Found
<1>2. HasUser(list, name) <=> I # {}
  BY DEF HasUser
<1>3. I \in SUBSET Nat
  OBVIOUS
<1>4. I # {} => Min(I) \in I
  BY <1>3, FirstPosition
<1>5. QED
  BY <1>1, <1>2, <1>4

\* A line with the name of a user is a user's.
LEMMA LineOfUser ==
  ASSUME NEW line \in Line
  PROVE  /\ line.name \in UserNames => line \in Users
         /\ line = [name |-> line.name, password |-> line.password, level |-> line.level]
BY UserFileAssumption DEF Line, Users, Torn

\* What a change makes of the list, by its positions.
LEMMA AlteredByPosition ==
  ASSUME NEW list \in Seq(Line), NEW user \in Users, NEW kind \in Kinds,
         HasUser(list, user.name) <=> kind # "add"
  PROVE  LET altered == Altered(list, user, kind)
         IN  /\ altered \in Seq(Line)
             /\ kind = "add" => altered = Append(list, user)
             /\ kind # "add" => \E at \in 1 .. Len(list) :
                  /\ list[at].name = user.name /\ list[at] \in Users
                  /\ kind = "password" => altered = [list EXCEPT ![at] = [list[at] EXCEPT !.password = user.password]]
                  /\ kind = "level" => altered = [list EXCEPT ![at] = [list[at] EXCEPT !.level = user.level]]
                  /\ kind = "remove" =>
                       /\ Len(altered) = Len(list) - 1
                       /\ \A i \in 1 .. Len(list) - 1 : altered[i] = list[IF i < at THEN i ELSE i + 1]
<1> DEFINE at == SelectInSeq(list, LAMBDA u : u.name = user.name)
           altered == Altered(list, user, kind)
<1>1. kind # "add" => at \in 1 .. Len(list) /\ list[at].name = user.name
  <2>1. at = Found(list, user.name)
    BY DEF SelectInSeq, Found
  <2>2. QED
    BY <2>1, FindByUsername
<1>2. /\ kind = "add" => altered = Append(list, user)
      /\ kind = "password" => altered = [list EXCEPT ![at].password = user.password]
      /\ kind = "level" => altered = [list EXCEPT ![at].level = user.level]
      /\ kind = "remove" => altered = RemoveAt(list, at)
  BY DEF Altered, Kinds
<1> HIDE DEF at, altered
<1>3. CASE kind = "add"
  BY <1>2, <1>3 DEF Line, altered
<1>4. CASE kind # "add"
  <2>1. at \in 1 .. Len(list) /\ list[at].name = user.name
    BY <1>1, <1>4
  <2>2. list[at] \in Users
    BY <2>1, LineOfUser DEF Users
  <2>3. CASE kind = "password"
    <3>1. altered = [list EXCEPT ![at] = [list[at] EXCEPT !.password = user.password]]
      BY <1>2, <2>1, <2>3
    <3>2. [list[at] EXCEPT !.password = user.password] \in Line
      BY <2>2 DEF Users, Line
    <3>3. altered \in Seq(Line)
      BY <2>1, <3>1, <3>2
    <3>4. QED
      BY <2>1, <2>2, <2>3, <3>1, <3>3 DEF altered
  <2>4. CASE kind = "level"
    <3>1. altered = [list EXCEPT ![at] = [list[at] EXCEPT !.level = user.level]]
      BY <1>2, <2>1, <2>4
    <3>2. [list[at] EXCEPT !.level = user.level] \in Line
      BY <2>2 DEF Users, Line
    <3>3. altered \in Seq(Line)
      BY <2>1, <3>1, <3>2
    <3>4. QED
      BY <2>1, <2>2, <2>4, <3>1, <3>3 DEF altered
  <2>5. CASE kind = "remove"
    <3>1. altered = SubSeq(list, 1, at - 1) \o SubSeq(list, at + 1, Len(list))
      BY <1>2, <2>5 DEF RemoveAt
    <3>2. /\ SubSeq(list, 1, at - 1) \in Seq(Line) /\ SubSeq(list, at + 1, Len(list)) \in Seq(Line)
          /\ Len(SubSeq(list, 1, at - 1)) = at - 1
          /\ Len(SubSeq(list, at + 1, Len(list))) = Len(list) - at
          /\ \A i \in 1 .. at - 1 : SubSeq(list, 1, at - 1)[i] = list[i]
          /\ \A i \in 1 .. Len(list) - at : SubSeq(list, at + 1, Len(list))[i] = list[at + i]
      BY <2>1, SubSeqProperties
    <3> DEFINE front == SubSeq(list, 1, at - 1)
               back == SubSeq(list, at + 1, Len(list))
    <3> HIDE DEF front, back
    <3>3. /\ altered = front \o back
          /\ front \in Seq(Line) /\ back \in Seq(Line)
          /\ Len(front) = at - 1 /\ Len(back) = Len(list) - at
          /\ \A i \in 1 .. at - 1 : front[i] = list[i]
          /\ \A i \in 1 .. Len(list) - at : back[i] = list[at + i]
      BY <3>1, <3>2 DEF front, back
    <3>4. /\ altered \in Seq(Line) /\ Len(altered) = Len(front) + Len(back)
          /\ \A i \in 1 .. Len(front) + Len(back) :
               altered[i] = IF i <= Len(front) THEN front[i] ELSE back[i - Len(front)]
      BY <3>3, ConcatProperties
    <3>5. Len(altered) = Len(list) - 1
      BY <2>1, <3>3, <3>4
    <3>6. ASSUME NEW i \in 1 .. Len(list) - 1
          PROVE  altered[i] = list[IF i < at THEN i ELSE i + 1]
      <4>1. CASE i < at
        BY <2>1, <3>3, <3>4, <4>1
      <4>2. CASE ~(i < at)
        <5>1. i - (at - 1) \in 1 .. Len(list) - at /\ at + (i - (at - 1)) = i + 1 /\ ~(i <= at - 1)
          BY <2>1, <4>2
        <5>2. altered[i] = back[i - (at - 1)]
          BY <2>1, <3>3, <3>4, <5>1
        <5>3. QED
          BY <3>3, <4>2, <5>1, <5>2
      <4>3. QED
        BY <4>1, <4>2
    <3>7. QED
      BY <2>1, <2>2, <2>5, <3>4, <3>5, <3>6 DEF altered
  <2>6. QED
    BY <1>4, <2>3, <2>4, <2>5 DEF Kinds
<1>5. QED
  BY <1>3, <1>4

\* A change gives a user no level but the one it was called with.
LEMMA AlteredGranted ==
  ASSUME NEW list \in Seq(Line), NEW user \in Users, NEW kind \in Kinds, NEW given,
         HasUser(list, user.name) <=> kind # "add",
         Granted(list, given),
         kind \in {"add", "level"} => [name |-> user.name, level |-> user.level] \in given
  PROVE  Granted(Altered(list, user, kind), given)
<1> DEFINE altered == Altered(list, user, kind)
<1>1. /\ altered \in Seq(Line)
      /\ kind = "add" => altered = Append(list, user)
      /\ kind # "add" => \E at \in 1 .. Len(list) :
           /\ list[at].name = user.name /\ list[at] \in Users
           /\ kind = "password" => altered = [list EXCEPT ![at] = [list[at] EXCEPT !.password = user.password]]
           /\ kind = "level" => altered = [list EXCEPT ![at] = [list[at] EXCEPT !.level = user.level]]
           /\ kind = "remove" =>
                /\ Len(altered) = Len(list) - 1
                /\ \A i \in 1 .. Len(list) - 1 : altered[i] = list[IF i < at THEN i ELSE i + 1]
  BY AlteredByPosition
<1> HIDE DEF altered
<1> SUFFICES Granted(altered, given)
  BY DEF altered
<1> SUFFICES ASSUME NEW i \in 1 .. Len(altered), altered[i].level # NoLevel
             PROVE  [name |-> altered[i].name, level |-> altered[i].level] \in given
  <2>1. DOMAIN altered = 1 .. Len(altered)
    BY <1>1
  <2>2. QED
    BY <2>1 DEF Granted
<1>2. \A j \in 1 .. Len(list) :
        list[j].level # NoLevel => [name |-> list[j].name, level |-> list[j].level] \in given
  BY DEF Granted
<1>3. CASE kind = "add"
  <2>1. altered[i] = user \/ (i \in 1 .. Len(list) /\ altered[i] = list[i])
    BY <1>1, <1>3
  <2>2. QED
    BY <1>2, <1>3, <2>1
<1>4. CASE kind # "add"
  <2>1. PICK at \in 1 .. Len(list) :
           /\ list[at].name = user.name /\ list[at] \in Users
           /\ kind = "password" => altered = [list EXCEPT ![at] = [list[at] EXCEPT !.password = user.password]]
           /\ kind = "level" => altered = [list EXCEPT ![at] = [list[at] EXCEPT !.level = user.level]]
           /\ kind = "remove" =>
                /\ Len(altered) = Len(list) - 1
                /\ \A k \in 1 .. Len(list) - 1 : altered[k] = list[IF k < at THEN k ELSE k + 1]
    BY <1>1, <1>4
  <2>2. CASE kind = "password"
    <3> DEFINE new == [list[at] EXCEPT !.password = user.password]
    <3>1. new.name = list[at].name /\ new.level = list[at].level
      BY <2>1 DEF Users
    <3> HIDE DEF new
    <3>2. i \in 1 .. Len(list) /\ altered[i] = IF i = at THEN new ELSE list[i]
      BY <2>1, <2>2 DEF new
    <3>3. QED
      BY <1>2, <3>1, <3>2
  <2>3. CASE kind = "level"
    <3> DEFINE new == [list[at] EXCEPT !.level = user.level]
    <3>1. new.name = user.name /\ new.level = user.level
      BY <2>1 DEF Users
    <3> HIDE DEF new
    <3>2. i \in 1 .. Len(list) /\ altered[i] = IF i = at THEN new ELSE list[i]
      BY <2>1, <2>3 DEF new
    <3>3. QED
      BY <1>2, <2>3, <3>1, <3>2
  <2>4. CASE kind = "remove"
    <3>1. PICK k \in 1 .. Len(list) : altered[i] = list[k]
      <4>1. i \in 1 .. Len(list) - 1 /\ altered[i] = list[IF i < at THEN i ELSE i + 1]
        BY <2>1, <2>4
      <4>2. (IF i < at THEN i ELSE i + 1) \in 1 .. Len(list)
        BY <4>1
      <4>3. QED
        BY <4>1, <4>2
    <3>2. QED
      BY <1>2, <3>1
  <2>5. QED
    BY <1>4, <2>2, <2>3, <2>4 DEF Kinds
<1>5. QED
  BY <1>3, <1>4

\* A user who is the only one of the name is replaced.
LEMMA ReplacedExact ==
  ASSUME NEW users \in SUBSET Users, NEW complete \in BOOLEAN, NEW list, Exact(list, users, complete),
         NEW at \in 1 .. Len(list), NEW new \in Users, new.name = list[at].name,
         NEW effect,
         new \in effect,
         \A u \in users : u.name # new.name => u \in effect,
         \A e \in effect : (e \in users /\ e.name # new.name) \/ (list[at] \in users /\ e = new)
                              \/ (\E u \in users : u.name = new.name /\ u # list[at])
  PROVE  Exact([list EXCEPT ![at] = new], effect, complete)
<1> DEFINE after == [list EXCEPT ![at] = new]
<1>1. /\ list \in Seq(Users)
      /\ ToSet(list) = {list[i] : i \in 1 .. Len(list)}
      /\ ToSet(list) \subseteq users
      /\ complete => ToSet(list) = users
      /\ \A i \in 1 .. Len(list) : list[i].name \notin SplitNames
      /\ \A i, j \in 1 .. Len(list) : list[i].name = list[j].name => i = j
  BY ToSetByPosition DEF Exact
<1>2. after \in Seq(Users) /\ DOMAIN after = 1 .. Len(list) /\ Len(after) = Len(list)
  BY <1>1
<1>3. \A i \in 1 .. Len(list) : after[i] = IF i = at THEN new ELSE list[i]
  BY <1>1
<1>4. ToSet(after) = {after[i] : i \in 1 .. Len(list)}
  BY <1>2, ToSetByPosition
<1> HIDE DEF after
<1>5. ToSet(after) \subseteq effect
  <2> SUFFICES ASSUME NEW i \in 1 .. Len(list)
               PROVE  after[i] \in effect
    BY <1>4
  <2>1. CASE i = at
    BY <1>3, <2>1
  <2>2. CASE i # at
    BY <1>1, <1>3, <2>2
  <2>3. QED
    BY <2>1, <2>2
<1>6. ASSUME complete
      PROVE  effect \subseteq ToSet(after)
  <2> SUFFICES ASSUME NEW e \in effect
               PROVE  e \in ToSet(after)
    OBVIOUS
  <2>1. CASE e \in users /\ e.name # new.name
    <3>1. PICK i \in 1 .. Len(list) : e = list[i]
      BY <1>1, <1>6, <2>1
    <3>2. i # at
      BY <2>1, <3>1
    <3>3. QED
      BY <1>3, <1>4, <3>1, <3>2
  <2>2. CASE e = new
    BY <1>3, <1>4, <2>2
  <2>3. CASE \E u \in users : u.name = new.name /\ u # list[at]
    BY <1>1, <1>6, <2>3
  <2>4. QED
    BY <2>1, <2>2, <2>3
<1>7. \A i \in 1 .. Len(list) : after[i].name = list[i].name
  BY <1>3
<1>8. QED
  BY <1>1, <1>2, <1>5, <1>6, <1>7, ZenonT(30) DEF Exact, after

\* A user who is the only one of the name is removed.
LEMMA RemovedExact ==
  ASSUME NEW users \in SUBSET Users, NEW complete \in BOOLEAN, NEW list, Exact(list, users, complete),
         NEW at \in 1 .. Len(list), NEW after \in Seq(Line), Len(after) = Len(list) - 1,
         \A i \in 1 .. Len(list) - 1 : after[i] = list[IF i < at THEN i ELSE i + 1]
  PROVE  Exact(after, {u \in users : u.name # list[at].name}, complete)
<1>0. list \in Seq(Users) /\ Len(list) \in Nat /\ DOMAIN list = 1 .. Len(list)
  BY DEF Exact
<1>1. /\ list \in Seq(Users)
      /\ ToSet(list) = {list[i] : i \in 1 .. Len(list)}
      /\ ToSet(list) \subseteq users
      /\ complete => ToSet(list) = users
      /\ \A i \in 1 .. Len(list) : list[i].name \notin SplitNames
      /\ \A i, j \in 1 .. Len(list) : list[i].name = list[j].name => i = j
      /\ Len(list) \in Nat
  BY <1>0, ToSetByPosition DEF Exact
<1> DEFINE n == Len(list)
           from == [i \in 1 .. n - 1 |-> IF i < at THEN i ELSE i + 1]
<1>2. /\ \A i \in 1 .. n - 1 : from[i] \in 1 .. n /\ from[i] # at
      /\ \A i, j \in 1 .. n - 1 : from[i] = from[j] => i = j
      /\ \A k \in 1 .. n : k # at => \E i \in 1 .. n - 1 : from[i] = k
  <2>1. ASSUME NEW i \in 1 .. n - 1
        PROVE  from[i] \in 1 .. n /\ from[i] # at
    BY <1>1
  <2>2. ASSUME NEW i \in 1 .. n - 1, NEW j \in 1 .. n - 1, from[i] = from[j]
        PROVE  i = j
    BY <1>1, <2>2
  <2>3. ASSUME NEW k \in 1 .. n, k # at
        PROVE  \E i \in 1 .. n - 1 : from[i] = k
    <3>1. CASE k < at
      <4>1. k \in 1 .. n - 1 /\ from[k] = k
        BY <1>1, <3>1
      <4>2. QED
        BY <4>1
    <3>2. CASE k > at
      <4>1. k - 1 \in 1 .. n - 1 /\ from[k - 1] = k
        BY <1>1, <3>2
      <4>2. QED
        BY <4>1
    <3>3. QED
      BY <1>1, <2>3, <3>1, <3>2
  <2>4. QED
    BY <2>1, <2>2, <2>3
<1>3. /\ DOMAIN after = 1 .. n - 1
      /\ \A i \in 1 .. n - 1 : after[i] = list[from[i]]
      /\ ToSet(after) = {after[i] : i \in 1 .. n - 1}
  BY <1>1, ToSetByPosition
<1> HIDE DEF n, from
<1>4. \A i \in 1 .. n - 1 : after[i] \in Users
  BY <1>1, <1>2, <1>3 DEF n
<1>5. after \in Seq(Users)
  <2>1. Len(after) = n - 1 /\ \A i \in 1 .. Len(after) : after[i] \in Users
    BY <1>4 DEF n
  <2>2. QED
    BY <2>1
<1> DEFINE effect == {u \in users : u.name # list[at].name}
<1>6. ToSet(after) \subseteq effect
  <2> SUFFICES ASSUME NEW i \in 1 .. n - 1
               PROVE  after[i] \in effect
    BY <1>3
  <2>1. list[from[i]] \in users
    BY <1>1, <1>2 DEF n
  <2>2. list[from[i]].name # list[at].name
    BY <1>1, <1>2 DEF n
  <2>3. QED
    BY <1>3, <2>1, <2>2
<1>7. ASSUME complete
      PROVE  effect \subseteq ToSet(after)
  <2> SUFFICES ASSUME NEW u \in users, u.name # list[at].name
               PROVE  u \in ToSet(after)
    OBVIOUS
  <2>1. PICK k \in 1 .. n : u = list[k]
    BY <1>1, <1>7 DEF n
  <2>2. PICK i \in 1 .. n - 1 : from[i] = k
    BY <1>2, <2>1
  <2>3. QED
    BY <1>3, <2>1, <2>2
<1>8. \A i \in 1 .. n - 1 : after[i].name \notin SplitNames
  <2> SUFFICES ASSUME NEW i \in 1 .. n - 1
               PROVE  list[from[i]].name \notin SplitNames
    BY <1>3
  <2>1. QED
    BY <1>1, <1>2 DEF n
<1>9. \A i, j \in 1 .. n - 1 : after[i].name = after[j].name => i = j
  <2> SUFFICES ASSUME NEW i \in 1 .. n - 1, NEW j \in 1 .. n - 1, list[from[i]].name = list[from[j]].name
               PROVE  i = j
    BY <1>3
  <2>1. from[i] \in 1 .. Len(list) /\ from[j] \in 1 .. Len(list)
    BY <1>2 DEF n
  <2>2. from[i] = from[j]
    BY <1>1, <2>1
  <2>3. QED
    BY <1>2, <2>2
<1>10. QED
  BY <1>3, <1>5, <1>6, <1>7, <1>8, <1>9 DEF Exact

\* A change does to an exact list what is asked for.
LEMMA AlteredExact ==
  ASSUME NEW users \in SUBSET Users, NEW complete \in BOOLEAN, NEW list, Exact(list, users, complete),
         NEW user \in Users, NEW kind \in Kinds,
         HasUser(list, user.name) <=> kind # "add",
         kind = "add" => user.name \notin SplitNames
  PROVE  Exact(Altered(list, user, kind), Effect(users, user, kind), complete)
<1> DEFINE altered == Altered(list, user, kind)
           effect == Effect(users, user, kind)
<1>1. list \in Seq(Users) /\ list \in Seq(Line)
  BY DEF Exact, Line
<1>2. /\ altered \in Seq(Line)
      /\ kind = "add" => altered = Append(list, user)
      /\ kind # "add" => \E at \in 1 .. Len(list) :
           /\ list[at].name = user.name /\ list[at] \in Users
           /\ kind = "password" => altered = [list EXCEPT ![at] = [list[at] EXCEPT !.password = user.password]]
           /\ kind = "level" => altered = [list EXCEPT ![at] = [list[at] EXCEPT !.level = user.level]]
           /\ kind = "remove" =>
                /\ Len(altered) = Len(list) - 1
                /\ \A i \in 1 .. Len(list) - 1 : altered[i] = list[IF i < at THEN i ELSE i + 1]
  BY <1>1, AlteredByPosition, ZenonT(30)
<1>3. /\ kind = "add" => effect = users \cup {user}
      /\ kind = "password" => effect = {IF u.name = user.name THEN [u EXCEPT !.password = user.password]
                                        ELSE u : u \in users}
      /\ kind = "level" => effect = {IF u.name = user.name THEN [u EXCEPT !.level = user.level]
                                     ELSE u : u \in users}
      /\ kind = "remove" => effect = {u \in users : u.name # user.name}
  BY DEF Effect
<1> SUFFICES Exact(altered, effect, complete)
  OBVIOUS
<1> HIDE DEF altered, effect
<1>4. /\ ToSet(list) = {list[i] : i \in 1 .. Len(list)}
      /\ ToSet(list) \subseteq users
      /\ complete => ToSet(list) = users
      /\ \A i \in 1 .. Len(list) : list[i].name \notin SplitNames
      /\ \A i, j \in 1 .. Len(list) : list[i].name = list[j].name => i = j
  BY <1>1, ToSetByPosition DEF Exact
<1>5. CASE kind = "add"
  <2>1. \A i \in 1 .. Len(list) : list[i].name # user.name
    BY <1>1, <1>5 DEF HasUser
  <2>2. /\ altered \in Seq(Users) /\ DOMAIN altered = 1 .. Len(list) + 1
        /\ altered[Len(list) + 1] = user
        /\ \A i \in 1 .. Len(list) : altered[i] = list[i]
        /\ \A i \in 1 .. Len(list) + 1 : i \in 1 .. Len(list) \/ i = Len(list) + 1
    BY <1>1, <1>2, <1>5
  <2>3. ToSet(altered) = ToSet(list) \cup {user}
    BY <1>1, <1>2, <1>5, ToSetAppend, ZenonT(30)
  <2>4. \A i \in DOMAIN altered : altered[i].name \notin SplitNames
    BY <1>4, <1>5, <2>2
  <2>5. \A i, j \in DOMAIN altered : altered[i].name = altered[j].name => i = j
    BY <1>4, <2>1, <2>2
  <2>6. QED
    BY <1>3, <1>4, <1>5, <2>2, <2>3, <2>4, <2>5 DEF Exact
<1>6. CASE kind # "add"
  <2>1. PICK at \in 1 .. Len(list) :
           /\ list[at].name = user.name /\ list[at] \in Users
           /\ kind = "password" => altered = [list EXCEPT ![at] = [list[at] EXCEPT !.password = user.password]]
           /\ kind = "level" => altered = [list EXCEPT ![at] = [list[at] EXCEPT !.level = user.level]]
           /\ kind = "remove" =>
                /\ Len(altered) = Len(list) - 1
                /\ \A k \in 1 .. Len(list) - 1 : altered[k] = list[IF k < at THEN k ELSE k + 1]
    BY <1>2, <1>6
  <2>2. list[at] \in users
    BY <1>4
  <2>3. CASE kind = "password"
    <3> DEFINE new == [list[at] EXCEPT !.password = user.password]
    <3>1. new \in Users /\ new.name = list[at].name
      BY <2>1 DEF Users
    <3>2. new \in effect
      BY <1>3, <2>1, <2>2, <2>3
    <3>3. altered = [list EXCEPT ![at] = new]
      BY <2>1, <2>3
    <3>4. ASSUME NEW e \in effect
          PROVE  (e \in users /\ e.name # new.name) \/ (list[at] \in users /\ e = new)
                   \/ (\E u \in users : u.name = new.name /\ u # list[at])
      <4>1. PICK u \in users : e = IF u.name = user.name THEN [u EXCEPT !.password = user.password] ELSE u
        BY <1>3, <2>3
      <4>2. CASE u.name # user.name
        BY <2>1, <3>1, <4>1, <4>2
      <4>3. CASE u.name = user.name /\ u = list[at]
        BY <2>2, <4>1, <4>3
      <4>4. CASE u.name = user.name /\ u # list[at]
        BY <2>1, <3>1, <4>4
      <4>5. QED
        BY <4>2, <4>3, <4>4
    <3>5. \A u \in users : u.name # new.name => u \in effect
      BY <1>3, <2>1, <2>3, <3>1
    <3> HIDE DEF new
    <3>6. QED
      BY <3>1, <3>2, <3>3, <3>4, <3>5, ReplacedExact
  <2>4. CASE kind = "level"
    <3> DEFINE new == [list[at] EXCEPT !.level = user.level]
    <3>1. new \in Users /\ new.name = list[at].name
      BY <2>1 DEF Users
    <3>2. new \in effect
      BY <1>3, <2>1, <2>2, <2>4
    <3>3. altered = [list EXCEPT ![at] = new]
      BY <2>1, <2>4
    <3>4. ASSUME NEW e \in effect
          PROVE  (e \in users /\ e.name # new.name) \/ (list[at] \in users /\ e = new)
                   \/ (\E u \in users : u.name = new.name /\ u # list[at])
      <4>1. PICK u \in users : e = IF u.name = user.name THEN [u EXCEPT !.level = user.level] ELSE u
        BY <1>3, <2>4
      <4>2. CASE u.name # user.name
        BY <2>1, <3>1, <4>1, <4>2
      <4>3. CASE u.name = user.name /\ u = list[at]
        BY <2>2, <4>1, <4>3
      <4>4. CASE u.name = user.name /\ u # list[at]
        BY <2>1, <3>1, <4>4
      <4>5. QED
        BY <4>2, <4>3, <4>4
    <3>5. \A u \in users : u.name # new.name => u \in effect
      BY <1>3, <2>1, <2>4, <3>1
    <3> HIDE DEF new
    <3>6. QED
      BY <3>1, <3>2, <3>3, <3>4, <3>5, ReplacedExact
  <2>5. CASE kind = "remove"
    BY <1>2, <1>3, <2>1, <2>5, RemovedExact, SMTT(30)
  <2>6. QED
    BY <1>6, <2>3, <2>4, <2>5 DEF Kinds
<1>7. QED
  BY <1>5, <1>6

\* What a writer's line leaves in the file, whatever was there.
LEMMA WrittenLines ==
  ASSUME file \in Seq(Line), NEW program \in Programs, NEW position \in Nat \ {0}, NEW line \in Line,
         NEW after \in Written(program, position, line)
  PROVE  /\ after \in Seq(Line)
         /\ \A i \in 1 .. Len(after) : \/ after[i] = line
                                       \/ after[i].level = NoLevel
                                       \/ \E j \in 1 .. Len(file) : after[i] = file[j]
         /\ Len(file) = position - 1 /\ ~Overlap(program) => after = Append(file, line)
<1> DEFINE stray == CHOOSE t \in Torn : t.name = "stray"
           kept == [i \in 1 .. position - 1 |-> IF i \in DOMAIN file THEN file[i] ELSE stray]
           rest == SubSeq(file, position + 1, Len(file))
           ends == IF Overlap(program) \/ Len(file) # position - 1 THEN {line} \cup Torn ELSE {line}
<1>1. PICK end \in ends : after = kept \o <<end>> \o rest
  BY DEF Written
<1>2. stray \in Torn
  <2>1. [name |-> "stray", password |-> "?", level |-> NoLevel] \in Torn
    BY DEF Torn
  <2>2. QED
    BY <2>1
<1>3. \A t \in Torn : t \in Line /\ t.level = NoLevel
  BY DEF Torn, Line
<1>4. end \in Line /\ (end = line \/ end.level = NoLevel)
  BY <1>3
<1>5. Len(file) = position - 1 /\ ~Overlap(program) => end = line
  OBVIOUS
<1> HIDE DEF stray, ends
<1>6. DOMAIN file = 1 .. Len(file) /\ \A i \in 1 .. Len(file) : file[i] \in Line
  OBVIOUS
<1>7. /\ kept \in Seq(Line) /\ Len(kept) = position - 1
      /\ \A i \in 1 .. position - 1 : kept[i] = IF i \in 1 .. Len(file) THEN file[i] ELSE stray
  BY <1>2, <1>3, <1>6
<1>8. /\ rest \in Seq(Line)
      /\ \A i \in 1 .. Len(rest) : \E j \in 1 .. Len(file) : rest[i] = file[j]
      /\ Len(file) = position - 1 => rest = <<>>
  <2>1. position + 1 \in Int /\ Len(file) \in Int /\ \A i \in position + 1 .. Len(file) : file[i] \in Line
    BY <1>6
  <2>2. /\ rest \in Seq(Line)
        /\ Len(rest) = IF position + 1 <= Len(file) THEN Len(file) - (position + 1) + 1 ELSE 0
        /\ \A i \in 1 .. Len(file) - (position + 1) + 1 : rest[i] = file[position + 1 + i - 1]
    BY <2>1, SubSeqProperties
  <2> HIDE DEF rest
  <2>3. ASSUME NEW i \in 1 .. Len(rest)
        PROVE  \E j \in 1 .. Len(file) : rest[i] = file[j]
    <3>1. i \in 1 .. Len(file) - (position + 1) + 1 /\ position + 1 + i - 1 \in 1 .. Len(file)
      BY <2>2
    <3>2. QED
      BY <2>2, <3>1
  <2>4. Len(file) = position - 1 => rest = <<>>
    <3>1. Len(file) = position - 1 => Len(rest) = 0
      BY <2>2
    <3>2. QED
      BY <2>2, <3>1
  <2>5. QED
    BY <2>2, <2>3, <2>4 DEF rest
<1> HIDE DEF rest, kept
<1> DEFINE upto == kept \o <<end>>
<1>9. upto = Append(kept, end)
  BY <1>4, <1>7
<1>10. /\ upto \in Seq(Line) /\ Len(upto) = position
       /\ \A i \in 1 .. position : upto[i] = IF i = position THEN end ELSE kept[i]
  BY <1>4, <1>7, <1>9
<1>11. after = upto \o rest
  BY <1>1
<1> HIDE DEF upto
<1>12. /\ after \in Seq(Line) /\ Len(after) = position + Len(rest)
       /\ \A i \in 1 .. position + Len(rest) :
            after[i] = IF i <= position THEN upto[i] ELSE rest[i - position]
  <2>1. upto \in Seq(Line) /\ rest \in Seq(Line)
    BY <1>8, <1>10
  <2>2. /\ upto \o rest \in Seq(Line) /\ Len(upto \o rest) = Len(upto) + Len(rest)
        /\ \A i \in 1 .. Len(upto) + Len(rest) :
             (upto \o rest)[i] = IF i <= Len(upto) THEN upto[i] ELSE rest[i - Len(upto)]
    BY <2>1, ConcatProperties
  <2>3. Len(upto) = position
    BY <1>10
  <2>4. QED
    BY <1>11, <2>2, <2>3
<1>13. ASSUME NEW i \in 1 .. Len(after)
       PROVE  \/ after[i] = line
              \/ after[i].level = NoLevel
              \/ \E j \in 1 .. Len(file) : after[i] = file[j]
  <2>1. CASE i = position
    <3>1. after[i] = end
      BY <1>10, <1>12, <2>1
    <3>2. QED
      BY <1>4, <3>1
  <2>2. CASE i < position
    <3>1. i \in 1 .. position - 1 /\ after[i] = kept[i]
      BY <1>10, <1>12, <2>2
    <3>2. QED
      BY <1>2, <1>3, <1>7, <3>1
  <2>3. CASE i > position
    <3>1. i - position \in 1 .. Len(rest) /\ after[i] = rest[i - position]
      BY <1>8, <1>12, <2>3
    <3>2. QED
      BY <1>8, <3>1
  <2>4. QED
    BY <1>12, <2>1, <2>2, <2>3
<1>14. ASSUME Len(file) = position - 1, ~Overlap(program)
       PROVE  after = Append(file, line)
  <2>1. end = line /\ rest = <<>>
    BY <1>5, <1>8, <1>14
  <2>2. after = upto
    BY <1>10, <1>11, <2>1
  <2>3. kept = file
    <3>1. Len(kept) = Len(file) /\ \A i \in 1 .. Len(file) : kept[i] = file[i]
      BY <1>7, <1>14
    <3>2. QED
      BY <1>7, <3>1
  <2>4. QED
    BY <1>9, <2>1, <2>2, <2>3
<1>15. QED
  BY <1>12, <1>13, <1>14

\* What a program is doing, by the stage of its call.
LEMMA CallStages ==
  ASSUME UserFileTyped, NEW p \in Programs
  PROVE  /\ call[p] \in Idle \cup Asking \cup Loaded \cup Writing
         /\ call[p].stage \in {"asking", "called"} => call[p] \in Asking
         /\ call[p].stage = "loaded" => call[p] \in Loaded
         /\ call[p].stage = "writing" => call[p] \in Writing
         /\ call[p].stage # "none" => call[p].user \in Users /\ call[p].kind \in Kinds
         /\ Changing(p) => call[p].users \in Seq(Line)
         /\ call[p].stage = "writing" => call[p].written \in Nat
<1>1. call[p] \in Idle \cup Asking \cup Loaded \cup Writing
  BY DEF UserFileTyped
<1>2. CASE call[p] \in Idle
  <2>1. call[p].stage = "none"
    BY <1>2 DEF Idle
  <2>2. QED
    BY <1>1, <2>1 DEF Changing
<1>3. CASE call[p] \in Asking
  <2>1. call[p].stage \in {"asking", "called"} /\ call[p].user \in Users /\ call[p].kind \in Kinds
    BY <1>3 DEF Asking
  <2>2. QED
    BY <1>1, <1>3, <2>1 DEF Changing
<1>4. CASE call[p] \in Loaded
  <2>1. /\ call[p].stage = "loaded" /\ call[p].user \in Users /\ call[p].kind \in Kinds
        /\ call[p].users \in Seq(Line)
    BY <1>4 DEF Loaded
  <2>2. QED
    BY <1>1, <1>4, <2>1 DEF Changing
<1>5. CASE call[p] \in Writing
  <2>1. /\ call[p].stage = "writing" /\ call[p].user \in Users /\ call[p].kind \in Kinds
        /\ call[p].users \in Seq(Line) /\ call[p].written \in Nat
    BY <1>5 DEF Writing
  <2>2. QED
    BY <1>1, <1>5, <2>1 DEF Changing
<1>6. QED
  BY <1>1, <1>2, <1>3, <1>4, <1>5

\* One program's call becomes another, and the other program's stays.
LEMMA CallBecomes ==
  ASSUME UserFileTyped, NEW p \in Programs, NEW new, call' = [call EXCEPT ![p] = new]
  PROVE  /\ call'[p] = new
         /\ \A q \in Programs : q # p => call'[q] = call[q]
         /\ new \in Idle \cup Asking \cup Loaded \cup Writing =>
              call' \in [Programs -> Idle \cup Asking \cup Loaded \cup Writing]
<1>1. DOMAIN call = Programs
  BY DEF UserFileTyped
<1>2. QED
  BY <1>1 DEF UserFileTyped

\* What each step does to the call of its program: the new call has its
\* type, and a list of users it holds is the one before or the altered file.
CallStep(p, new) ==
  /\ call' = [call EXCEPT ![p] = new]
  /\ new \in Idle \cup Asking \cup Loaded \cup Writing

LEMMA CallEffect ==
  ASSUME UserFileTyped, NEW p \in Programs, NEW user \in Users, NEW kind \in Kinds, Call(p, user, kind)
  PROVE  /\ \E new \in Asking : CallStep(p, new)
         /\ call[p].stage = "none"
         /\ UNCHANGED <<file, kills, expected, granted, disturbed>>
<1> DEFINE new == [stage |-> IF p = "sigwctl" /\ kind # "remove" THEN "asking" ELSE "called",
                   user |-> user, kind |-> kind]
<1>1. new \in Asking
  BY DEF Asking
<1>2. call' = [call EXCEPT ![p] = new]
  BY DEF Call
<1>3. QED
  BY <1>1, <1>2 DEF Call, CallStep

\* The console answers, or ends the command.
LEMMA AnswerEffect ==
  ASSUME UserFileTyped, Answer
  PROVE  /\ \E new \in Idle \cup Asking : CallStep("sigwctl", new)
         /\ call["sigwctl"].stage = "asking"
         /\ UNCHANGED <<file, kills, expected, granted, disturbed>>
<1> DEFINE c == call["sigwctl"]
<1>1. PICK stage \in {"called", "none"} :
        call' = [call EXCEPT !["sigwctl"] = IF stage = "none" THEN NoCall ELSE [@ EXCEPT !.stage = stage]]
  BY DEF Answer
<1>2. c.stage = "asking" /\ "sigwctl" \in Programs
  BY DEF Answer, Programs
<1>3. c \in Asking
  BY <1>2, CallStages
<1> DEFINE new == IF stage = "none" THEN NoCall ELSE [c EXCEPT !.stage = stage]
<1>4. call' = [call EXCEPT !["sigwctl"] = new]
  BY <1>1, <1>2 DEF UserFileTyped
<1>5. NoCall \in Idle
  BY DEF NoCall, Idle
<1>6. stage # "none" => [c EXCEPT !.stage = stage] \in Asking
  BY <1>3 DEF Asking
<1>7. new \in Idle \cup Asking
  BY <1>5, <1>6
<1>8. QED
  BY <1>2, <1>4, <1>7 DEF Answer, CallStep

\* The levels that were given stay given; a list that holds only such levels
\* takes the place of another.
LEMMA GrantedStep ==
  ASSUME UserFileTyped, LevelInv, NEW p \in Programs, NEW new, CallStep(p, new),
         granted \subseteq granted', Granted(file', granted'),
         new.stage \in {"loaded", "writing"} => Granted(new.users, granted')
  PROVE  LevelInv'
<1>1. call'[p] = new /\ \A q \in Programs : q # p => call'[q] = call[q]
  BY CallBecomes DEF CallStep
<1>2. ASSUME NEW q \in Programs, call'[q].stage \in {"loaded", "writing"}
      PROVE  Granted(call'[q].users, granted')
  <2>1. CASE q = p
    BY <1>1, <1>2, <2>1
  <2>2. CASE q # p
    BY <1>1, <1>2, <2>2 DEF LevelInv, Granted, Changing
  <2>3. QED
    BY <2>1, <2>2
<1>3. QED
  BY <1>2 DEF LevelInv, Changing, Granted

\* A program that has not truncated the file ends its call or goes on
\* without a list.
LEMMA AsideStep ==
  ASSUME UserFileTyped, Undisturbed, NEW p \in Programs, NEW new \in Idle \cup Asking, CallStep(p, new),
         call[p].stage # "writing", UNCHANGED <<file, expected>>, kills' = 0 => kills = 0
  PROVE  Undisturbed'
<1>1. call'[p] = new /\ \A q \in Programs : q # p => call'[q] = call[q]
  BY CallBecomes DEF CallStep
<1>2. call'[p].stage \notin {"loaded", "writing"}
  BY <1>1 DEF Idle, Asking
<1>3. \A q \in Programs : call'[q].stage \in {"loaded", "writing"} => q # p
  BY <1>2
<1>4. \A q \in Programs : call'[q].stage \in {"loaded", "writing"} => call'[q] = call[q] /\ Changing(q)
  BY <1>1, <1>3 DEF Changing
<1>5. (\A q \in Programs : call'[q].stage # "writing") => \A q \in Programs : call[q].stage # "writing"
  BY <1>1
<1>6. \A list, users : Exact(list, users, kills = 0) => Exact(list, users, kills' = 0)
  BY DEF Exact
<1>7. \A q, r \in Programs : call'[q].stage \in {"loaded", "writing"} /\ call'[r].stage \in {"loaded", "writing"} => q = r
  BY <1>4 DEF Undisturbed
<1>8. (\A q \in Programs : call'[q].stage # "writing") => Exact(file', expected', kills' = 0)
  BY <1>5, <1>6 DEF Undisturbed
<1>9. ASSUME NEW q \in Programs, call'[q].stage \in {"loaded", "writing"}
      PROVE  Exact(call'[q].users, Effect(expected', call'[q].user, call'[q].kind), kills' = 0)
  BY <1>4, <1>6, <1>9 DEF Undisturbed
<1>10. ASSUME NEW q \in Programs, call'[q].stage = "writing"
       PROVE  /\ call'[q].written <= Len(call'[q].users)
              /\ file' = SubSeq(call'[q].users, 1, call'[q].written)
  BY <1>4, <1>10 DEF Undisturbed
<1>11. QED
  BY <1>7, <1>8, <1>9, <1>10 DEF Undisturbed, Changing

\* The one program with a list goes on with it.
LEMMA AloneStep ==
  ASSUME UserFileTyped, Undisturbed, NEW p \in Programs, NEW new \in Loaded \cup Writing, CallStep(p, new),
         \A q \in Programs : Changing(q) => q = p,
         Exact(new.users, Effect(expected, new.user, new.kind), kills = 0),
         new.stage = "loaded" => call[p].stage # "writing" /\ UNCHANGED file,
         new.stage = "writing" => new.written <= Len(new.users) /\ file' = SubSeq(new.users, 1, new.written),
         UNCHANGED <<expected, kills>>
  PROVE  Undisturbed'
<1>1. call'[p] = new /\ \A q \in Programs : q # p => call'[q] = call[q]
  BY CallBecomes DEF CallStep
<1>2. \A q \in Programs : call'[q].stage \in {"loaded", "writing"} => q = p
  BY <1>1 DEF Changing
<1>3. \A q, r \in Programs : call'[q].stage \in {"loaded", "writing"} /\ call'[r].stage \in {"loaded", "writing"} => q = r
  BY <1>2
<1>4. (\A q \in Programs : call'[q].stage # "writing") => Exact(file', expected', kills' = 0)
  <2>1. SUFFICES ASSUME \A q \in Programs : call'[q].stage # "writing"
                 PROVE  Exact(file', expected', kills' = 0)
    OBVIOUS
  <2>2. new.stage = "loaded"
    BY <1>1, <2>1 DEF Loaded, Writing
  <2>3. \A q \in Programs : call[q].stage # "writing"
    BY <1>1, <2>1, <2>2
  <2>4. QED
    BY <2>2, <2>3 DEF Undisturbed
<1>5. ASSUME NEW q \in Programs, call'[q].stage \in {"loaded", "writing"}
      PROVE  Exact(call'[q].users, Effect(expected', call'[q].user, call'[q].kind), kills' = 0)
  BY <1>1, <1>2, <1>5
<1>6. ASSUME NEW q \in Programs, call'[q].stage = "writing"
      PROVE  /\ call'[q].written <= Len(call'[q].users)
             /\ file' = SubSeq(call'[q].users, 1, call'[q].written)
  BY <1>1, <1>2, <1>6
<1>7. QED
  BY <1>3, <1>4, <1>5, <1>6 DEF Undisturbed, Changing

\* The program that wrote the file ends its call, or dies.
LEMMA WriterEnds ==
  ASSUME UserFileTyped, Undisturbed, NEW p \in Programs, CallStep(p, NoCall), call[p].stage = "writing",
         expected' = Effect(expected, call[p].user, call[p].kind),
         UNCHANGED file,
         (UNCHANGED kills /\ call[p].written = Len(call[p].users)) \/ kills' # 0
  PROVE  Undisturbed'
<1>1. call'[p] = NoCall /\ \A q \in Programs : q # p => call'[q] = call[q]
  BY CallBecomes DEF CallStep
<1>2. NoCall.stage = "none"
  BY DEF NoCall
<1>3. \A q \in Programs : call'[q].stage \notin {"loaded", "writing"}
  BY <1>1, <1>2 DEF Undisturbed, Changing
<1> DEFINE users == call[p].users
           n == call[p].written
           effect == Effect(expected, call[p].user, call[p].kind)
<1>4. /\ Exact(users, effect, kills = 0)
      /\ n <= Len(users) /\ file = SubSeq(users, 1, n)
      /\ n \in Nat
  BY CallStages DEF Undisturbed, Changing
<1> HIDE DEF users, n, effect
<1>5. users \in Seq(Users) /\ DOMAIN users = 1 .. Len(users)
  BY <1>4 DEF Exact
<1>6. /\ file \in Seq(Users) /\ Len(file) = n
      /\ \A i \in 1 .. n : file[i] = users[i] /\ i \in 1 .. Len(users)
  BY <1>4, <1>5, SubSeqProperties
<1>7. DOMAIN file = 1 .. n
  BY <1>6
<1>8. /\ ToSet(file) = {file[i] : i \in 1 .. n}
      /\ ToSet(users) = {users[i] : i \in 1 .. Len(users)}
  BY <1>5, <1>6, ToSetByPosition
<1>9. ToSet(file) \subseteq ToSet(users) /\ (n = Len(users) => ToSet(file) = ToSet(users))
  BY <1>6, <1>8
<1>10. kills' = 0 => kills = 0 /\ n = Len(users)
  BY DEF n, users
<1>11. Exact(file, effect, kills' = 0)
  <2>1. ToSet(file) \subseteq effect
    BY <1>4, <1>9 DEF Exact
  <2>2. kills' = 0 => ToSet(file) = effect
    BY <1>4, <1>9, <1>10 DEF Exact
  <2>3. \A i \in DOMAIN file : file[i].name \notin SplitNames
    BY <1>4, <1>5, <1>6, <1>7 DEF Exact
  <2>4. \A i, j \in DOMAIN file : file[i].name = file[j].name => i = j
    BY <1>4, <1>5, <1>6, <1>7 DEF Exact
  <2>5. QED
    BY <1>6, <2>1, <2>2, <2>3, <2>4 DEF Exact
<1>12. QED
  BY <1>3, <1>11 DEF Undisturbed, Changing, effect

\* A list keeps its levels when a call gives more.
LEMMA GrantedGrows ==
  ASSUME NEW list, NEW given, NEW more, Granted(list, given), given \subseteq more
  PROVE  Granted(list, more)
BY DEF Granted

\* A change reads the file and alters what it read, or ends.
LEMMA LoadStep ==
  ASSUME UserFileInv, NEW p \in Programs, Load(p)
  PROVE  UserFileInv'
<1> DEFINE c == call[p]
           altered == Altered(file, c.user, c.kind)
           new == [stage |-> "loaded", user |-> c.user, kind |-> c.kind, users |-> altered]
<1>1. UserFileTyped /\ LevelInv /\ c.stage = "called" /\ UNCHANGED <<file, kills, expected>>
  BY DEF UserFileInv, Load
<1>2. c.user \in Users /\ c.kind \in Kinds
  BY <1>1, CallStages
<1>3. CASE call' = [call EXCEPT ![p] = NoCall] /\ UNCHANGED <<granted, disturbed>>
  <2>1. CallStep(p, NoCall) /\ NoCall \in Idle \cup Asking /\ NoCall.stage = "none"
    BY <1>3 DEF CallStep, NoCall, Idle
  <2>2. UserFileTyped'
    BY <1>1, <1>3, <2>1, CallBecomes DEF UserFileTyped, CallStep
  <2>3. LevelInv'
    BY <1>1, <1>3, <2>1, GrantedStep DEF LevelInv
  <2>4. ~disturbed' => Undisturbed'
    BY <1>1, <1>3, <2>1, AsideStep DEF UserFileInv
  <2>5. QED
    BY <2>2, <2>3, <2>4 DEF UserFileInv
<1>4. CASE /\ Loads
           /\ HasUser(file, c.user.name) = (c.kind # "add")
           /\ call' = [call EXCEPT ![p] = new]
           /\ granted' = granted \cup {u \in {[name |-> c.user.name, level |-> c.user.level]} :
                                          c.kind \in {"add", "level"}}
           /\ disturbed' = (disturbed \/ Overlap(p) \/ (c.kind = "add" /\ c.user.name \in SplitNames))
  <2>1. HasUser(file, c.user.name) <=> c.kind # "add"
    BY <1>4 DEF HasUser
  <2>2. file \in Seq(Line)
    BY <1>1 DEF UserFileTyped
  <2>3. altered \in Seq(Line)
    BY <1>2, <2>1, <2>2, AlteredByPosition
  <2>4. /\ new \in Loaded
        /\ new.stage = "loaded" /\ new.user = c.user /\ new.kind = c.kind /\ new.users = altered
    BY <1>2, <2>3 DEF Loaded
  <2>5. CallStep(p, new)
    BY <1>4, <2>4 DEF CallStep
  <2>6. granted \subseteq granted' /\ (c.kind \in {"add", "level"} => [name |-> c.user.name, level |-> c.user.level] \in granted')
    BY <1>4
  <2>7. Granted(file, granted')
    BY <1>1, <2>6, GrantedGrows DEF LevelInv
  <2>8. Granted(altered, granted')
    <3>1. c.kind \in {"add", "level"} => [name |-> c.user.name, level |-> c.user.level] \in granted'
      BY <2>6
    <3>2. QED
      BY <1>2, <2>1, <2>2, <2>7, <3>1, AlteredGranted
  <2> HIDE DEF altered, new
  <2>9. LevelInv'
    <3>1. Granted(file', granted')
      BY <1>1, <2>7
    <3>2. QED
      BY <1>1, <2>4, <2>5, <2>6, <2>8, <3>1, GrantedStep
  <2>10. UserFileTyped'
    <3>1. disturbed' \in BOOLEAN
      BY <1>4
    <3>2. QED
      BY <1>1, <2>4, <2>5, <3>1, CallBecomes DEF UserFileTyped, CallStep
  <2>11. ASSUME ~disturbed'
         PROVE  Undisturbed'
    <3>1. /\ ~disturbed /\ ~Overlap(p) /\ (c.kind = "add" => c.user.name \notin SplitNames)
      BY <1>4, <2>11
    <3>2. Undisturbed
      BY <3>1 DEF UserFileInv
    <3>3. \A q \in Programs : ~Changing(q)
      BY <1>1, <3>1 DEF Overlap, Changing
    <3>4. Exact(file, expected, kills = 0)
      BY <3>2, <3>3 DEF Undisturbed, Changing
    <3>5. expected \in SUBSET Users /\ (kills = 0) \in BOOLEAN
      BY <1>1 DEF UserFileTyped
    <3>6. Exact(altered, Effect(expected, c.user, c.kind), kills = 0)
      BY <1>2, <2>1, <3>1, <3>4, <3>5, AlteredExact DEF altered
    <3>7. QED
      BY <1>1, <2>4, <2>5, <3>2, <3>3, <3>6, AloneStep
  <2>12. QED
    BY <2>9, <2>10, <2>11 DEF UserFileInv
<1>5. QED
  BY <1>3, <1>4 DEF Load

\* The file is truncated, or cannot be opened.
LEMMA TruncateStep ==
  ASSUME UserFileInv, NEW p \in Programs, Truncate(p)
  PROVE  UserFileInv'
<1> DEFINE c == call[p]
           new == [stage |-> "writing", user |-> c.user, kind |-> c.kind, users |-> c.users, written |-> 0]
<1>1. UserFileTyped /\ LevelInv /\ c.stage = "loaded" /\ UNCHANGED <<kills, expected, granted, disturbed>>
  BY DEF UserFileInv, Truncate
<1>2. c.user \in Users /\ c.kind \in Kinds /\ c.users \in Seq(Line) /\ Changing(p)
  BY <1>1, CallStages DEF Changing
<1>3. CASE call' = [call EXCEPT ![p] = NoCall] /\ UNCHANGED file
  <2>1. CallStep(p, NoCall) /\ NoCall \in Idle \cup Asking /\ NoCall.stage = "none"
    BY <1>3 DEF CallStep, NoCall, Idle
  <2>2. UserFileTyped'
    BY <1>1, <1>3, <2>1, CallBecomes DEF UserFileTyped, CallStep
  <2>3. LevelInv'
    BY <1>1, <1>3, <2>1, GrantedStep DEF LevelInv
  <2>4. ~disturbed' => Undisturbed'
    BY <1>1, <1>3, <2>1, AsideStep DEF UserFileInv
  <2>5. QED
    BY <2>2, <2>3, <2>4 DEF UserFileInv
<1>4. CASE file' = <<>> /\ call' = [call EXCEPT ![p] = new]
  <2>1. /\ new \in Writing
        /\ new.stage = "writing" /\ new.user = c.user /\ new.kind = c.kind /\ new.users = c.users
        /\ new.written = 0
    BY <1>2 DEF Writing
  <2>2. CallStep(p, new)
    BY <1>4, <2>1 DEF CallStep
  <2> HIDE DEF new
  <2>3. UserFileTyped'
    BY <1>1, <1>4, <2>1, <2>2, CallBecomes DEF UserFileTyped, CallStep
  <2>4. LevelInv'
    <3>1. Granted(file', granted')
      BY <1>4 DEF Granted
    <3>2. Granted(new.users, granted')
      BY <1>1, <1>2, <2>1 DEF LevelInv
    <3>3. QED
      BY <1>1, <2>2, <3>1, <3>2, GrantedStep
  <2>5. ASSUME ~disturbed'
        PROVE  Undisturbed'
    <3>1. Undisturbed
      BY <1>1, <2>5 DEF UserFileInv
    <3>2. \A q \in Programs : Changing(q) => q = p
      BY <1>2, <3>1 DEF Undisturbed
    <3>3. Exact(new.users, Effect(expected, new.user, new.kind), kills = 0)
      BY <1>2, <2>1, <3>1 DEF Undisturbed
    <3>4. new.written <= Len(new.users) /\ file' = SubSeq(new.users, 1, new.written)
      BY <1>2, <1>4, <2>1
    <3>5. QED
      BY <1>1, <2>1, <2>2, <3>1, <3>2, <3>3, <3>4, AloneStep
  <2>6. QED
    BY <2>3, <2>4, <2>5 DEF UserFileInv
<1>5. QED
  BY <1>3, <1>4 DEF Truncate, UserFileInv, UserFileTyped

\* A line is written.
LEMMA WriteLineStep ==
  ASSUME UserFileInv, NEW p \in Programs, WriteLine(p)
  PROVE  UserFileInv'
<1> DEFINE c == call[p]
           position == c.written + 1
           line == c.users[position]
           new == [c EXCEPT !.written = position]
<1>1. /\ UserFileTyped /\ LevelInv /\ c.stage = "writing" /\ c.written < Len(c.users)
      /\ file' \in Written(p, position, line)
      /\ call' = [call EXCEPT ![p].written = position]
      /\ UNCHANGED <<kills, expected, granted, disturbed>>
  BY DEF UserFileInv, WriteLine
<1>2. c \in Writing /\ c.users \in Seq(Line) /\ c.written \in Nat /\ Changing(p)
  BY <1>1, CallStages DEF Changing
<1>3. position \in Nat \ {0} /\ position \in 1 .. Len(c.users) /\ line \in Line
  BY <1>1, <1>2
<1>4. /\ new \in Writing
      /\ new.stage = "writing" /\ new.user = c.user /\ new.kind = c.kind /\ new.users = c.users
      /\ new.written = position
  BY <1>2, <1>3 DEF Writing
<1>5. CallStep(p, new)
  BY <1>1, <1>4 DEF CallStep
<1> HIDE DEF position, line, new
<1>6. file \in Seq(Line)
  BY <1>1 DEF UserFileTyped
<1>7. /\ file' \in Seq(Line)
      /\ \A i \in 1 .. Len(file') : \/ file'[i] = line
                                   \/ file'[i].level = NoLevel
                                   \/ \E j \in 1 .. Len(file) : file'[i] = file[j]
      /\ Len(file) = position - 1 /\ ~Overlap(p) => file' = Append(file, line)
  BY <1>1, <1>3, <1>6, WrittenLines
<1>8. UserFileTyped'
  BY <1>1, <1>4, <1>5, <1>7, CallBecomes DEF UserFileTyped, CallStep
<1>9. LevelInv'
  <2>1. Granted(c.users, granted) /\ Granted(file, granted)
    BY <1>1, <1>2 DEF LevelInv
  <2>2. line.level # NoLevel => [name |-> line.name, level |-> line.level] \in granted
    BY <1>2, <1>3, <2>1 DEF Granted, line
  <2>3. \A j \in 1 .. Len(file) :
          file[j].level # NoLevel => [name |-> file[j].name, level |-> file[j].level] \in granted
    BY <1>6, <2>1 DEF Granted
  <2>4. \A i \in 1 .. Len(file') :
          file'[i].level # NoLevel => [name |-> file'[i].name, level |-> file'[i].level] \in granted
    BY <1>7, <2>2, <2>3
  <2>5. Granted(file', granted')
    BY <1>1, <1>7, <2>4 DEF Granted
  <2>6. QED
    BY <1>1, <1>4, <1>5, <2>1, <2>5, GrantedStep
<1>10. ASSUME ~disturbed'
       PROVE  Undisturbed'
  <2>1. Undisturbed
    BY <1>1, <1>10 DEF UserFileInv
  <2>2. \A q \in Programs : Changing(q) => q = p
    BY <1>2, <2>1 DEF Undisturbed
  <2>3. Exact(new.users, Effect(expected, new.user, new.kind), kills = 0)
    BY <1>2, <1>4, <2>1 DEF Undisturbed
  <2>4. ~Overlap(p)
    BY <2>2 DEF Overlap, Changing
  <2>5. file = SubSeq(c.users, 1, c.written)
    BY <1>1, <2>1 DEF Undisturbed
  <2>6. /\ Len(file) = c.written
        /\ \A i \in 1 .. c.written : file[i] = c.users[i]
    BY <1>1, <1>2, <2>5, SubSeqProperties
  <2>7. file' = Append(file, line)
    BY <1>7, <2>4, <2>6, <1>2 DEF position
  <2>8. file' = SubSeq(c.users, 1, position)
    <3> DEFINE whole == SubSeq(c.users, 1, position)
    <3>1. /\ Len(file') = position
          /\ \A i \in 1 .. position : file'[i] = c.users[i]
      BY <1>2, <1>6, <1>3, <2>6, <2>7 DEF position, line
    <3>2. whole \in Seq(Line) /\ Len(whole) = position /\ \A i \in 1 .. position : whole[i] = c.users[i]
      BY <1>2, <1>3, SubSeqProperties
    <3> HIDE DEF whole
    <3>3. file' = whole
      BY <1>7, <3>1, <3>2
    <3>4. QED
      BY <3>3 DEF whole
  <2>9. new.written <= Len(new.users) /\ file' = SubSeq(new.users, 1, new.written)
    BY <1>3, <1>4, <2>8
  <2>10. QED
    BY <1>1, <1>4, <1>5, <2>1, <2>2, <2>3, <2>9, AloneStep
<1>11. QED
  BY <1>8, <1>9, <1>10 DEF UserFileInv

\* What a change asks for is a set of users.
LEMMA EffectType ==
  ASSUME NEW users \in SUBSET Users, NEW user \in Users, NEW kind \in Kinds
  PROVE  Effect(users, user, kind) \in SUBSET Users
<1>1. \A u \in users : [u EXCEPT !.password = user.password] \in Users /\ [u EXCEPT !.level = user.level] \in Users
  BY DEF Users
<1>2. QED
  BY <1>1 DEF Effect, Kinds

\* The call of a program is over: the change is reported, or the program dies.
LEMMA EndStep ==
  ASSUME UserFileInv, NEW p \in Programs, Finish(p) \/ Kill(p)
  PROVE  UserFileInv'
<1> DEFINE c == call[p]
<1>1. /\ UserFileTyped /\ LevelInv /\ UNCHANGED <<file, granted, disturbed>> /\ c.stage # "none"
      /\ call' = [call EXCEPT ![p] = NoCall]
      /\ expected' = IF c.stage = "writing" THEN Effect(expected, c.user, c.kind) ELSE expected
  BY DEF UserFileInv, Finish, Kill
<1>2. kills \in Nat
  BY <1>1 DEF UserFileTyped
<1>3. \/ UNCHANGED kills /\ c.stage = "writing" /\ c.written = Len(c.users)
      \/ kills' = kills + 1
  BY DEF Finish, Kill
<1>4. kills' \in Nat /\ (kills' = 0 => kills = 0 /\ c.stage = "writing" /\ UNCHANGED kills /\ c.written = Len(c.users))
  BY <1>2, <1>3
<1>5. CallStep(p, NoCall) /\ NoCall \in Idle \cup Asking /\ NoCall.stage = "none"
  BY <1>1 DEF CallStep, NoCall, Idle
<1>6. expected' \in SUBSET Users
  BY <1>1, CallStages, EffectType DEF UserFileTyped
<1>7. UserFileTyped'
  BY <1>1, <1>4, <1>5, <1>6, CallBecomes DEF UserFileTyped, CallStep
<1>8. LevelInv'
  BY <1>1, <1>5, GrantedStep DEF LevelInv
<1>9. ASSUME ~disturbed'
      PROVE  Undisturbed'
  <2>1. Undisturbed
    BY <1>1, <1>9 DEF UserFileInv
  <2>2. CASE c.stage = "writing"
    <3>1. (UNCHANGED kills /\ c.written = Len(c.users)) \/ kills' # 0
      BY <1>4
    <3>2. QED
      BY <1>1, <1>5, <2>1, <2>2, <3>1, WriterEnds
  <2>3. CASE c.stage # "writing"
    BY <1>1, <1>4, <1>5, <2>1, <2>3, AsideStep
  <2>4. QED
    BY <2>2, <2>3
<1>10. QED
  BY <1>7, <1>8, <1>9 DEF UserFileInv

\* A change is asked for, or the console answers.
LEMMA AskStep ==
  ASSUME UserFileInv, NEW p \in Programs, NEW new \in Idle \cup Asking, CallStep(p, new),
         call[p].stage # "writing", UNCHANGED <<file, kills, expected, granted, disturbed>>
  PROVE  UserFileInv'
<1>1. UserFileTyped /\ LevelInv
  BY DEF UserFileInv
<1>2. new.stage \notin {"loaded", "writing"}
  BY DEF Idle, Asking
<1>3. UserFileTyped'
  BY <1>1, CallBecomes DEF UserFileTyped, CallStep
<1>4. LevelInv'
  BY <1>1, <1>2, GrantedStep DEF LevelInv
<1>5. ~disturbed' => Undisturbed'
  BY <1>1, AsideStep DEF UserFileInv
<1>6. QED
  BY <1>3, <1>4, <1>5 DEF UserFileInv

\* The lists of the changes, the levels they give and what the file holds
\* while nothing disturbs it are inductive.
THEOREM UserFileInductive == UserFileSpec => []UserFileInv
<1>1. UserFileInit => UserFileInv
  <2> SUFFICES ASSUME UserFileInit
               PROVE  UserFileInv
    OBVIOUS
  <2>1. /\ file = <<>> /\ kills = 0 /\ expected = {} /\ disturbed = FALSE
        /\ call = [program \in Programs |-> NoCall]
    BY DEF UserFileInit
  <2>2. NoCall \in Idle /\ NoCall.stage = "none"
    BY DEF NoCall, Idle
  <2>3. UserFileTyped
    <3>1. file \in Seq(Line)
      BY <2>1
    <3>2. call \in [Programs -> Idle \cup Asking \cup Loaded \cup Writing]
      BY <2>1, <2>2
    <3>3. QED
      BY <2>1, <3>1, <3>2 DEF UserFileTyped
  <2>4. \A p \in Programs : ~Changing(p) /\ call[p].stage # "writing"
    BY <2>1, <2>2 DEF Changing
  <2>5. DOMAIN file = {} /\ file \in Seq(Users) /\ ToSet(file) = {}
    BY <2>1 DEF ToSet
  <2>6. Exact(file, expected, kills = 0)
    BY <2>1, <2>5 DEF Exact
  <2>7. LevelInv
    BY <2>4, <2>5 DEF LevelInv, Granted
  <2>8. QED
    BY <2>3, <2>4, <2>6, <2>7 DEF UserFileInv, Undisturbed
<1>2. UserFileInv /\ [UserFileNext]_userFileVars => UserFileInv'
  <2> SUFFICES ASSUME UserFileInv, [UserFileNext]_userFileVars
               PROVE  UserFileInv'
    OBVIOUS
  <2>1. UserFileTyped
    BY DEF UserFileInv
  <2>2. ASSUME NEW p \in Programs, NEW user \in Users, NEW kind \in Kinds, Call(p, user, kind)
        PROVE  UserFileInv'
    BY <2>1, <2>2, CallEffect, AskStep
  <2>3. CASE Answer
    <3>1. "sigwctl" \in Programs
      BY DEF Programs
    <3>2. QED
      BY <2>1, <2>3, <3>1, AnswerEffect, AskStep
  <2>4. ASSUME NEW p \in Programs, Load(p) \/ Truncate(p) \/ WriteLine(p) \/ Finish(p) \/ Kill(p)
        PROVE  UserFileInv'
    BY <2>4, LoadStep, TruncateStep, WriteLineStep, EndStep
  <2>5. CASE UNCHANGED userFileVars
    BY <2>5 DEF userFileVars, UserFileInv, UserFileTyped, LevelInv, Granted, Undisturbed, Changing, Exact
  <2>6. QED
    BY <2>2, <2>3, <2>4, <2>5 DEF UserFileNext, Kinds
<1>3. QED
  BY <1>1, <1>2, PTL DEF UserFileSpec

\* Whatever overlaps or dies, an authorization gives a user a level only if
\* some call gave that level to that name.
THEOREM OnlyGrantedLevels == UserFileSpec => []LevelsWereGranted
<1>1. UserFileInv => LevelsWereGranted
  <2> SUFFICES ASSUME UserFileInv, NEW name \in UserNames, NEW password \in Passwords,
                      AuthorizedLevel(name, password) # NoLevel
               PROVE  [name |-> name, level |-> AuthorizedLevel(name, password)] \in granted
    BY DEF LevelsWereGranted
  <2>1. file \in Seq(Line) /\ Granted(file, granted)
    BY DEF UserFileInv, UserFileTyped, LevelInv
  <2>2. SelectInSeq(file, LAMBDA u : u.name = name) = Found(file, name)
    BY DEF SelectInSeq, Found
  <2>3. Found(file, name) # 0 /\ AuthorizedLevel(name, password) = file[Found(file, name)].level
    BY <2>2 DEF AuthorizedLevel
  <2>4. Found(file, name) \in 1 .. Len(file) /\ file[Found(file, name)].name = name
    BY <2>1, <2>3, FindByUsername
  <2>5. DOMAIN file = 1 .. Len(file)
    BY <2>1
  <2>6. QED
    BY <2>1, <2>3, <2>4, <2>5 DEF Granted
<1>2. QED
  BY <1>1, UserFileInductive, PTL

\* As long as no two changes overlap and no name holds a separator, the file
\* loads whenever nobody writes it and holds the users the changes leave,
\* those that a program that died had not written excepted.
THEOREM UndisturbedFileIsExact == UserFileSpec => []UndisturbedIsExact
<1>1. UserFileInv => UndisturbedIsExact
  <2> SUFFICES ASSUME UserFileInv, ~disturbed, \A program \in Programs : call[program].stage # "writing"
               PROVE  /\ Loads
                      /\ ToSet(file) \subseteq expected
                      /\ kills = 0 => ToSet(file) = expected
                      /\ \A i, j \in DOMAIN file : file[i].name = file[j].name => i = j
    BY DEF UndisturbedIsExact
  <2>1. Exact(file, expected, kills = 0)
    BY DEF UserFileInv, Undisturbed
  <2>2. \A i \in DOMAIN file : file[i] \in Users /\ file[i].name \notin SplitNames
    BY <2>1 DEF Exact
  <2>3. Loads
    BY <2>2, UserFileAssumption DEF Loads, Users
  <2>4. QED
    BY <2>1, <2>3 DEF Exact
<1>2. QED
  BY <1>1, UserFileInductive, PTL

-----------------------------------------------------------------------------
(* The registers of the Xcom-485i devices                                   *)

\* The rows of a section that can be written.
Settings(section) == section.numbers \cup section.times \cup section.signals

\* The settings of an Xtender.
LEMMA XtenderSettings ==
  \A section \in {XtenderInfos, XtenderMoreInfos, XtenderBattery, XtenderInverter, XtenderAux1, XtenderAux2,
                  XtenderSystem, XtenderOfXTS, XtenderOfOthers} :
    Settings(section) \subseteq 1100..1699
<1>1. Settings(XtenderInfos) \subseteq 1100..1699 /\ Settings(XtenderMoreInfos) \subseteq 1100..1699
  BY DEF Settings, XtenderInfos, XtenderMoreInfos, Infos, None
<1>2. Settings(XtenderBattery) \subseteq 1100..1699
  BY DEF Settings, XtenderBattery, None
<1>3. Settings(XtenderInverter) \subseteq 1100..1699
  BY DEF Settings, XtenderInverter, None
<1>4. Settings(XtenderAux1) \subseteq 1100..1699
  BY DEF Settings, XtenderAux1, None
<1>5. Settings(XtenderAux2) \subseteq 1100..1699
  BY DEF Settings, XtenderAux2, None
<1>6. Settings(XtenderSystem) \subseteq 1100..1699
  BY DEF Settings, XtenderSystem, None
<1>7. Settings(XtenderOfXTS) \subseteq 1100..1699 /\ Settings(XtenderOfOthers) \subseteq 1100..1699
  BY DEF Settings, XtenderOfXTS, XtenderOfOthers, None
<1>8. QED
  BY <1>1, <1>2, <1>3, <1>4, <1>5, <1>6, <1>7

\* The settings of a VarioTrack.
LEMMA VarioTrackSettings ==
  \A section \in {VarioTrackInfos, VarioTrackSystem, VarioTrackAux12, VarioTrackAux34} :
    Settings(section) \subseteq 10000..10599
<1>1. Settings(VarioTrackInfos) \subseteq 10000..10599
  BY DEF Settings, VarioTrackInfos, Infos, None
<1>2. Settings(VarioTrackSystem) \subseteq 10000..10599
  BY DEF Settings, VarioTrackSystem, None
<1>3. Settings(VarioTrackAux12) \subseteq 10000..10599
  BY DEF Settings, VarioTrackAux12, None
<1>4. Settings(VarioTrackAux34) \subseteq 10000..10599
  BY DEF Settings, VarioTrackAux34, None
<1>5. QED
  BY <1>1, <1>2, <1>3, <1>4

\* The settings of a VarioString.
LEMMA VarioStringSettings ==
  \A section \in {VarioStringInfos, VarioStringMoreInfos, VarioStringSystem, VarioStringAux,
                  VarioStringOf70, VarioStringOf120} :
    Settings(section) \subseteq 14000..14599
<1>1. Settings(VarioStringInfos) \subseteq 14000..14599 /\ Settings(VarioStringMoreInfos) \subseteq 14000..14599
  BY DEF Settings, VarioStringInfos, VarioStringMoreInfos, Infos, None
<1>2. Settings(VarioStringSystem) \subseteq 14000..14599
  BY DEF Settings, VarioStringSystem, None
<1>3. Settings(VarioStringAux) \subseteq 14000..14599
  BY DEF Settings, VarioStringAux, None
<1>4. Settings(VarioStringOf70) \subseteq 14000..14599 /\ Settings(VarioStringOf120) \subseteq 14000..14599
  BY DEF Settings, VarioStringOf70, VarioStringOf120, None
<1>5. QED
  BY <1>1, <1>2, <1>3, <1>4

\* The settings of a battery manager.
LEMMA BatterySettings ==
  \A section \in {BatteryCommon, BatteryOfBSP, BatteryOfXcomCAN} : Settings(section) \subseteq 6000..6599
<1>1. Settings(BatteryCommon) \subseteq 6000..6599
  BY DEF Settings, BatteryCommon, None
<1>2. Settings(BatteryOfBSP) \subseteq 6000..6599 /\ Settings(BatteryOfXcomCAN) \subseteq 6000..6599
  BY DEF Settings, BatteryOfBSP, BatteryOfXcomCAN, None
<1>3. QED
  BY <1>1, <1>2

\* The first ids of the settings of the four families.
SettingFirsts == {1100, 6000, 10000, 14000}

\* All settings of a model are at most 600 ids from the first of its family.
LEMMA SettingsOfFamily ==
  ASSUME NEW model \in Models
  PROVE  \E first \in SettingFirsts : WriteableIds[model] \subseteq first..(first + 599)
<1>1. WriteableIds[model] = UNION {Settings(section) : section \in Sections[model]}
  BY DEF WriteableIds, NumberIds, TimeIds, SignalIds, Settings
<1>2. ASSUME NEW first \in SettingFirsts, \A section \in Sections[model] : Settings(section) \subseteq first..(first + 599)
      PROVE  WriteableIds[model] \subseteq first..(first + 599)
  BY <1>1, <1>2
<1>3. CASE model \in {"XTH", "XTM", "XTS", "XtenderMulticast"}
  <2>1. Sections[model] \subseteq {XtenderInfos, XtenderMoreInfos, XtenderBattery, XtenderInverter, XtenderAux1,
                                   XtenderAux2, XtenderSystem, XtenderOfXTS, XtenderOfOthers}
    BY <1>3 DEF Sections
  <2>2. \A section \in Sections[model] : Settings(section) \subseteq 1100..(1100 + 599)
    BY <2>1, XtenderSettings
  <2>3. QED
    BY <1>2, <2>2 DEF SettingFirsts
<1>4. CASE model \in {"VT65", "VT80", "VarioTrackMulticast"}
  <2>1. Sections[model] \subseteq {VarioTrackInfos, VarioTrackSystem, VarioTrackAux12, VarioTrackAux34}
    BY <1>4 DEF Sections
  <2>2. \A section \in Sections[model] : Settings(section) \subseteq 10000..(10000 + 599)
    BY <2>1, VarioTrackSettings
  <2>3. QED
    BY <1>2, <2>2 DEF SettingFirsts
<1>5. CASE model \in {"VS70", "VS120", "VarioStringMulticast"}
  <2>1. Sections[model] \subseteq {VarioStringInfos, VarioStringMoreInfos, VarioStringSystem, VarioStringAux,
                                   VarioStringOf70, VarioStringOf120}
    BY <1>5 DEF Sections
  <2>2. \A section \in Sections[model] : Settings(section) \subseteq 14000..(14000 + 599)
    BY <2>1, VarioStringSettings
  <2>3. QED
    BY <1>2, <2>2 DEF SettingFirsts
<1>6. CASE model \in {"BSP", "XComCAN_BMS"}
  <2>1. Sections[model] \subseteq {BatteryCommon, BatteryOfBSP, BatteryOfXcomCAN}
    BY <1>6 DEF Sections
  <2>2. \A section \in Sections[model] : Settings(section) \subseteq 6000..(6000 + 599)
    BY <2>1, BatterySettings
  <2>3. QED
    BY <1>2, <2>2 DEF SettingFirsts
<1>7. model \in {"XTH", "XTM", "XTS", "XtenderMulticast", "VT65", "VT80", "VarioTrackMulticast",
                 "VS70", "VS120", "VarioStringMulticast", "BSP", "XComCAN_BMS"}
  BY DEF Models, Sections
<1>8. QED
  BY <1>3, <1>4, <1>5, <1>6, <1>7

\* FirstId finds the first id of the family.
LEMMA FirstIs ==
  ASSUME NEW first \in SettingFirsts, NEW id \in first..(first + 599)
  PROVE  FirstId(id) = first
<1> DEFINE firsts == {1100, 3000, 6000, 7000, 10000, 11000, 14000, 15000}
           IsFirst(f) == f <= id /\ \A other \in firsts : other <= id => other <= f
<1>1. first \in firsts /\ IsFirst(first)
  BY DEF SettingFirsts
<1>2. \A f \in firsts : IsFirst(f) => f = first
  <2>1. TAKE f \in firsts
  <2>2. HAVE IsFirst(f)
  <2>3. f <= first /\ first <= f
    BY <1>1, <2>2
  <2>4. f \in Nat /\ first \in Nat
    BY DEF SettingFirsts
  <2>5. QED
    BY <2>3, <2>4
<1>3. FirstId(id) = CHOOSE f \in firsts : IsFirst(f)
  BY DEF FirstId
<1> HIDE DEF firsts, IsFirst
<1>4. QED
  BY <1>1, <1>2, <1>3

\* The register of a setting: even, below the volatile copy, and no other
\* setting of the model has it, the exchanged rows included.
LEMMA SettingRegisters ==
  ASSUME NEW model \in Models
  PROVE  /\ \A id \in WriteableIds[model] : \E k \in 0..599 : Register[id] = 2 * k
         /\ \A id, other \in WriteableIds[model] : Register[id] = Register[other] => id = other
<1> DEFINE known == UNION {Ids[m] : m \in Models}
           At(id) == CASE id = 6066 -> 134 [] id = 6067 -> 132 [] OTHER -> 2 * (id - FirstId(id))
<1>1. Register = [id \in known |-> At(id)]
  BY SMTT(30) DEF Register
<1>2. WriteableIds[model] \subseteq known
  BY DEF Ids
<1> HIDE DEF known, At
<1>3. \A id \in WriteableIds[model] : Register[id] = At(id)
  BY <1>1, <1>2
<1>4. PICK first \in SettingFirsts : WriteableIds[model] \subseteq first..(first + 599)
  BY SettingsOfFamily
<1>5. \A id \in first..(first + 599) :
        At(id) = CASE id = 6066 -> 134 [] id = 6067 -> 132 [] OTHER -> 2 * (id - first)
  BY FirstIs DEF At
<1>6. first \in Nat /\ \A id \in first..(first + 599) : id \in Nat
  BY DEF SettingFirsts
<1>7. ASSUME NEW id \in first..(first + 599)
      PROVE  \E k \in 0..599 : At(id) = 2 * k
  <2>1. CASE id = 6066
    BY <1>5, <2>1
  <2>2. CASE id = 6067
    BY <1>5, <2>2
  <2>3. CASE id \notin {6066, 6067}
    <3>1. At(id) = 2 * (id - first)
      BY <1>5, <2>3
    <3>2. id - first \in 0..599
      BY <1>6
    <3>3. QED
      BY <3>1, <3>2
  <2>4. QED
    BY <2>1, <2>2, <2>3
<1>8. ASSUME NEW id \in first..(first + 599), NEW other \in first..(first + 599), At(id) = At(other)
      PROVE  id = other
  <2>1. At(id) = At(other)
    BY <1>8
  <2>2. CASE id \notin {6066, 6067} /\ other \notin {6066, 6067}
    <3>1. At(id) = 2 * (id - first) /\ At(other) = 2 * (other - first)
      BY <1>5, <2>2
    <3>2. id \in Nat /\ other \in Nat /\ first \in Nat
      BY <1>6
    <3>3. 2 * (id - first) = 2 * (other - first)
      BY <2>1, <3>1
    <3>4. QED
      BY <3>2, <3>3
  <2>3. CASE id \in {6066, 6067} \/ other \in {6066, 6067}
    <3>1. first = 6000
      BY <2>3 DEF SettingFirsts
    <3>2. \A x \in 6000..6599 : At(x) = CASE x = 6066 -> 134 [] x = 6067 -> 132 [] OTHER -> 2 * (x - 6000)
      BY <1>5, <3>1
    <3>3. \A x \in 6000..6599 : (At(x) = 134 <=> x = 6066) /\ (At(x) = 132 <=> x = 6067)
      BY <3>2
    <3>4. id \in 6000..6599 /\ other \in 6000..6599
      BY <3>1
    <3>5. QED
      BY <2>1, <2>3, <3>3, <3>4
  <2>4. QED
    BY <2>2, <2>3
<1>9. QED
  BY <1>3, <1>4, <1>7, <1>8, SMTT(30)

\* The device is of a known model.
KnownDevice == device \in Models

\* Whatever the model registers say, the device has a table.
LEMMA ModelIsKnown == RegistersSpec => []KnownDevice
<1>1. Init \/ InitMulticast => KnownDevice
  <2>1. {"XTH", "XTM", "XTS", "XtenderMulticast", "VT65", "VT80", "VarioTrackMulticast",
         "VS70", "VS120", "VarioStringMulticast", "BSP", "XComCAN_BMS"} \subseteq Models
    BY DEF Models, Sections
  <2>2. \A family \in Families : \A reading : ModelOf(family, reading)
          \in {"Invalid", "XTH", "XTM", "XTS", "VT65", "VT80", "VS70", "VS120", "BSP", "XComCAN_BMS"}
    BY DEF ModelOf, Families
  <2>3. CASE Init
    BY <2>1, <2>2, <2>3, ReadingAssumption DEF Init, KnownDevice
  <2>4. CASE InitMulticast
    BY <2>1, <2>4, MulticastAssumption DEF InitMulticast, KnownDevice
  <2>5. QED
    BY <2>3, <2>4
<1>2. KnownDevice /\ [Next]_vars => KnownDevice'
  BY DEF KnownDevice, Next, RefuseWrite, WriteProperty, LoseWrite, vars
<1>3. QED
  BY <1>1, <1>2, PTL DEF RegistersSpec

\* A write changes the two registers of its setting and no other.
Wrote(id, value, permanent) ==
  LET address == Address(id, permanent)
      number == NumberOf(Type(id), value)
  IN  /\ id \in WriteableIds[device] /\ Refusal(id, value) = "none"
      /\ address \in Nat
      /\ DOMAIN holding' = DOMAIN holding \cup {address, address + 1}
      /\ holding'[address] = High(number) /\ holding'[address + 1] = Low(number)
      /\ \A other \in DOMAIN holding \ {address, address + 1} : holding'[other] = holding[other]
      /\ written'.id = id /\ written'.permanent = permanent /\ written'.value = value
      /\ device' = device

\* That is what WriteProperty does.
LEMMA WriteIs ==
  ASSUME KnownDevice, NEW id, NEW value, NEW permanent \in BOOLEAN, NEW answered,
         WriteProperty(id, value, permanent, answered)
  PROVE  Wrote(id, value, permanent)
<1> DEFINE address == Address(id, permanent)
           number == NumberOf(Type(id), value)
           high == High(number)
           low == Low(number)
<1>1. /\ Refusal(id, value) = "none"
      /\ holding' = [a \in DOMAIN holding \cup {address, address + 1} |->
                       CASE a = address -> high
                         [] a = address + 1 -> low
                         [] OTHER -> holding[a]]
      /\ written' = [id |-> id, value |-> value, permanent |-> permanent,
                     status |-> IF answered THEN "Success" ELSE "Error"]
      /\ device' = device
  BY DEF WriteProperty
<1>2. id \in WriteableIds[device]
  BY <1>1 DEF Refusal
<1>3. Register[id] \in Nat
  BY <1>2, SettingRegisters DEF KnownDevice
<1>4. address \in Nat /\ address + 1 # address
  BY <1>3 DEF Address
<1> HIDE DEF address, number, high, low
<1>5. /\ DOMAIN holding' = DOMAIN holding \cup {address, address + 1}
      /\ holding'[address] = high /\ holding'[address + 1] = low
      /\ \A other \in DOMAIN holding \ {address, address + 1} : holding'[other] = holding[other]
  BY <1>1, <1>4
<1>6. written'.id = id /\ written'.permanent = permanent /\ written'.value = value
  BY <1>1
<1>7. QED
  BY <1>1, <1>2, <1>4, <1>5, <1>6 DEF Wrote, address, number, high, low

\* The addresses of two settings, or of the two copies of one, are disjoint.
LEMMA AddressesDisjoint ==
  ASSUME KnownDevice, NEW id \in WriteableIds[device], NEW permanent \in BOOLEAN,
         NEW other \in WriteableIds[device], NEW copy \in BOOLEAN,
         <<other, copy>> # <<id, permanent>>
  PROVE  {Address(other, copy), Address(other, copy) + 1} \cap {Address(id, permanent), Address(id, permanent) + 1} = {}
<1>1. PICK k \in 0..599 : Register[id] = 2 * k
  BY SettingRegisters DEF KnownDevice
<1>2. PICK m \in 0..599 : Register[other] = 2 * m
  BY SettingRegisters DEF KnownDevice
<1>3. Register[id] = Register[other] => id = other
  BY SettingRegisters DEF KnownDevice
<1>4. Address(id, permanent) = 2 * k + (IF permanent THEN 0 ELSE 6000)
  BY <1>1 DEF Address
<1>5. Address(other, copy) = 2 * m + (IF copy THEN 0 ELSE 6000)
  BY <1>2 DEF Address
<1>6. k # m \/ (permanent /\ ~copy) \/ (copy /\ ~permanent)
  <2>1. id # other \/ permanent # copy
    OBVIOUS
  <2>2. k = m => id = other
    BY <1>1, <1>2, <1>3
  <2>3. QED
    BY <2>1, <2>2
<1>7. QED
  BY <1>4, <1>5, <1>6

\* A write changes the registers of its own property in the copy it is meant
\* for, and no other setting's (WriteTouchesOne): the tables and the addresses
\* of xcom485idevice.cpp, for every model and value.
THEOREM WritesTouchOne == RegistersSpec => WriteTouchesOne
<1>1. ASSUME KnownDevice, [Next]_vars
      PROVE  LET changed == {address \in DOMAIN holding' : WordAt(address)' # WordAt(address)} IN
               changed # {} =>
                 \A id \in WriteableIds[device], permanent \in BOOLEAN :
                   <<id, permanent>> # <<written'.id, written'.permanent>>
                     => {Address(id, permanent), Address(id, permanent) + 1} \cap changed = {}
  <2> DEFINE changed == {address \in DOMAIN holding' : WordAt(address)' # WordAt(address)}
  <2>1. CASE holding' = holding
    <3>1. changed = {}
      BY <2>1 DEF WordAt
    <3>2. QED
      BY <3>1
  <2>2. CASE holding' # holding
    <3>1. PICK id \in Ids[device] \cup {1}, value \in Values, permanent \in BOOLEAN, answered \in BOOLEAN :
            WriteProperty(id, value, permanent, answered)
      BY <1>1, <2>2 DEF Next, RefuseWrite, LoseWrite, vars
    <3> DEFINE address == Address(id, permanent)
    <3>2. /\ id \in WriteableIds[device]
          /\ DOMAIN holding' = DOMAIN holding \cup {address, address + 1}
          /\ \A other \in DOMAIN holding \ {address, address + 1} : holding'[other] = holding[other]
          /\ written'.id = id /\ written'.permanent = permanent
      <4>1. KnownDevice
        BY <1>1
      <4>2. Wrote(id, value, permanent)
        BY <3>1, <4>1, WriteIs
      <4>3. QED
        BY <4>2 DEF Wrote
    <3> HIDE DEF address
    <3>3. changed \subseteq {address, address + 1}
      <4>1. \A a \in DOMAIN holding \ {address, address + 1} : WordAt(a)' = WordAt(a)
        BY <3>2 DEF WordAt
      <4>2. QED
        BY <3>2, <4>1
    <3> HIDE DEF changed
    <3>4. ASSUME NEW other \in WriteableIds[device], NEW copy \in BOOLEAN,
                 <<other, copy>> # <<written'.id, written'.permanent>>
          PROVE  {Address(other, copy), Address(other, copy) + 1} \cap changed = {}
      <4>1. <<other, copy>> # <<id, permanent>>
        BY <3>2, <3>4
      <4>2. {Address(other, copy), Address(other, copy) + 1} \cap {address, address + 1} = {}
        BY <1>1, <3>2, <4>1, AddressesDisjoint DEF address
      <4>3. QED
        BY <3>3, <4>2
    <3>5. QED
      BY <3>4 DEF changed
  <2>3. QED
    BY <2>1, <2>2
<1>2. QED
  BY <1>1, ModelIsKnown, PTL DEF RegistersSpec, WriteTouchesOne


\* A number that is sent: two words have room for it and its sign.
Sendable(n) == n \in Int /\ -32768 <= n /\ n < 32768

\* Two words and the number they were taken from.
LEMMA WordsOfNumber ==
  ASSUME NEW n, Sendable(n)
  PROVE  Signed(256 * High(n) + Low(n)) = n
<1>1. n \in Int /\ -32768 <= n /\ n < 32768
  BY DEF Sendable
<1>2. n = 256 * (n \div 256) + (n % 256) /\ (n % 256) \in 0..255 /\ n \div 256 \in -128..127
  BY <1>1
<1>3. (n \div 256) % 256 = IF n \div 256 < 0 THEN (n \div 256) + 256 ELSE n \div 256
  BY <1>2
<1>4. n \div 256 < 0 <=> n < 0
  BY <1>1
<1>5. 256 * ((n \div 256) % 256) + (n % 256) = IF n < 0 THEN n + 65536 ELSE n
  BY <1>1, <1>2, <1>3, <1>4
<1>6. QED
  BY <1>1, <1>5 DEF High, Low, Signed

\* The time a read makes of the number of an hour and a second, or of no time.
LEMMA TimeIsAt ==
  /\ \A hour \in 0..23, second \in 0..59 :
       TimeAt(hour * 60 + second) = [hour |-> hour, minute |-> second, second |-> 0]
  /\ TimeAt(-1 * 60 + -1) = NoTime
<1>1. ASSUME NEW hour \in 0..23, NEW second \in 0..59
      PROVE  TimeAt(hour * 60 + second) = [hour |-> hour, minute |-> second, second |-> 0]
  <2>1. /\ hour * 60 + second \in 0..1439
        /\ (hour * 60 + second) \div 60 = hour
        /\ (hour * 60 + second) % 60 = second
    OBVIOUS
  <2>2. QED
    BY <2>1 DEF TimeAt
<1>2. TimeAt(-1 * 60 + -1) = NoTime
  <2>1. \A number : number \notin 0..1439 => TimeAt(number) = NoTime
    BY DEF TimeAt
  <2> DEFINE unread == -1 * 60 + -1
  <2>2. unread \notin 0..1439
    OBVIOUS
  <2> HIDE DEF unread
  <2>3. TimeAt(unread) = NoTime
    BY <2>1, <2>2
  <2>4. QED
    BY <2>3 DEF unread
<1>3. QED
  BY <1>1, <1>2

\* The number that is sent, by the type of the property.
LEMMA NumberOfIs ==
  ASSUME NEW value
  PROVE  /\ NumberOf("Signal", value) = 1
         /\ NumberOf("TimeOfDay", value) = value.time.hour * 60 + value.time.second
         /\ NumberOf("Float", value) = IF value.number = Unparsed THEN 0 ELSE value.number
BY DEF NumberOf

\* What is written to a setting and not refused: a text to a time, a text or a
\* number to a number.
LEMMA NotRefused ==
  ASSUME NEW id, NEW value \in Values, Refusal(id, value) = "none"
  PROVE  /\ id \in WriteableIds[device]
         /\ Type(id) \in {"TimeOfDay", "Signal", "Float"}
         /\ Type(id) = "TimeOfDay" =>
              value.time = NoTime \/ (value.time.hour \in 0..23 /\ value.time.second \in 0..59)
         /\ Type(id) = "Float" => value.number \in Numbers \cup {Unparsed}
<1>1. Type(id) \in {"TimeOfDay", "Signal", "Float"}
  BY DEF Type
<1>2. id \in WriteableIds[device]
  BY DEF Refusal
<1>3. /\ Type(id) # "Signal" => value.kind # "invalid"
      /\ Type(id) = "TimeOfDay" => value.kind # "number"
  BY <1>2 DEF Refusal
<1>4. value.kind \in {"number", "text", "invalid"}
  BY DEF Values
<1>5. ASSUME Type(id) = "TimeOfDay"
      PROVE  value.time = NoTime \/ (value.time.hour \in 0..23 /\ value.time.second \in 0..59)
  <2>1. value.kind = "text"
    BY <1>3, <1>4, <1>5
  <2>2. value.time \in Times \cup {NoTime}
    BY <2>1 DEF Values
  <2>3. \A time \in Times : time.hour \in 0..23 /\ time.second \in 0..59
    BY ValueAssumption
  <2>4. QED
    BY <2>2, <2>3
<1>6. ASSUME Type(id) = "Float"
      PROVE  value.number \in Numbers \cup {Unparsed}
  <2>1. value.kind = "text" \/ value.kind = "number"
    BY <1>3, <1>4, <1>6
  <2>2. QED
    BY <2>1 DEF Values
<1>7. QED
  BY <1>1, <1>2, <1>5, <1>6

\* The number that is sent for a value that is not refused has two words.
LEMMA NumberFits ==
  ASSUME NEW id, NEW value \in Values, Refusal(id, value) = "none"
  PROVE  Sendable(NumberOf(Type(id), value))
<1>1. CASE Type(id) = "TimeOfDay"
  <2>1. NumberOf(Type(id), value) = value.time.hour * 60 + value.time.second
    BY <1>1, NumberOfIs
  <2>2. CASE value.time = NoTime
    <3>1. NumberOf(Type(id), value) = -1 * 60 + -1
      BY <2>1, <2>2 DEF NoTime
    <3>2. QED
      BY <3>1 DEF Sendable
  <2>3. CASE value.time.hour \in 0..23 /\ value.time.second \in 0..59
    <3>1. \A hour \in 0..23, second \in 0..59 : Sendable(hour * 60 + second)
      BY DEF Sendable
    <3>2. QED
      BY <2>1, <2>3, <3>1
  <2>4. QED
    BY <1>1, <2>2, <2>3, NotRefused
<1>2. CASE Type(id) = "Signal"
  BY <1>2, NumberOfIs DEF Sendable
<1>3. CASE Type(id) = "Float"
  <2>1. NumberOf(Type(id), value) = IF value.number = Unparsed THEN 0 ELSE value.number
    BY <1>3, NumberOfIs
  <2>2. value.number \in Numbers \cup {Unparsed}
    BY <1>3, NotRefused
  <2>3. NumberOf(Type(id), value) = 0 \/ NumberOf(Type(id), value) \in Numbers
    BY <2>1, <2>2
  <2>4. QED
    BY <2>3, ValueAssumption DEF Sendable
<1>4. QED
  BY <1>1, <1>2, <1>3, NotRefused

\* How a setting that was written for good reads back.
LEMMA WriteIsReadBack ==
  ASSUME KnownDevice, NEW id, NEW value \in Values, NEW answered,
         WriteProperty(id, value, TRUE, answered)
  PROVE  /\ Type(id) = "Float" =>
              ReadSetting(id)'.number = IF value.number = Unparsed THEN 0 ELSE value.number
         /\ Type(id) = "TimeOfDay" =>
              /\ ReadSetting(id)'.time.hour = value.time.hour
              /\ ReadSetting(id)'.time.minute = value.time.second
<1> DEFINE address == Address(id, TRUE)
           number == NumberOf(Type(id), value)
<1>1. /\ Refusal(id, value) = "none"
      /\ address \in Nat
      /\ DOMAIN holding' = DOMAIN holding \cup {address, address + 1}
      /\ holding'[address] = High(number) /\ holding'[address + 1] = Low(number)
      /\ device' = device
  <2>1. Wrote(id, value, TRUE)
    BY WriteIs
  <2>2. QED
    BY <2>1 DEF Wrote
<1>2. Type(id)' = Type(id) /\ Address(id, TRUE)' = address
  BY <1>1 DEF Type, Address
<1>3. NumberAt(address)' = number
  <2>1. Sendable(number)
    BY <1>1, NumberFits
  <2>2. WordAt(address)' = High(number) /\ WordAt(address + 1)' = Low(number)
    <3> HIDE DEF address, number
    <3>1. QED
      BY <1>1 DEF WordAt
  <2>3. NumberAt(address)' = Signed(256 * High(number) + Low(number))
    BY <2>2 DEF NumberAt
  <2>4. QED
    BY <2>1, <2>3, WordsOfNumber
<1>4. ASSUME Type(id) = "Float"
      PROVE  ReadSetting(id)'.number = IF value.number = Unparsed THEN 0 ELSE value.number
  <2>1. ReadSetting(id)' = [kind |-> "number", number |-> number]
    BY <1>2, <1>3, <1>4 DEF ReadSetting
  <2>2. QED
    BY <1>4, <2>1, NumberOfIs
<1>5. ASSUME Type(id) = "TimeOfDay"
      PROVE  /\ ReadSetting(id)'.time.hour = value.time.hour
             /\ ReadSetting(id)'.time.minute = value.time.second
  <2>2. ReadSetting(id)'.time = TimeAt(number)
    BY <1>2, <1>3, <1>5 DEF ReadSetting
  <2>3. number = value.time.hour * 60 + value.time.second
    BY <1>5, NumberOfIs
  <2> HIDE DEF number
  <2>4. CASE value.time = NoTime
    <3>1. number = -1 * 60 + -1
      BY <2>3, <2>4 DEF NoTime
    <3>2. ReadSetting(id)'.time = NoTime
      BY <2>2, <3>1, TimeIsAt
    <3>3. QED
      BY <2>4, <3>2 DEF NoTime
  <2>5. CASE value.time.hour \in 0..23 /\ value.time.second \in 0..59
    <3>1. ReadSetting(id)'.time = [hour |-> value.time.hour, minute |-> value.time.second, second |-> 0]
      BY <2>2, <2>3, <2>5, TimeIsAt
    <3>2. QED
      BY <3>1
  <2>6. QED
    BY <1>1, <1>5, <2>4, <2>5, NotRefused
<1>6. QED
  BY <1>4, <1>5

\* The two words of a number.
LEMMA WordsAreBytes ==
  ASSUME NEW n, Sendable(n)
  PROVE  High(n) \in 0..255 /\ Low(n) \in 0..255
<1>1. n \in Int /\ n \div 256 \in Int
  BY DEF Sendable
<1>2. (n \div 256) % 256 \in 0..255 /\ (n % 256) \in 0..255
  BY <1>1
<1>3. QED
  BY <1>2 DEF High, Low

\* Type correctness of the registers: a known model, and words that fit.
THEOREM RegistersTypeCorrect == RegistersSpec => []RegistersTypeOK
<1>1. (Init \/ InitMulticast) /\ KnownDevice => RegistersTypeOK
  <2>1. ASSUME Init \/ InitMulticast, KnownDevice
        PROVE  RegistersTypeOK
    <3>1. holding = <<>> /\ written.status = "none"
      BY <2>1 DEF Init, InitMulticast, Nothing
    <3>2. DOMAIN holding = {}
      BY <3>1
    <3>3. QED
      BY <2>1, <3>1, <3>2 DEF KnownDevice, RegistersTypeOK
  <2>2. QED
    BY <2>1
<1>2. ASSUME KnownDevice, RegistersTypeOK, [Next]_vars
      PROVE  RegistersTypeOK'
  <2>1. CASE UNCHANGED vars
    BY <1>2, <2>1 DEF vars, RegistersTypeOK
  <2>2. ASSUME NEW id, NEW value, NEW permanent,
               RefuseWrite(id, value, permanent) \/ LoseWrite(id, value, permanent)
        PROVE  RegistersTypeOK'
    <3>1. Refusal(id, value) \in {"none", "Error", "NoProperty", "InvalidValue"}
      BY DEF Refusal
    <3>2. written'.status \in {"Error", "NoProperty", "InvalidValue"}
      BY <2>2, <3>1 DEF RefuseWrite, LoseWrite
    <3>3. QED
      BY <1>2, <2>2, <3>2 DEF RefuseWrite, LoseWrite, RegistersTypeOK
  <2>3. ASSUME NEW id, NEW value \in Values, NEW permanent \in BOOLEAN, NEW answered,
               WriteProperty(id, value, permanent, answered)
        PROVE  RegistersTypeOK'
    <3> DEFINE address == Address(id, permanent)
               number == NumberOf(Type(id), value)
    <3>1. /\ DOMAIN holding' = DOMAIN holding \cup {address, address + 1}
          /\ holding'[address] = High(number) /\ holding'[address + 1] = Low(number)
          /\ \A other \in DOMAIN holding \ {address, address + 1} : holding'[other] = holding[other]
          /\ Refusal(id, value) = "none"
          /\ device' = device
      <4>1. Wrote(id, value, permanent)
        BY <1>2, <2>3, WriteIs
      <4>2. QED
        BY <4>1 DEF Wrote
    <3>6. Sendable(number)
      BY <2>3, <3>1, NumberFits
    <3>3. written'.status \in {"Success", "Error"}
      BY <2>3 DEF WriteProperty
    <3> HIDE DEF address, number
    <3>2. High(number) \in 0..255 /\ Low(number) \in 0..255
      BY <3>6, WordsAreBytes
    <3>4. \A a \in DOMAIN holding' : holding'[a] \in 0..255
      BY <1>2, <3>1, <3>2 DEF RegistersTypeOK
    <3>5. QED
      BY <1>2, <3>1, <3>3, <3>4 DEF RegistersTypeOK
  <2>4. QED
    BY <1>2, <2>1, <2>2, <2>3 DEF Next
<1>3. QED
  BY <1>1, <1>2, ModelIsKnown, PTL DEF RegistersSpec

\* How a setting reads back after a write for good (WrittenIsRead): a number as
\* it is, a time of day with its hour, a text that is neither as 0 or no time.
\* writeProperty_ and readProperty_ with the conversions of writeHoldingRegister_
\* and readHoldingRegister_, for every model and value.
THEOREM WrittenIsAlwaysRead == RegistersSpec => []WrittenIsRead
<1>1. Init \/ InitMulticast => WrittenIsRead
  BY DEF Init, InitMulticast, WrittenIsRead, Nothing
<1>2. ASSUME KnownDevice, WrittenIsRead, [Next]_vars
      PROVE  WrittenIsRead'
  <2>1. CASE UNCHANGED vars
    BY <1>2, <2>1 DEF vars, WrittenIsRead, ReadSetting, Type, NumberAt, WordAt, Address
  <2>2. ASSUME NEW id, NEW value, NEW permanent, RefuseWrite(id, value, permanent)
        PROVE  WrittenIsRead'
    <3>1. written'.status = Refusal(id, value)
      BY <2>2 DEF RefuseWrite
    <3>2. Refusal(id, value) # "Success"
      BY DEF Refusal
    <3>3. QED
      BY <3>1, <3>2 DEF WrittenIsRead
  <2>3. ASSUME NEW id, NEW value, NEW permanent, LoseWrite(id, value, permanent)
        PROVE  WrittenIsRead'
    <3>1. written'.status = "Error"
      BY <2>3 DEF LoseWrite
    <3>2. QED
      BY <3>1 DEF WrittenIsRead
  <2>4. ASSUME NEW id, NEW value \in Values, NEW permanent \in BOOLEAN, NEW answered,
               WriteProperty(id, value, permanent, answered)
        PROVE  WrittenIsRead'
    <3>1. /\ written'.id = id /\ written'.value = value /\ written'.permanent = permanent
          /\ device' = device
      BY <2>4 DEF WriteProperty
    <3>2. CASE ~permanent
      BY <3>1, <3>2 DEF WrittenIsRead
    <3>4. CASE permanent
      <4>1. WriteProperty(id, value, TRUE, answered)
        BY <2>4, <3>4
      <4>2. /\ Type(id) = "Float" =>
                 ReadSetting(id)'.number = IF value.number = Unparsed THEN 0 ELSE value.number
            /\ Type(id) = "TimeOfDay" =>
                 /\ ReadSetting(id)'.time.hour = value.time.hour
                 /\ ReadSetting(id)'.time.minute = value.time.second
        BY <1>2, <4>1, WriteIsReadBack
      <4>3. ReadSetting(written.id)' = ReadSetting(id)' /\ Type(written.id)' = Type(id)
        BY <3>1 DEF Type
      <4>4. QED
        BY <3>1, <4>2, <4>3 DEF WrittenIsRead
    <3>5. QED
      BY <3>2, <3>4
  <2>5. QED
    BY <1>2, <2>1, <2>2, <2>3, <2>4 DEF Next
<1>3. QED
  BY <1>1, <1>2, ModelIsKnown, PTL DEF RegistersSpec

-----------------------------------------------------------------------------
(* The commands of the extensions                                           *)

\* The names of all arguments.
ArgumentNames == {"username", "password", "access_level", "enabled", "channel", "ssid", "passkey"}

\* The arguments of each command, in their order.
LEMMA ArgumentsAre ==
  ASSUME NEW command \in DOMAIN Arguments
  PROVE  /\ Arguments[command] \in Seq(ArgumentNames)
         /\ "extra" \notin Names(command)
<1>1. \A c \in DOMAIN Arguments : Arguments[c] \in Seq(ArgumentNames)
  <2>1. DOMAIN Arguments = {"list", "add", "change_password", "change_access_level", "remove",
                            "status", "scan", "cliconf", "apconf"}
    BY DEF Arguments
  <2>2. /\ Arguments["list"] = <<>> /\ Arguments["status"] = <<>> /\ Arguments["scan"] = <<>>
        /\ Arguments["add"] = <<"username", "password", "access_level">>
        /\ Arguments["change_password"] = <<"username", "password">>
        /\ Arguments["change_access_level"] = <<"username", "access_level">>
        /\ Arguments["remove"] = <<"username">>
        /\ Arguments["cliconf"] = <<"enabled", "ssid", "passkey">>
        /\ Arguments["apconf"] = <<"enabled", "channel", "ssid", "passkey">>
    BY DEF Arguments
  <2>3. \A a, b, c, d \in ArgumentNames :
          /\ <<>> \in Seq(ArgumentNames) /\ <<a>> \in Seq(ArgumentNames) /\ <<a, b>> \in Seq(ArgumentNames)
          /\ <<a, b, c>> \in Seq(ArgumentNames) /\ <<a, b, c, d>> \in Seq(ArgumentNames)
    OBVIOUS
  <2>4. /\ "username" \in ArgumentNames /\ "password" \in ArgumentNames /\ "access_level" \in ArgumentNames
        /\ "enabled" \in ArgumentNames /\ "channel" \in ArgumentNames
        /\ "ssid" \in ArgumentNames /\ "passkey" \in ArgumentNames
    BY DEF ArgumentNames
  <2>5. <<"username", "password">> \in Seq(ArgumentNames) /\ <<"username", "access_level">> \in Seq(ArgumentNames)
          /\ <<"username">> \in Seq(ArgumentNames) /\ <<>> \in Seq(ArgumentNames)
    BY <2>3, <2>4
  <2>6. <<"username", "password", "access_level">> \in Seq(ArgumentNames)
          /\ <<"enabled", "ssid", "passkey">> \in Seq(ArgumentNames)
    BY <2>3, <2>4
  <2>7. <<"enabled", "channel", "ssid", "passkey">> \in Seq(ArgumentNames)
    BY <2>3, <2>4
  <2>8. QED
    BY <2>1, <2>2, <2>5, <2>6, <2>7
<1>2. \A c \in DOMAIN Arguments : \A i \in DOMAIN Arguments[c] : Arguments[c][i] # "extra"
  BY DEF Arguments
<1>3. QED
  BY <1>1, <1>2 DEF Names

\* What a call is: a command and a text for each argument it gives.
LEMMA CallIs ==
  ASSUME NEW asked \in Calls
  PROVE  /\ asked.command \in DOMAIN Arguments
         /\ DOMAIN asked.arguments \subseteq Names(asked.command)
              \/ DOMAIN asked.arguments = Names(asked.command) \cup {"extra"}
<1>1. PICK command, names, f :
        /\ command \in DOMAIN Arguments
        /\ f \in Given(names)
        /\ names \subseteq Names(command) \/ names = Names(command) \cup {"extra"}
        /\ asked = [command |-> command, arguments |-> f]
  BY DEF Calls
<1>2. DOMAIN f = names
  BY <1>1 DEF Given
<1>3. asked.command = command /\ DOMAIN asked.arguments = names
  BY <1>1, <1>2
<1>4. QED
  BY <1>1, <1>3

\* The parameters are the arguments of a call up to the first it leaves out.
LEMMA ParametersAre ==
  ASSUME NEW asked \in Calls, NEW order, order = Arguments[asked.command], NEW p, p = Parameters(asked)
  PROVE  /\ Len(p) \in Nat /\ DOMAIN p = 1..Len(p)
         /\ CountFits(asked) <=> DOMAIN asked.arguments = Names(asked.command)
         /\ \A i \in DOMAIN order : (\A j \in 1..i : order[j] \in DOMAIN asked.arguments)
              => i \in DOMAIN p /\ p[i] = asked.arguments[order[i]]
<1> DEFINE given == DOMAIN asked.arguments
           names == Names(asked.command)
           all == Append(order, "extra")
           n == Len(order)
           sent == {i \in 1..(n + 1) : \A j \in 1..i : all[j] \in given}
           missing == {i \in 1..(n + 1) : all[i] \notin given}
<1>1. /\ order \in Seq(ArgumentNames) /\ "extra" \notin names
      /\ given \subseteq names \/ given = names \cup {"extra"}
      /\ names = {order[i] : i \in 1..n}
      /\ n \in Nat /\ DOMAIN order = 1..n
  <2>1. asked.command \in DOMAIN Arguments
    BY CallIs
  <2>2. order \in Seq(ArgumentNames)
    BY <2>1, ArgumentsAre
  <2>3. n \in Nat /\ DOMAIN order = 1..n
    BY <2>2
  <2>4. QED
    BY <2>1, <2>2, <2>3, CallIs, ArgumentsAre DEF Names
<1>2. /\ DOMAIN all = 1..(n + 1) /\ all[n + 1] = "extra"
      /\ \A i \in 1..n : all[i] = order[i]
  BY <1>1
<1>3. p = [i \in sent |-> asked.arguments[all[i]]]
  BY <1>2 DEF Parameters
<1> HIDE DEF given, names, all, n
<1>4. ASSUME NEW k \in Nat, sent = 1..k, k = n <=> given = names
      PROVE  /\ Len(p) \in Nat /\ DOMAIN p = 1..Len(p)
             /\ CountFits(asked) <=> given = names
             /\ \A i \in DOMAIN order : (\A j \in 1..i : order[j] \in given)
                  => i \in DOMAIN p /\ p[i] = asked.arguments[order[i]]
  <2>1. DOMAIN p = 1..k
    BY <1>3, <1>4
  <2>2. Len(p) = k
    BY <2>1, LenProperties DEF sent
  <2>3. CountFits(asked) <=> Len(p) = n
    BY DEF CountFits, n
  <2>4. ASSUME NEW i \in DOMAIN order, \A j \in 1..i : order[j] \in given
        PROVE  i \in DOMAIN p /\ p[i] = asked.arguments[order[i]]
    <3>1. i \in 1..n /\ i \in 1..(n + 1) /\ \A j \in 1..i : j \in 1..n
      BY <1>1
    <3>2. \A j \in 1..i : all[j] \in given
      BY <1>2, <2>4, <3>1
    <3>3. i \in sent
      BY <3>1, <3>2
    <3>4. QED
      BY <1>2, <1>3, <3>1, <3>3
  <2>5. QED
    BY <1>4, <2>1, <2>2, <2>3, <2>4
<1>5. CASE given = names \cup {"extra"}
  <2>1. sent = 1..(n + 1)
    BY <1>1, <1>2, <1>5
  <2>2. given # names /\ n + 1 # n /\ n + 1 \in Nat
    BY <1>1, <1>5
  <2>3. QED
    BY <1>4, <2>1, <2>2 DEF given, names
<1>6. CASE given = names
  <2>1. sent = 1..n
    BY <1>1, <1>2, <1>6
  <2>2. QED
    BY <1>1, <1>4, <1>6, <2>1 DEF given, names
<1>7. CASE given \subseteq names /\ given # names
  <2>1. missing # {} /\ missing \subseteq Nat
    BY <1>1, <1>2, <1>7
  <2>2. PICK m \in missing : \A i \in missing : m <= i
    BY <2>1, FirstPosition
  <2>3. PICK i \in 1..n : order[i] \notin given
    BY <1>1, <1>7
  <2>4. m <= i /\ m \in 1..n
    BY <1>1, <1>2, <2>2, <2>3
  <2>5. sent = 1..(m - 1)
    BY <1>1, <1>2, <2>2, <2>4
  <2>6. m - 1 \in Nat /\ m - 1 # n
    BY <1>1, <2>4
  <2>7. QED
    BY <1>4, <1>7, <2>5, <2>6 DEF given, names
<1>8. QED
  BY <1>1, <1>5, <1>6, <1>7

\* The commands of the WiFi extension that configure a network.
Networked == {"cliconf", "apconf"}

\* The two handlers of a command of the user management.
LEMMA ManagementAgrees ==
  ASSUME NEW asked \in Calls, asked.command \in Management, NEW caller, ~MayDiffer(caller, asked)
  PROVE  WsManage(caller, asked) = BtManage(asked)
<1> DEFINE command == asked.command
           p == Parameters(asked)
           order == Arguments[command]
           P(name) == p[CHOOSE i \in DOMAIN order : order[i] = name]
           text(name) == IF name \in Required(command) THEN P(name) ELSE "None"
           level == LevelNumbered(text("access_level"))
<1>1. /\ BtManage(asked) =
           IF ~managed THEN Reply("Error")
           ELSE IF ~CountFits(asked) \/ "" \in {text("username"), text("password")} \/ level = "5" THEN Reply("Invalid")
           ELSE IF command = "list" THEN Reply("Success")
           ELSE Manage(command, text("username"), text("password"), level)
  BY DEF BtManage
<1>2. /\ Required(command) = Names(command)
      /\ Required(command) \subseteq {"username", "password", "access_level"}
      /\ command # "list" => "username" \in Required(command)
      /\ command \in {"add", "change_password"} => "password" \in Required(command)
      /\ command \in {"add", "change_access_level"} => "access_level" \in Required(command)
  BY DEF Required, Management, Names, Arguments
<1>3. HeadersFit(asked) <=> CountFits(asked)
  <2>1. CountFits(asked) <=> DOMAIN asked.arguments = Names(command)
    BY ParametersAre
  <2>2. HeadersFit(asked) <=> DOMAIN asked.arguments = Names(command)
    BY <1>2 DEF HeadersFit
  <2>3. QED
    BY <2>1, <2>2
<1>4. ASSUME CountFits(asked), NEW name \in Required(command)
      PROVE  text(name) = Header(asked, name)
  <2>1. DOMAIN asked.arguments = Names(command)
    BY <1>4, ParametersAre
  <2>2. name \in Names(command)
    BY <1>2
  <2>3. Names(command) = {order[i] : i \in DOMAIN order}
    BY DEF Names
  <2> HIDE DEF order, p, command
  <2>4. PICK i \in DOMAIN order : /\ order[i] = name
                                  /\ (CHOOSE k \in DOMAIN order : order[k] = name) = i
    BY <2>2, <2>3
  <2>5. \A j \in DOMAIN order : order[j] \in DOMAIN asked.arguments
    BY <2>1, <2>3
  <2>6. \A j \in 1..i : j \in DOMAIN order
    <3>1. order \in Seq(ArgumentNames)
      BY CallIs, ArgumentsAre DEF order, command
    <3>2. QED
      BY <3>1, <2>4
  <2>7. p[i] = asked.arguments[order[i]]
    BY <2>5, <2>6, ParametersAre DEF p, order, command
  <2>8. QED
    BY <1>4, <2>1, <2>2, <2>4, <2>7 DEF Header
<1>5. \A name : name \notin Required(command) => text(name) = "None"
  OBVIOUS
<1> HIDE DEF text, P, p, order
<1>6. Header(asked, "access_level") # "5"
  BY DEF MayDiffer
<1>7. CASE ~managed \/ ~CountFits(asked)
  BY <1>1, <1>3, <1>7 DEF WsManage
<1>8. CASE managed /\ CountFits(asked)
  <2>1. \A name : name \in Required(command) => text(name) = Header(asked, name)
    BY <1>4, <1>8
  <2>2. level = LevelNamed(Header(asked, "access_level"))
    <3>1. CASE "access_level" \in Required(command)
      BY <1>6, <2>1, <3>1 DEF LevelNumbered
    <3>2. CASE "access_level" \notin Required(command)
      <4>1. "access_level" \notin DOMAIN asked.arguments
        BY <1>2, <1>8, <3>2, ParametersAre
      <4>2. Header(asked, "access_level") = ""
        BY <4>1 DEF Header
      <4>3. QED
        BY <1>5, <3>2, <4>2 DEF LevelNumbered, LevelNamed
    <3>3. QED
      BY <3>1, <3>2
  <2>3. level # "5"
    BY <2>2 DEF LevelNamed
  <2> HIDE DEF level
  <2>4. "" \in {text("username"), text("password")}
          <=> \E name \in Required(command) \ {"access_level"} : Header(asked, name) = ""
    BY <1>2, <1>5, <2>1
  <2>5. CASE "" \in {text("username"), text("password")} \/ command = "list"
    BY <1>1, <1>3, <1>8, <2>3, <2>4, <2>5 DEF WsManage
  <2>6. CASE ~("" \in {text("username"), text("password")}) /\ command # "list"
    <3>1. text("username") = Header(asked, "username")
      BY <1>2, <2>1, <2>6
    <3>2. command = "remove" => Header(asked, "username") # caller
      BY DEF MayDiffer
    <3>3. WsManage(caller, asked) = Manage(command, Header(asked, "username"), Header(asked, "password"),
                                          LevelNamed(Header(asked, "access_level")))
      BY <1>3, <1>8, <2>4, <2>6, <3>2 DEF WsManage
    <3>4. BtManage(asked) = Manage(command, text("username"), text("password"), level)
      BY <1>1, <1>8, <2>3, <2>6
    <3>5. CASE command \in {"add", "change_password"}
      <4>1. text("password") = Header(asked, "password")
        BY <1>2, <2>1, <3>5
      <4>2. QED
        BY <2>2, <3>1, <3>3, <3>4, <4>1
    <3>6. CASE command \in {"change_access_level", "remove"}
      <4>1. \A name, first, second, lev : Manage(command, name, first, lev) = Manage(command, name, second, lev)
        BY <3>6 DEF Manage
      <4>2. QED
        BY <2>2, <3>1, <3>3, <3>4, <4>1
    <3>7. QED
      BY <2>6, <3>5, <3>6 DEF Management
  <2>7. QED
    BY <2>5, <2>6
<1>9. QED
  BY <1>7, <1>8

\* The two handlers of a command of the WiFi configuration.
LEMMA ConfigurationAgrees ==
  ASSUME NEW asked \in Calls, asked.command \notin Management, NEW caller, ~MayDiffer(caller, asked)
  PROVE  WsConfigure(asked) = BtConfigure(asked)
<1> DEFINE command == asked.command
           p == Parameters(asked)
           order == Arguments[command]
<1>1. command \in {"status", "scan", "cliconf", "apconf"}
  BY CallIs DEF Arguments, Management
<1>2. CountFits(asked) <=> DOMAIN asked.arguments = Names(command)
  BY ParametersAre
<1>3. CASE command \in {"status", "scan"}
  <2>1. Names(command) = {} /\ Required(command) = {}
    BY <1>3 DEF Names, Arguments, Required
  <2>2. HeadersFit(asked) <=> CountFits(asked)
    BY <1>2, <2>1 DEF HeadersFit
  <2>3. BtConfigure(asked) = Reply(IF CountFits(asked) THEN "Success" ELSE "Invalid")
    BY <1>3 DEF BtConfigure
  <2>4. QED
    BY <1>3, <2>2, <2>3 DEF WsConfigure
<1>4. CASE command \in Networked
  <2>1. /\ order[1] = "enabled" /\ 1 \in DOMAIN order /\ order # <<>>
        /\ Required(command) = {"enabled"}
        /\ "enabled" \in Names(command)
        /\ "channel" \in Names(command) <=> command = "apconf"
        /\ command \notin {"status", "scan"}
    BY <1>4 DEF Networked, Arguments, Names, Required
  <2>2. Header(asked, "enabled") \in {"true", "false"}
    BY <1>4 DEF Networked, MayDiffer
  <2>3. "enabled" \in DOMAIN asked.arguments /\ Header(asked, "enabled") = asked.arguments["enabled"]
    BY <2>2 DEF Header
  <2>4. p # <<>> /\ p[1] = Header(asked, "enabled")
    <3>1. \A j \in 1..1 : order[j] \in DOMAIN asked.arguments
      BY <2>1, <2>3
    <3> HIDE DEF order
    <3>2. 1 \in DOMAIN p /\ p[1] = asked.arguments[order[1]]
      BY <2>1, <3>1, ParametersAre DEF order
    <3>3. QED
      BY <2>1, <2>3, <3>2
  <2> HIDE DEF p, order
  <2>5. CASE Header(asked, "enabled") = "false"
    <3>1. BtConfigure(asked) = Configure(command, Off)
      BY <2>1, <2>4, <2>5 DEF BtConfigure, p
    <3>2. HeadersFit(asked)
      <4>1. "extra" \notin DOMAIN asked.arguments
        BY <1>4, <2>5 DEF MayDiffer, Networked
      <4>2. DOMAIN asked.arguments \subseteq Names(command)
        BY <4>1, CallIs
      <4>3. QED
        BY <2>1, <2>3, <4>2 DEF HeadersFit
    <3>3. WsConfigure(asked) = Configure(command, Off)
      BY <2>1, <2>5, <3>2 DEF WsConfigure, Network
    <3>4. QED
      BY <3>1, <3>3
  <2>6. CASE Header(asked, "enabled") = "true"
    <3>1. CountFits(asked) /\ Header(asked, "ssid") # ""
      BY <1>4, <2>6 DEF MayDiffer, Networked
    <3>2. DOMAIN asked.arguments = Names(command)
      BY <1>2, <3>1
    <3>3. HeadersFit(asked)
      BY <2>1, <3>2 DEF HeadersFit
    <3>4. /\ p[Len(p)] = Header(asked, "passkey") /\ p[Len(p) - 1] = Header(asked, "ssid")
          /\ command = "apconf" => p[2] = asked.arguments["channel"]
      <4>1. Len(p) = Len(order)
        BY <3>1 DEF CountFits, p, order
      <4>2. \A i \in DOMAIN order : p[i] = asked.arguments[order[i]]
        <5>1. order \in Seq(ArgumentNames)
          BY CallIs, ArgumentsAre DEF order
        <5>2. \A i \in DOMAIN order : order[i] \in DOMAIN asked.arguments
          BY <3>2 DEF Names, order
        <5>3. \A i \in DOMAIN order : \A j \in 1..i : j \in DOMAIN order
          BY <5>1
        <5>4. QED
          BY <5>2, <5>3, ParametersAre DEF p, order
      <4>3. CASE command = "cliconf"
        <5>1. Len(order) = 3 /\ order[3] = "passkey" /\ order[2] = "ssid" /\ DOMAIN order = 1..3
          BY <4>3 DEF order, Arguments
        <5>2. "passkey" \in DOMAIN asked.arguments /\ "ssid" \in DOMAIN asked.arguments
          BY <3>2, <5>1 DEF Names, order
        <5>3. QED
          BY <4>1, <4>2, <4>3, <5>1, <5>2 DEF Header
      <4>4. CASE command = "apconf"
        <5>1. Len(order) = 4 /\ order[4] = "passkey" /\ order[3] = "ssid" /\ order[2] = "channel" /\ DOMAIN order = 1..4
          BY <4>4 DEF order, Arguments
        <5>2. "passkey" \in DOMAIN asked.arguments /\ "ssid" \in DOMAIN asked.arguments
          BY <3>2, <5>1 DEF Names, order
        <5>3. QED
          BY <4>1, <4>2, <5>1, <5>2 DEF Header
      <4>5. QED
        BY <1>4, <4>3, <4>4 DEF Networked
    <3> DEFINE ssid == Header(asked, "ssid")
               passkey == Header(asked, "passkey")
               channel == IF command = "apconf" THEN asked.arguments["channel"] ELSE "1"
    <3>5. BtConfigure(asked) =
            IF ~(KeyFits(command, passkey) /\ ChannelFits(command, channel)) THEN Reply("Invalid")
            ELSE Configure(command, Network(TRUE, channel, ssid, passkey))
      <4>1. ChannelFits(command, p[2]) <=> ChannelFits(command, channel)
        BY <3>4 DEF ChannelFits
      <4>2. BtSettings(command, p) <=> KeyFits(command, passkey) /\ ChannelFits(command, channel)
        BY <3>4, <4>1 DEF BtSettings
      <4>3. (IF command = "apconf" THEN p[2] ELSE "1") = channel
        BY <3>4
      <4>4. p[1] \notin {"false", ""}
        BY <2>4, <2>6
      <4> HIDE DEF ssid, passkey, channel
      <4>5. BtConfigure(asked) =
              IF ~BtSettings(command, p) THEN Reply("Invalid")
              ELSE Configure(command, Network(TRUE, IF command = "apconf" THEN p[2] ELSE "1", p[Len(p) - 1], p[Len(p)]))
        BY <2>1, <2>4, <3>1, <4>4 DEF BtConfigure, p
      <4>6. QED
        BY <3>4, <4>2, <4>3, <4>5 DEF ssid, passkey
    <3>6. WsConfigure(asked) =
            IF ~(KeyFits(command, passkey) /\ ChannelFits(command, channel)) THEN Reply("Invalid")
            ELSE Configure(command, Network(TRUE, channel, ssid, passkey))
      <4>1. (IF "channel" \in DOMAIN asked.arguments THEN asked.arguments.channel ELSE "1") = channel
        BY <2>1, <3>2
      <4> HIDE DEF channel
      <4>2. QED
        BY <2>1, <2>6, <3>1, <3>3, <4>1 DEF WsConfigure
    <3>7. QED
      BY <3>5, <3>6
  <2>7. QED
    BY <2>2, <2>5, <2>6
<1>5. QED
  BY <1>1, <1>3, <1>4 DEF Networked

\* In every state, for every session and call, the two handlers of a command
\* answer alike and leave the same users and networks but for the differences
\* named in MayDiffer (CommandsAgree): usermanagementextension.cpp and
\* wificonfigextension.cpp, with headers by name and parameters by position.
THEOREM CommandsAlwaysAgree == CommandsSpec => []CommandsAgree
<1>1. CommandsAgree
  <2>1. SUFFICES ASSUME NEW caller \in callers, NEW asked \in Calls, ~MayDiffer(caller, asked)
                 PROVE  WsCommand(caller, asked) = BtCommand(asked)
    BY DEF CommandsAgree
  <2>2. CASE asked.command \in Management
    BY <2>1, <2>2, ManagementAgrees DEF WsCommand, BtCommand
  <2>3. CASE asked.command \notin Management
    BY <2>1, <2>3, ConfigurationAgrees DEF WsCommand, BtCommand
  <2>4. QED
    BY <2>2, <2>3
<1>2. QED
  BY <1>1, PTL

=============================================================================
