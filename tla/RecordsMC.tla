------------------------------ MODULE RecordsMC ------------------------------
(***************************************************************************)
(* Instances for TLC of the components that keep records, none of which    *)
(* shares state with another: the SQLite storage, the web storage, the     *)
(* file of users, the registers of an Xcom-485i device, the data   *)
(* log configuration that is read at the start, and what the commands of   *)
(* the extensions change.  A behaviour is one of one of them.  The         *)
(* instances are small in the number of ids and keys, and large enough in  *)
(* time, changes and failures for two writers, a failed commit under a     *)
(* later batch, and a clean-up in between.                                 *)
(***************************************************************************)
EXTENDS Storage, WebStorage, UserFile, XcomRegisters, DataLogConfiguration,
        ExtensionCommands

VARIABLE part

allVars == <<storageVars, webVars, userFileVars, vars, configurationVars, commandVars, part>>

\* Every table of the devices once or more, of the models a reading names.
MCReadings ==
  [Xtender |-> {1, 7}, VarioTrack |-> {0}, VarioString |-> {12801, 0}, BatteryManager |-> {NotANumber, 3}]

\* Times with and without minutes.
MCTimes == {[hour |-> 13, minute |-> 0, second |-> 0], [hour |-> 8, minute |-> 45, second |-> 20]}

MCInit ==
  /\ part \in {"storage", "web", "users", "registers", "configuration", "commands"}
  /\ StorageInit
  /\ WebInit
  /\ UserFileInit
  /\ Init \/ InitMulticast
  /\ part # "registers" => device = "BSP"
  /\ ConfigurationInit
  /\ CommandsInit
  /\ part # "commands" => managed
  /\ callers = IF part = "commands" THEN People \cup {Guest} ELSE {}

MCNext ==
  \/ /\ part = "storage" /\ StorageNext
     /\ UNCHANGED <<webVars, userFileVars, vars, configurationVars, commandVars, part>>
  \/ /\ part = "web" /\ WebNext
     /\ UNCHANGED <<storageVars, userFileVars, vars, configurationVars, commandVars, part>>
  \/ /\ part = "users" /\ UserFileNext
     /\ UNCHANGED <<storageVars, webVars, vars, configurationVars, commandVars, part>>
  \/ /\ part = "registers" /\ Next
     /\ UNCHANGED <<storageVars, webVars, userFileVars, configurationVars, commandVars, part>>
  \/ /\ part = "configuration" /\ ConfigurationNext
     /\ UNCHANGED <<storageVars, webVars, userFileVars, vars, commandVars, part>>
  \/ /\ part = "commands" /\ CommandsNext
     /\ UNCHANGED <<storageVars, webVars, userFileVars, vars, configurationVars, part>>

MCSpec == MCInit /\ [][MCNext]_allVars

=============================================================================
