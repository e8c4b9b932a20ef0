------------------------------ MODULE DevicesMC ------------------------------
(***************************************************************************)
(* Instances for TLC of the enumeration of devices and of the sessions     *)
(* whose requests are about them.  A behaviour is one of the one or of the *)
(* other: Sessions has enumerations as a step that replaces the devices.   *)
(***************************************************************************)
EXTENDS DeviceEnumerationMC, SessionsMC

VARIABLE part

allVars == <<vars, sessionVars, part>>

MCInit ==
  /\ part \in {"enumeration", "sessions"}
  /\ Init
  /\ SessionsInit
  /\ part = "enumeration" => devices = {}
  /\ part = "sessions" => forceSlow

MCNext ==
  \/ part = "enumeration" /\ Next /\ UNCHANGED <<sessionVars, part>>
  \/ part = "sessions" /\ SessionsNext /\ UNCHANGED <<vars, part>>

MCSpec == MCInit /\ [][MCNext]_allVars

=============================================================================
