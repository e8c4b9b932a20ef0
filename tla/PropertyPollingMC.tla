---------------------------- MODULE PropertyPollingMC ----------------------------
(***************************************************************************)
(* Instances of PropertyPolling for TLC: two properties on one device or   *)
(* on two, clients that come and go.                                       *)
(***************************************************************************)
EXTENDS PropertyPolling

CONSTANTS power, voltage, inverter, solar

MCProperties == {power, voltage}
MCDevices == {inverter, solar}
MCDeviceOf == power :> inverter @@ voltage :> solar

=============================================================================
