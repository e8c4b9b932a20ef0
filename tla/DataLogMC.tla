----------------------------- MODULE DataLogMC -----------------------------
(***************************************************************************)
(* Instance of DataLog for TLC: a group with an id without wildcard and    *)
(* two wildcards that overlap, on real devices and a virtual one, and a    *)
(* group with an id without wildcard of the virtual device.                *)
(***************************************************************************)
EXTENDS DataLog, TLC

CONSTANTS minutes, hours, solar, inverter, sum, solarPower, sumPower, inverterLoad, sumLoad,
          everyPower, everySolar

MCGroups == {minutes, hours}
MCIds == {solarPower, sumPower, inverterLoad, sumLoad}
MCDeviceOf == solarPower :> solar @@ inverterLoad :> inverter @@ sumPower :> sum @@ sumLoad :> sum
MCExplicit == minutes :> {inverterLoad} @@ hours :> {sumLoad}
MCWildcards == minutes :> {everyPower, everySolar} @@ hours :> {}
MCMatched == everyPower :> {solarPower, sumPower} @@ everySolar :> {solarPower}

=============================================================================
