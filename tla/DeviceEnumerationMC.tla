-------------------------- MODULE DeviceEnumerationMC --------------------------
(***************************************************************************)
(* Instances of DeviceEnumeration.  The ranges are those of the code       *)
(* (9, 5 and 15 addresses known, counts up to 9, 16 and 16 taken) scaled   *)
(* down with their order kept: all Xtenders that may be counted are known, *)
(* more VarioTracks and VarioStrings may be counted than are known.        *)
(***************************************************************************)
EXTENDS DeviceEnumeration

PerKind(x, t, s) == [k \in Kinds |-> CASE k = "xtender" -> x [] k = "varioTrack" -> t [] k = "varioString" -> s]

MCKnown == PerKind(2, 2, 1)
MCCountLimit == PerKind(2, 3, 3)
MCBusBeyond == PerKind(3, 0, 1)
MCKnownFew == PerKind(2, 1, 1)
MCBusTracks == PerKind(0, 2, 0)
MCBusStrings == PerKind(0, 0, 1)
MCBusBattery == PerKind(0, 0, 0)
=============================================================================
