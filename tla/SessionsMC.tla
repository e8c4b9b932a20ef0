------------------------------ MODULE SessionsMC ------------------------------
(***************************************************************************)
(* Instance of Sessions for TLC: two devices, one of them a virtual one,   *)
(* with properties for two levels, a client of each transport, a user and  *)
(* the guests.                                                             *)
(***************************************************************************)
EXTENDS Sessions, TLC

CONSTANTS solar, sum, n1, n2, anne, wifi, notes

MCTable ==
  solar :> (n1 :> [level |-> 1, readable |-> TRUE, writeable |-> FALSE]
        @@ n2 :> [level |-> 2, readable |-> FALSE, writeable |-> TRUE])
  @@ sum :> (n2 :> [level |-> 2, readable |-> TRUE, writeable |-> TRUE])

MCFunctions == solar :> {"inverter", "charger"} @@ sum :> {"battery"}

MCAllowed == wifi :> {} @@ notes :> {anne}

MCLevelOf == anne :> 2

\* Ids of one to three parts, of what is there and what is not, with and without
\* "*", and with a word for the number.
MCIds ==
  {<<Access>>, <<Unknown>>, <<Access, solar>>, <<Access, sum>>, <<Access, Unknown>>, <<Unknown, sum>>}
  \cup {<<Access, d, n>> : d \in {solar, sum}, n \in {n1, n2}}
  \cup {<<Star, Star, n2>>, <<Access, Star, n1>>, <<Star, sum, n2>>, <<Unknown, Star, n1>>,
        <<Unknown, solar, n1>>, <<Access, Unknown, n1>>, <<Access, solar, Unknown>>, <<Access, sum, Word>>}

\* None, one and two ids: of each kind of property, of a device that may be
\* away, and ids that name nothing.
MCBatches ==
  LET some == {<<Access, solar, n1>>, <<Access, solar, n2>>, <<Access, sum, n2>>,
               <<Access, Unknown, n1>>, <<Access, Star, n1>>, <<Unknown>>}
  IN  {<<>>} \cup {<<id>> : id \in some} \cup {<<x, y>> : x, y \in some}

=============================================================================
