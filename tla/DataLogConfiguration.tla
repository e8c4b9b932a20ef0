------------------------ MODULE DataLogConfiguration ------------------------
(***************************************************************************)
(* The parser of the data log configuration: lines with an interval and    *)
(* lines with a property id, which may be a wildcard for the device access *)
(* or for the device or for both.  Reading stops at the first error.       *)
(*                                                                         *)
(* The order of the ids of an interval decides nothing but the order of    *)
(* reading: they are kept as sets.                                         *)
(***************************************************************************)
EXTENDS Naturals, FiniteSets

CONSTANTS
  AccessParts, DeviceParts, NumberParts,   \* the parts of a property id
  Star,                           \* the part "*" of a wildcard id
  Intervals,                    \* the intervals lines name, 0 among them
  MaxLines                      \* bound on the lines of the file

ASSUME ConfigurationAssumption ==
  /\ Star \notin AccessParts \cup DeviceParts
  /\ Intervals \subseteq Nat
  /\ 0 \in Intervals
  /\ MaxLines \in Nat

VARIABLES
  lineNumber,
  interval,        \* actualReadInterval
  properties,      \* properties_ of each interval
  outcome          \* reading, valid, or the error thrown

configurationVars == <<lineNumber, interval, properties, outcome>>

LineIds == [access: AccessParts \cup {Star}, device: DeviceParts \cup {Star}, number: NumberParts]

Errors == {"syntax", "noInterval", "invalidId", "duplicate"}

ConfigurationTypeOK ==
  /\ lineNumber \in 0..MaxLines
  /\ interval \in Intervals
  /\ properties \in [Intervals -> SUBSET LineIds]
  /\ outcome \in {"reading", "valid"} \cup Errors

-----------------------------------------------------------------------------

IsWildcard(id) == id.access = Star \/ id.device = Star

\* id is a wildcard that the parts of the other id fit.
IdMatches(id, other) ==
  /\ IsWildcard(id)
  /\ id.number = other.number
  /\ id.device \in {Star, other.device}
  /\ id.access \in {Star, other.access}

AllLineIds == UNION {properties[i] : i \in Intervals}

\* The duplicates the parser refuses.
Conflicts(id, existing) == id = existing \/ IdMatches(existing, id) \/ IdMatches(id, existing)

ConfigurationInit ==
  /\ lineNumber = 0
  /\ interval = 0
  /\ properties = [i \in Intervals |-> {}]
  /\ outcome = "reading"

ReadLine ==
  /\ outcome = "reading"
  /\ lineNumber < MaxLines
  /\ lineNumber' = lineNumber + 1

\* A comment or an empty line.
SkipLine ==
  /\ ReadLine
  /\ UNCHANGED <<interval, properties, outcome>>

IntervalLine(i) ==
  /\ ReadLine
  /\ interval' = i
  /\ UNCHANGED <<properties, outcome>>

\* "interval " is not followed by one number.
MalformedIntervalLine ==
  /\ ReadLine
  /\ outcome' = "syntax"
  /\ UNCHANGED <<interval, properties>>

\* A line with something that is no id.
InvalidLine ==
  /\ ReadLine
  /\ outcome' = IF interval = 0 THEN "noInterval" ELSE "invalidId"
  /\ UNCHANGED <<interval, properties>>

\* Mutant: the ids of the interval are compared in place of all ids.
PropertyLineOfInterval(id) ==
  /\ ReadLine
  /\ UNCHANGED interval
  /\ outcome' = IF interval = 0 THEN "noInterval"
                ELSE IF \E existing \in properties[interval] : Conflicts(id, existing)
                     THEN "duplicate" ELSE "reading"
  /\ properties' = IF outcome' = "reading"
                   THEN [properties EXCEPT ![interval] = @ \cup {id}] ELSE properties

PropertyLine(id) ==
  /\ ReadLine
  /\ UNCHANGED interval
  /\ outcome' = IF interval = 0 THEN "noInterval"
                ELSE IF \E existing \in AllLineIds : Conflicts(id, existing)
                     THEN "duplicate" ELSE "reading"
  /\ properties' = IF outcome' = "reading"
                   THEN [properties EXCEPT ![interval] = @ \cup {id}] ELSE properties

EndOfFile ==
  /\ outcome = "reading"
  /\ outcome' = "valid"
  /\ UNCHANGED <<lineNumber, interval, properties>>

ConfigurationNext ==
  \/ SkipLine
  \/ \E i \in Intervals : IntervalLine(i)
  \/ MalformedIntervalLine
  \/ InvalidLine
  \/ \E id \in LineIds : PropertyLine(id)
  \/ EndOfFile

ConfigurationSpec == ConfigurationInit /\ [][ConfigurationNext]_configurationVars

-----------------------------------------------------------------------------

\* The properties an id stands for.
Covered(id) ==
  {p \in [access: AccessParts, device: DeviceParts, number: NumberParts] : p = id \/ IdMatches(id, p)}

\* One id names the device access and the other the device.
Crossed(i, j) ==
  \/ i.access = Star /\ i.device # Star /\ j.device = Star /\ j.access # Star
  \/ j.access = Star /\ j.device # Star /\ i.device = Star /\ i.access # Star

(***************************************************************************)
(* What the comparison of a new id with all before it achieves: a property *)
(* is logged by one id of one interval only.  The exception is two         *)
(* wildcards that cross, a device access with any device and a device with *)
(* any access: both are accepted, and what they share is logged twice.     *)
(***************************************************************************)
OverlapsAreCrossed ==
  \A i, j \in Intervals : \A x \in properties[i], y \in properties[j] :
    Covered(x) \cap Covered(y) # {} => (x = y /\ i = j) \/ Crossed(x, y)

=============================================================================
