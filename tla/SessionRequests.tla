---------------------------- MODULE SessionRequests ----------------------------
(***************************************************************************)
(* What a client can ask for and what the two protocol objects make of it. *)
(* The requests of both transports are the same ones; the WebSocket        *)
(* protocol reads them from the headers and the body of a text frame, the  *)
(* Bluetooth protocol from the parameters of a CBOR frame, and each has a  *)
(* handler of its own for every command.                                   *)
(*                                                                         *)
(* A handler is an operator: from the access level of the session and the  *)
(* frame to the reply.  The reply says what is answered at once (status),  *)
(* for each id of a batch too (each), which ids a description lists        *)
(* (listed), the operation put into the queue, whose answer comes later    *)
(* (operation), what the storage is asked for (query), and the             *)
(* subscriptions made and ended (add, remove).                             *)
(*                                                                         *)
(* An id is the sequence of the parts between its dots.                    *)
(***************************************************************************)
EXTENDS Naturals, Sequences, FiniteSets

CONSTANTS
  Access,      \* the id of the device access
  Devices,     \* ids of its devices
  Table,       \* [Devices -> their properties, by number]
  Virtual,     \* devices that stand for all the devices of a family
  Functions,   \* [Devices -> SIDeviceFunctions]
  Star,        \* "*"
  Unknown,     \* a part of an id that names nothing
  Word,        \* a part of an id that is no number
  NoBody, BadBody,   \* no body; a body that is no JSON array
  Extensions,  \* ids of the extensions
  Allowed,     \* [Extensions -> allowedUsers]
  OnBluetooth  \* extensions that support Bluetooth

FunctionNames == {"inverter", "charger", "solar", "transfer", "battery"}

\* Properties are numbered; every driver gives each of its devices a function;
\* no access and no device is called "*".
ASSUME SessionRequestAssumption ==
  /\ \A d \in Devices : \A n \in DOMAIN Table[d] :
       Table[d][n] \in [level : Nat \ {0}, readable : BOOLEAN, writeable : BOOLEAN]
  /\ \A d \in Devices : Word \notin DOMAIN Table[d]
  /\ Virtual \subseteq Devices
  /\ Functions \in [Devices -> (SUBSET FunctionNames) \ {{}}]
  /\ OnBluetooth \subseteq Extensions
  /\ Star \notin Devices \cup {Access}

VARIABLES
  devices,        \* children of the device access
  subscriptions   \* the subscription objects: [id -> its subscribers]

Numbers == UNION {DOMAIN Table[d] : d \in Devices}

-----------------------------------------------------------------------------
(* SIGlobalPropertyID, resolveProperty and findProperties                   *)

IsValid(id) == Len(id) = 3 /\ id[3] # Word

IsWildcard(id) == IsValid(id) /\ (id[1] = Star \/ id[2] = Star)

Resolves(id) ==
  /\ IsValid(id)
  /\ id[1] = Access
  /\ id[2] \in devices
  /\ id[3] \in DOMAIN Table[id[2]]

PropertyOf(id) == Table[id[2]][id[3]]

\* The type is Invalid or the session's level is below the property's.
Hidden(level, id) == ~Resolves(id) \/ level < PropertyOf(id).level

\* Mutant: virtual devices are found whatever was asked for.
FindPropertiesOfAll(id, virtual, functions) ==
  {<<Access, d, id[3]>> : d \in {x \in devices :
     /\ IsWildcard(id)
     /\ id[1] \in {Star, Access}
     /\ virtual => x \in Virtual
     /\ functions \cap Functions[x] # {}
     /\ id[2] \in {Star, x}
     /\ id[3] \in DOMAIN Table[x]}}

FindProperties(id, virtual, functions) ==
  {<<Access, d, id[3]>> : d \in {x \in devices :
     /\ IsWildcard(id)
     /\ id[1] \in {Star, Access}
     /\ virtual = (x \in Virtual)
     /\ functions \cap Functions[x] # {}
     /\ id[2] \in {Star, x}
     /\ id[3] \in DOMAIN Table[x]}}

-----------------------------------------------------------------------------
(* Replies                                                                  *)

Reply(status) ==
  [status |-> status, each |-> <<>>, listed |-> {}, operation |-> <<>>, query |-> <<>>,
   add |-> {}, remove |-> {}]

InvalidFrame == Reply("invalid frame")

Listing(ids) == [Reply("Success") EXCEPT !.listed = ids]

\* An operation was put into the queue, its finished signal is connected.
Queued(kind, ids) == [Reply("queued") EXCEPT !.operation = <<kind, ids>>]

\* SIPropertyWriteFlag::Default.
DefaultWriteFlags == {"Permanent"}

QueuedWrite(id, flags, value) ==
  [Reply("queued") EXCEPT !.operation = <<"write", <<id>>, flags, value>>]

\* The storage is asked; the status, which is its answer, is named for the query.
Stored(kind, arguments) == [Reply(kind) EXCEPT !.query = arguments]

\* subscribeToProperty and unsubscribeFromProperty with their results.
Subscribe(id) == IF Resolves(id) THEN [Reply("Success") EXCEPT !.add = {id}] ELSE Reply("Error")

Unsubscribe(id) ==
  IF id \in DOMAIN subscriptions THEN [Reply("Success") EXCEPT !.remove = {id}] ELSE Reply("Error")

\* The answer to a batch: the answers to its ids.
Batch(replies) ==
  [Reply("Success") EXCEPT
    !.each = [i \in DOMAIN replies |-> replies[i].status],
    !.add = UNION {replies[i].add : i \in DOMAIN replies},
    !.remove = UNION {replies[i].remove : i \in DOMAIN replies}]

\* availableExtensions, as AUTHORIZED tells it to the client.
AllowedForUser(user, x) == Allowed[x] = {} \/ user \in Allowed[x]

WebSocketExtensions(user) == {x \in Extensions : AllowedForUser(user, x)}

BluetoothExtensions(user) == {x \in OnBluetooth : AllowedForUser(user, x)}

=============================================================================
