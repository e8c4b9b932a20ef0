------------------------------ MODULE RequestReply ------------------------------
(***************************************************************************)
(* What a client may expect of the gateway: a request is replied to at     *)
(* most once, and it is replied to unless the client leaves first.  When a *)
(* client leaves, what it has asked for is abandoned and nobody else gets  *)
(* the reply.                                                              *)
(***************************************************************************)
CONSTANTS
  Requests,
  Clients,
  ClientOf      \* [Requests -> Clients]

VARIABLE state  \* of each request, as its client sees it

States == {"idle", "asked", "replied", "abandoned"}

-----------------------------------------------------------------------------

RRInit == state = [r \in Requests |-> "idle"]

Ask(r) ==
  /\ state[r] = "idle"
  /\ state' = [state EXCEPT ![r] = "asked"]

Reply(r) ==
  /\ state[r] = "asked"
  /\ state' = [state EXCEPT ![r] = "replied"]

\* Refused on the spot: the property is unknown, or the access not allowed.
Refuse(r) ==
  /\ state[r] = "idle"
  /\ state' = [state EXCEPT ![r] = "replied"]

Leave(c) ==
  state' = [r \in Requests |-> IF ClientOf[r] = c /\ state[r] = "asked" THEN "abandoned" ELSE state[r]]

RRNext ==
  \/ \E r \in Requests : Ask(r) \/ Reply(r) \/ Refuse(r)
  \/ \E c \in Clients : Leave(c)

RRSafety == RRInit /\ [][RRNext]_state

RRSpec == RRSafety /\ \A r \in Requests : WF_state(Reply(r))

=============================================================================
