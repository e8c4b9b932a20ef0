-------------------------------- MODULE FrameLink --------------------------------
(***************************************************************************)
(* What one direction of a connection promises: the frames arrive whole,   *)
(* once, in the order in which they were sent, and they all arrive unless  *)
(* the connection ends, which drops what is still on its way.              *)
(***************************************************************************)
EXTENDS Sequences, Naturals

CONSTANT Frames

VARIABLES
  sent,       \* frames sent in this connection
  delivered   \* frames delivered in this connection

linkVars == <<sent, delivered>>

-----------------------------------------------------------------------------

LinkInit == sent = <<>> /\ delivered = <<>>

Send ==
  /\ \E frame \in Frames : sent' = Append(sent, frame)
  /\ UNCHANGED delivered

Deliver ==
  /\ Len(delivered) < Len(sent)
  /\ delivered' = Append(delivered, sent[Len(delivered) + 1])
  /\ UNCHANGED sent

Reset == sent' = <<>> /\ delivered' = <<>>

LinkNext == Send \/ Deliver \/ Reset

LinkSafety == LinkInit /\ [][LinkNext]_linkVars

LinkSpec == LinkSafety /\ WF_linkVars(Deliver)

=============================================================================
