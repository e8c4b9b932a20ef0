--------------------------- MODULE OperationExecution ---------------------------
(***************************************************************************)
(* What the gateway promises to whoever enqueues a device operation,       *)
(* whatever the machinery behind it: a submitted request is started in the *)
(* order of submission, started once and finished once.  Executions nest:  *)
(* while the driver waits for the bus inside a request of Waiting, the     *)
(* event loop may start the next one, which then finishes first.           *)
(*                                                                         *)
(* OperationQueue models the C++ mechanism (a queue, a pointer and posted  *)
(* events) and is shown to implement this module.                          *)
(***************************************************************************)
EXTENDS Sequences, SequencesExt

CONSTANTS
  Requests,   \* the requests that may be submitted, each of them once
  Waiting     \* those whose driver call dispatches events while it waits

VARIABLES
  waiting,    \* submitted, not started, oldest first
  running,    \* started, not finished, the innermost first
  finished    \* the requests whose finished signal was emitted

execVars == <<waiting, running, finished>>

Submitted == ToSet(waiting) \cup ToSet(running) \cup finished

MayDispatch == running # <<>> => Head(running) \in Waiting

-----------------------------------------------------------------------------

ExecInit ==
  /\ waiting = <<>>
  /\ running = <<>>
  /\ finished = {}

Submit(r) ==
  /\ MayDispatch
  /\ r \notin Submitted
  /\ waiting' = Append(waiting, r)
  /\ UNCHANGED <<running, finished>>

Start ==
  /\ MayDispatch
  /\ waiting # <<>>
  /\ running' = <<Head(waiting)>> \o running
  /\ waiting' = Tail(waiting)
  /\ UNCHANGED finished

Finish ==
  /\ running # <<>>
  /\ finished' = finished \cup {Head(running)}
  /\ running' = Tail(running)
  /\ UNCHANGED waiting

ExecNext == (\E r \in Requests : Submit(r)) \/ Start \/ Finish

ExecSafety == ExecInit /\ [][ExecNext]_execVars

ExecSpec == ExecSafety /\ WF_execVars(Start) /\ WF_execVars(Finish)

=============================================================================
