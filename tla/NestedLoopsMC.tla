---------------------------- MODULE NestedLoopsMC ----------------------------
(***************************************************************************)
(* Instances for TLC of the three components in which handlers run inside  *)
(* each other: the operation queue, whose drivers dispatch events while    *)
(* they wait; the Bluetooth link, of which the handlers of other events    *)
(* run inside an extension call; and the WiFi extension, which makes these *)
(* calls last.  A behaviour is one of one of them.                         *)
(*                                                                         *)
(* The queue has a write and a read through a driver that waits for its    *)
(* bus, a read through a driver that answers at once, and one polled       *)
(* object that is enqueued up to three times.                              *)
(*                                                                         *)
(* Frames of the link have one fragment, a whole number of fragments and   *)
(* more fragments than a header can name, in both directions.              *)
(***************************************************************************)
EXTENDS OperationQueue, BluetoothLink, WifiConfig, TLC

CONSTANTS write, read, demoRead, poll1, poll2, poll3, poll

VARIABLE part

allVars == <<vars, bluetoothVars, wifiVars, part>>

MCRequests == {write, read, demoRead, poll1, poll2, poll3}
MCObjects == {write, read, demoRead, poll}
MCObjectOf == [r \in MCRequests |-> IF r \in {poll1, poll2, poll3} THEN poll ELSE r]
MCWaiting == MCRequests \ {demoRead}

MCLength ==
  ("authorize" :> 1) @@ ("refused" :> 1) @@ ("ask" :> 4) @@ ("later" :> 2) @@ ("call" :> 7) @@
  ("authorized" :> 3) @@ ("error" :> 2) @@ ("answer" :> 7) @@ ("message" :> 1)

MCInit == part \in {"queue", "link", "wifi"} /\ Init /\ BluetoothInit /\ WifiInit

OfQueue(action) == part = "queue" /\ action /\ UNCHANGED <<bluetoothVars, wifiVars, part>>
OfLink(action) == part = "link" /\ action /\ UNCHANGED <<vars, wifiVars, part>>
OfWifi(action) == part = "wifi" /\ action /\ UNCHANGED <<vars, bluetoothVars, part>>

MCNext == OfQueue(Next) \/ OfLink(BluetoothNext) \/ OfWifi(WifiNext)

\* The fairness of the component the behaviour is one of.
MCFairness ==
  /\ WF_allVars(OfQueue(ExecuteNextEmpty \/ ExecuteNext))
  /\ WF_allVars(OfQueue(FinishExecution))
  /\ WF_allVars(OfLink(StartAdvertise))
  /\ WF_allVars(OfLink(OnCharacteristicChanged))
  /\ WF_allVars(OfLink(CallReturns))
  /\ WF_allVars(OfLink(ClientReceives))
  /\ WF_allVars(OfLink(OnDisconnected))
  /\ WF_allVars(OfWifi(Proceed))
  /\ WF_allVars(OfWifi(Fail))
  /\ WF_allVars(OfWifi(\E i \in DOMAIN handlers : End(i)))

MCSpec == MCInit /\ [][MCNext]_allVars /\ MCFairness

=============================================================================
