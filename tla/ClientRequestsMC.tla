---------------------------- MODULE ClientRequestsMC ----------------------------
(***************************************************************************)
(* Instances of ClientRequests for TLC: a browser with a batch read of two *)
(* properties and a write, a phone connected by Bluetooth with a read, and *)
(* a second browser with an enumeration.                                   *)
(***************************************************************************)
EXTENDS ClientRequests

CONSTANTS browser, panel, phone, batch, write, read, enumerate

MCClients == {browser, panel, phone}
MCRequests == {batch, write, read, enumerate}
MCClientOf == batch :> browser @@ write :> browser @@ read :> phone @@ enumerate :> panel
MCPartCount == batch :> 2 @@ write :> 1 @@ read :> 1 @@ enumerate :> 1

=============================================================================
