----------------------------- MODULE WifiConfig -----------------------------
(***************************************************************************)
(* The WiFi configuration extension                                        *)
(* (drivers/extension/wificonfig/wificonfigextension.cpp).  A command runs *)
(* inside handleFrame, and execute_ waits for a process in an event loop   *)
(* of its own: other frames are handled inside of it, and a handler goes   *)
(* on only when those it was interrupted by have returned.  The commands   *)
(* on the stack are therefore a stack, and the two configuration files are *)
(* shared by all of them.                                                  *)
(***************************************************************************)
EXTENDS Naturals, Sequences, FiniteSets

CONSTANTS
    Networks,       \* the settings of a cliconf that enables the client
    Secured,        \* those with a pass key
    NoNetwork,      \* the settings of one that disables it
    MaxCommands,    \* bound on the commands
    MaxUnstarted    \* bound on the processes that do not start

ASSUME WifiAssumption == Secured \subseteq Networks /\ NoNetwork \notin Networks

VARIABLES
    handlers,       \* the handlers on the stack, the innermost last
    supplicant,     \* wpa_supplicant.conf: the networks after the header
    hostapd,        \* the service: enabled, running
    commands,       \* number of commands
    unstarted,      \* number of processes that did not start
    asked,          \* what the last command of a kind asked for, if it succeeded (history)
    interrupted     \* the kinds of which one ran inside another (history)

wifiVars == <<handlers, supplicant, hostapd, commands, unstarted, asked, interrupted>>

Unknown == "unknown"

(* The processes a command waits for, in order: execute_ of each function. *)
Processes(command, network) ==
    CASE command = "status"  -> <<"iwgetid", "grep">>
      [] command = "cliconf" -> IF network \in Secured THEN <<"wpa_passphrase", "wpa_cli">>
                                ELSE <<"wpa_cli">>
      [] command = "apconf"  -> IF network = NoNetwork THEN <<"stop", "disable">>
                                ELSE <<"stop", "enable", "start">>

WifiInit ==
    /\ handlers = <<>>
    /\ supplicant = {NoNetwork}
    /\ hostapd = [enabled |-> FALSE, running |-> FALSE]
    /\ commands = 0
    /\ unstarted = 0
    /\ asked = [cliconf |-> NoNetwork, apconf |-> NoNetwork]
    /\ interrupted = {}

Of(command) == {i \in DOMAIN handlers : handlers[i].command = command}

(* A command arrives in the event loop, of the daemon or of a handler, and *)
(* runs until its first process is started; clientSetup has truncated the  *)
(* file by then and, unless it waits for the pass key, written the network.*)
(* scan waits in no event loop and is left out.                            *)
Begin(command, network) ==
    /\ commands < MaxCommands
    /\ command = "status" => network = NoNetwork
    /\ command = "apconf" => network \in {NoNetwork, CHOOSE n \in Networks : TRUE}
    /\ commands' = commands + 1
    /\ supplicant' = IF command # "cliconf" THEN supplicant
                     ELSE {network} \ Secured
    /\ interrupted' = interrupted \cup {c \in {command} : Of(c) # {}}
    /\ handlers' = Append(handlers,
          [command |-> command, network |-> network,
           waits |-> Processes(command, network), process |-> "runs"])
    /\ UNCHANGED <<hostapd, unstarted, asked>>

(* Mutant: the event loop is left for exit code 0 only.                    *)
EndOfSuccess(i) ==
    /\ handlers[i].process = "runs"
    /\ \E process \in {"succeeds", "unstarted"} :
          handlers' = [handlers EXCEPT ![i].process = process]
    /\ UNCHANGED <<supplicant, hostapd, commands, unstarted, asked, interrupted>>

(* The process a handler waits for ends, with exit code 0 or another, or   *)
(* it could not be started: then "finished" is never emitted.              *)
End(i) ==
    /\ handlers[i].process = "runs"
    /\ \E process \in {"succeeds", "fails"} :
          handlers' = [handlers EXCEPT ![i].process = process]
    /\ UNCHANGED <<supplicant, hostapd, commands, unstarted, asked, interrupted>>

FailToStart(i) ==
    /\ handlers[i].process = "runs"
    /\ unstarted < MaxUnstarted
    /\ unstarted' = unstarted + 1
    /\ handlers' = [handlers EXCEPT ![i].process = "unstarted"]
    /\ UNCHANGED <<supplicant, hostapd, commands, asked, interrupted>>

----------------------------------------------------------------------------
Top == handlers[Len(handlers)]
Pop == handlers' = SubSeq(handlers, 1, Len(handlers) - 1)

(* The next process of the innermost handler is started.                   *)
WaitForNext ==
    handlers' = [handlers EXCEPT ![Len(handlers)].waits = Tail(@),
                                 ![Len(handlers)].process = "runs"]

(* What a process that succeeded has done to the service.                  *)
Serviced(process) ==
    CASE process = "stop"    -> [hostapd EXCEPT !.running = FALSE]
      [] process = "start"   -> [hostapd EXCEPT !.running = TRUE]
      [] process = "enable"  -> [hostapd EXCEPT !.enabled = TRUE]
      [] process = "disable" -> [hostapd EXCEPT !.enabled = FALSE]
      [] OTHER               -> hostapd

(* After wpa_passphrase the network is written behind the header, over     *)
(* what another handler has written there meanwhile, which may be longer.  *)
WriteNetwork(network) == supplicant' \in {{network}, {network} \cup supplicant}

(* Mutant: the network is not written after wpa_passphrase.                *)
ProceedUnwritten ==
    /\ handlers # <<>>
    /\ Top.process = "succeeds"
    /\ IF Len(Top.waits) > 1 THEN WaitForNext /\ UNCHANGED asked
       ELSE /\ Pop
            /\ asked' = [c \in DOMAIN asked |->
                           IF c = Top.command THEN Top.network ELSE asked[c]]
    /\ hostapd' = Serviced(Head(Top.waits))
    /\ UNCHANGED <<supplicant, commands, unstarted, interrupted>>

(* The innermost handler goes on after its process has ended well (or, for *)
(* status, ended): to its next process, or to its answer.                  *)
Proceed ==
    /\ handlers # <<>>
    /\ \/ Top.process = "succeeds"
       \/ Top.process = "fails" /\ Top.command = "status"
    /\ IF Head(Top.waits) = "wpa_passphrase" THEN WriteNetwork(Top.network)
       ELSE UNCHANGED supplicant
    /\ hostapd' = Serviced(Head(Top.waits))
    /\ IF Len(Top.waits) > 1 THEN WaitForNext /\ UNCHANGED asked
       ELSE /\ Pop
            /\ asked' = [c \in DOMAIN asked |->
                           IF c = Top.command THEN Top.network ELSE asked[c]]
    /\ UNCHANGED <<commands, unstarted, interrupted>>

(* A process that ended with another code ends the other commands with an  *)
(* error.  What was done so far stays: a truncated file, a stopped service.*)
Fail ==
    /\ handlers # <<>>
    /\ Top.process = "fails"
    /\ Top.command # "status"
    /\ Pop
    /\ asked' = [asked EXCEPT ![Top.command] = Unknown]
    /\ UNCHANGED <<supplicant, hostapd, commands, unstarted, interrupted>>

WifiNext ==
    \/ \E command \in {"status", "cliconf", "apconf"},
          network \in Networks \cup {NoNetwork} : Begin(command, network)
    \/ \E i \in DOMAIN handlers : End(i) \/ FailToStart(i)
    \/ Proceed
    \/ Fail

(* Processes end, and the event loop of a handler runs.                    *)
WifiFairness ==
    /\ WF_wifiVars(\E i \in DOMAIN handlers : End(i))
    /\ WF_wifiVars(Proceed)
    /\ WF_wifiVars(Fail)

WifiSpec == WifiInit /\ [][WifiNext]_wifiVars /\ WifiFairness
----------------------------------------------------------------------------
WifiTypeOK ==
    /\ supplicant \subseteq Networks \cup {NoNetwork}
    /\ hostapd \in [enabled : BOOLEAN, running : BOOLEAN]
    /\ \A i \in DOMAIN handlers :
          /\ handlers[i].process \in {"runs", "succeeds", "fails", "unstarted"}
          /\ handlers[i].waits # <<>>

(* A command that answered with success leaves what it asked for, in the   *)
(* file and in the service, until a command of its kind comes, unless one  *)
(* of its kind has run inside another: the pass key is waited for with the *)
(* file truncated and half written.                                        *)
SuccessIsConfigured ==
    /\ "cliconf" \notin interrupted /\ Of("cliconf") = {} /\ asked.cliconf # Unknown
          => supplicant = {asked.cliconf}
    /\ "apconf" \notin interrupted /\ Of("apconf") = {} /\ asked.apconf # Unknown
          => hostapd = [enabled |-> asked.apconf # NoNetwork,
                        running |-> asked.apconf # NoNetwork]

(* As long as every process starts, every handler returns in the end, the  *)
(* outermost last; one process that does not start keeps all handlers      *)
(* outside of it from returning.                                           *)
HandlersReturn == [](unstarted = 0) => [](handlers # <<>> => <>(handlers = <<>>))
=============================================================================
