-------------------------- MODULE ExtensionCommands --------------------------
(***************************************************************************)
(* The commands of the user management and the WiFi configuration          *)
(* extension (usermanagementextension.cpp, wificonfigextension.cpp).  Each *)
(* has a handler for WebSocket, with its arguments as headers by name, and *)
(* one for Bluetooth, with its arguments as parameters by position; both   *)
(* end in the same functions.                                              *)
(*                                                                         *)
(* The files and processes do not fail here: UserFile and WifiConfig model *)
(* how they do.                                                            *)
(***************************************************************************)
EXTENDS Naturals, Sequences

CONSTANTS
  People,   \* names of users, texts
  Guest     \* the name of a session without one, the empty text

ASSUME CommandAssumption == Guest = "" /\ Guest \notin People

VARIABLES
  callers,  \* the names of the sessions that call commands
  managed,  \* is there an authorizer that supports management?
  accounts, \* [name -> password and level] in the user file
  radio     \* the configured client and access point

commandVars == <<callers, managed, accounts, radio>>

\* The arguments of the commands, in the order of the Bluetooth parameters.
Arguments ==
  [list |-> <<>>, add |-> <<"username", "password", "access_level">>,
   change_password |-> <<"username", "password">>,
   change_access_level |-> <<"username", "access_level">>, remove |-> <<"username">>,
   status |-> <<>>, scan |-> <<>>, cliconf |-> <<"enabled", "ssid", "passkey">>,
   apconf |-> <<"enabled", "channel", "ssid", "passkey">>]

Names(command) == {Arguments[command][i] : i \in DOMAIN Arguments[command]}
Management == {"list", "add", "change_password", "change_access_level", "remove"}
Off == [enabled |-> FALSE]

CommandsInit ==
  /\ callers \in SUBSET (People \cup {Guest})
  /\ managed \in BOOLEAN
  /\ accounts = <<>>
  /\ radio = [client |-> Off, ap |-> Off]

-----------------------------------------------------------------------------
(* What both handlers of a command end in.                                  *)

Reply(status) == [status |-> status, accounts |-> accounts, radio |-> radio]
Stored(users) == [Reply("Success") EXCEPT !.accounts = users]

Manage(command, name, password, level) ==
  IF (name \in DOMAIN accounts) = (command = "add") THEN Reply("Error")
  ELSE
  CASE command = "add" -> Stored([x \in DOMAIN accounts \cup {name} |->
           IF x = name THEN [password |-> password, level |-> level] ELSE accounts[x]])
    [] command = "change_password" -> Stored([accounts EXCEPT ![name].password = password])
    [] command = "change_access_level" -> Stored([accounts EXCEPT ![name].level = level])
    [] command = "remove" -> Stored([x \in DOMAIN accounts \ {name} |-> accounts[x]])

\* The settings of a network that is not enabled are not looked at.
Network(enabled, channel, ssid, passkey) ==
  IF enabled THEN [enabled |-> TRUE, channel |-> channel, ssid |-> ssid, passkey |-> passkey] ELSE Off

Configure(command, network) ==
  [Reply("Success") EXCEPT !.radio = IF command = "cliconf" THEN [@ EXCEPT !.client = network]
                                      ELSE [@ EXCEPT !.ap = network]]

\* Pass keys are 8 characters or more, or, of a client, none.
KeyFits(command, passkey) == passkey = "longenough" \/ (command = "cliconf" /\ passkey = "")
ChannelFits(command, channel) == command = "apconf" => channel \in {"1", "13"}

-----------------------------------------------------------------------------
(* WebSocket: headers by name.                                              *)

Header(call, name) == IF name \in DOMAIN call.arguments THEN call.arguments[name] ELSE ""

Required(command) ==
  IF command \in {"cliconf", "apconf"} THEN {"enabled"}
  ELSE Names(command)

HeadersFit(call) ==
  /\ Required(call.command) \subseteq DOMAIN call.arguments
  /\ DOMAIN call.arguments \subseteq Names(call.command)

\* A text that names no level is the level None.
LevelNamed(text) == IF text \in {"Basic", "Installer", "Expert", "QSP"} THEN text ELSE "None"

WsManage(caller, call) ==
  IF ~managed THEN Reply("Error")
  ELSE IF ~HeadersFit(call) \/ \E name \in Required(call.command) \ {"access_level"} : Header(call, name) = ""
    THEN Reply("Invalid")
  ELSE IF call.command = "list" THEN Reply("Success")
  ELSE IF call.command = "remove" /\ Header(call, "username") = caller THEN Reply("Error")
  ELSE Manage(call.command, Header(call, "username"), Header(call, "password"),
              LevelNamed(Header(call, "access_level")))

WsConfigure(call) ==
  LET command == call.command
      enabled == Header(call, "enabled") = "true"
      channel == IF "channel" \in DOMAIN call.arguments THEN call.arguments.channel ELSE "1"
      ssid == Header(call, "ssid")
      passkey == Header(call, "passkey")
  IN  IF ~HeadersFit(call) THEN Reply("Invalid")
      ELSE IF command \in {"status", "scan"} THEN Reply("Success")
      ELSE IF \/ Header(call, "enabled") = ""
              \/ enabled /\ ~(ssid # "" /\ KeyFits(command, passkey) /\ ChannelFits(command, channel))
        THEN Reply("Invalid")
      ELSE Configure(command, Network(enabled, channel, ssid, passkey))

WsCommand(caller, call) ==
  IF call.command \in Management THEN WsManage(caller, call) ELSE WsConfigure(call)

-----------------------------------------------------------------------------
(* Bluetooth: parameters by position.  Texts, numbers and booleans convert  *)
(* into each other, so only their count can be wrong.                       *)

\* The parameters a client sends for its arguments, up to the first that it
\* leaves out, since they have no names; "extra" is one too many.
Parameters(call) ==
  LET order == Append(Arguments[call.command], "extra")
      sent == {i \in DOMAIN order : \A j \in 1..i : order[j] \in DOMAIN call.arguments}
  IN  [i \in sent |-> call.arguments[order[i]]]

CountFits(call) == Len(Parameters(call)) = Len(Arguments[call.command])

\* A level is a number; a text that is none is 0, "5" is beyond the last.
LevelNumbered(text) == IF text = "5" THEN text ELSE LevelNamed(text)

BtManage(call) ==
  LET P(name) == Parameters(call)[CHOOSE i \in DOMAIN Arguments[call.command] : Arguments[call.command][i] = name]
      text(name) == IF name \in Required(call.command) THEN P(name) ELSE "None"
      level == LevelNumbered(text("access_level"))
  IN  IF ~managed THEN Reply("Error")
      ELSE IF ~CountFits(call) \/ "" \in {text("username"), text("password")} \/ level = "5" THEN Reply("Invalid")
      ELSE IF call.command = "list" THEN Reply("Success")
      ELSE Manage(call.command, text("username"), text("password"), level)

\* Mutant: the pass key is not looked at.
BtSettingsAnyKey(command, p) == ChannelFits(command, p[2])

BtSettings(command, p) == KeyFits(command, p[Len(p)]) /\ ChannelFits(command, p[2])

BtConfigure(call) ==
  LET command == call.command
      p == Parameters(call)
      enabled == p[1] \notin {"false", ""}
  IN  IF command \in {"status", "scan"} THEN Reply(IF CountFits(call) THEN "Success" ELSE "Invalid")
      ELSE IF p = <<>> THEN Reply("Invalid")
      ELSE IF ~enabled THEN Configure(command, Off)
      ELSE IF ~CountFits(call) \/ ~BtSettings(command, p) THEN Reply("Invalid")
      ELSE Configure(command, Network(TRUE, IF command = "apconf" THEN p[2] ELSE "1", p[Len(p) - 1], p[Len(p)]))

BtCommand(call) == IF call.command \in Management THEN BtManage(call) ELSE BtConfigure(call)

-----------------------------------------------------------------------------

\* The texts a client may give for an argument.
Texts ==
  [username |-> People \cup {""}, password |-> {"", "secret"}, access_level |-> {"Expert", "expert", "5"},
   enabled |-> {"true", "false", "yes", ""}, channel |-> {"1", "14", "one"}, ssid |-> {"", "net"},
   passkey |-> {"", "short", "longenough"}, extra |-> {"more"}]

\* The calls that give the arguments in names.
Given(names) ==
  {f \in [names -> UNION {Texts[name] : name \in names}] : \A name \in names : f[name] \in Texts[name]}

\* An argument too many comes after all the others.
Calls ==
  UNION {{[command |-> command, arguments |-> f] : f \in
            UNION {Given(names) : names \in (SUBSET Names(command)) \cup {Names(command) \cup {"extra"}}}} :
          command \in DOMAIN Arguments}

Done(outcome) ==
  /\ accounts' = outcome.accounts
  /\ radio' = outcome.radio
  /\ UNCHANGED <<callers, managed>>

CommandsNext ==
  \E caller \in callers, call \in Calls :
    Done(WsCommand(caller, call)) \/ Done(BtCommand(call))

CommandsSpec == CommandsInit /\ [][CommandsNext]_commandVars

-----------------------------------------------------------------------------

\* Why the two handlers of a command may differ: a session's own user cannot
\* be removed by WebSocket; a level beyond the last is a text that names no
\* level; an enabled network needs a name by WebSocket and all its parameters
\* by Bluetooth; a network that is not enabled may have more of them; other
\* texts than true and false.
MayDiffer(caller, call) ==
  LET text(name) == Header(call, name)
      network == call.command \in {"cliconf", "apconf"}
  IN  \/ call.command = "remove" /\ text("username") = caller
      \/ text("access_level") = "5"
      \/ network /\ text("enabled") \notin {"true", "false"}
      \/ network /\ text("enabled") = "true" /\ (text("ssid") = "" \/ ~CountFits(call))
      \/ network /\ text("enabled") = "false" /\ "extra" \in DOMAIN call.arguments

\* The same call has the same answer and leaves the same users and networks
\* over both transports, but for the differences named above.
CommandsAgree ==
  \A caller \in callers, call \in Calls :
    MayDiffer(caller, call) \/ WsCommand(caller, call) = BtCommand(call)

=============================================================================
