------------------------------ MODULE UserFile ------------------------------
(***************************************************************************)
(* The text file of users (api/authorize/sitextfileusermanagement.cpp) and *)
(* the two programs that change it: the daemon, for the user management    *)
(* extension (usermanagementextension.cpp), and sigwctl                    *)
(* (sigwctl/siusermanagementcommand.cpp).  A change loads the file, alters *)
(* the list and saves it: the file is truncated and written line by line   *)
(* (endl flushes), without a lock.  The daemon also reads the file for     *)
(* every authorization.  The hash of a password stands for the password.   *)
(***************************************************************************)
EXTENDS Naturals, Sequences, SequencesExt

CONSTANTS
    UserNames,
    SplitNames,     \* the names with a ':', whose line does not have 3 fields
    Passwords,
    Levels,
    NoLevel,        \* SIAccessLevel::None
    MaxChanges,     \* bound on the calls
    MaxKills        \* bound on the programs that die

(* No user has the name of a torn line (see Torn).                         *)
ASSUME UserFileAssumption ==
    /\ SplitNames \subseteq UserNames /\ NoLevel \in Levels
    /\ UserNames \cap {"refused", "stray"} = {}

VARIABLES
    file,           \* the lines; no file is an empty file to load_
    call,           \* what each program does
    changes,        \* number of calls
    kills,          \* number of programs that died
    expected,       \* the users after the accepted changes (history)
    granted,        \* what some call gave to a name (history)
    disturbed       \* two changes overlapped, or a split name was added (history)

userFileVars == <<file, call, changes, kills, expected, granted, disturbed>>

Programs == {"daemon", "sigwctl"}
Users == [name : UserNames, password : Passwords, level : Levels]

(* Lines two writers may leave behind: one that load_ refuses, and one     *)
(* that it reads as a user nobody has named.                               *)
Torn == [name : {"refused", "stray"}, password : {"?"}, level : {NoLevel}]

NoCall == [stage |-> "none"]
Overlap(program) == \E other \in Programs \ {program} :
                        call[other].stage \in {"loaded", "writing"}

UserFileInit ==
    /\ file = <<>>
    /\ call = [program \in Programs |-> NoCall]
    /\ changes = 0
    /\ kills = 0
    /\ expected = {}
    /\ granted = {}
    /\ disturbed = FALSE

----------------------------------------------------------------------------
(* load_: every line has three fields and a known level.                   *)
Loads == \A i \in DOMAIN file : file[i].name \notin SplitNames \cup {"refused"}

HasUser(users, name) == \E i \in DOMAIN users : users[i].name = name

(* Mutant: the alteration reaches every user.                              *)
AlteredAll(users, user, kind) ==
    CASE kind = "add"      -> Append(users, user)
      [] kind = "password" -> [i \in DOMAIN users |-> [users[i] EXCEPT !.password = user.password]]
      [] kind = "level"    -> [i \in DOMAIN users |-> [users[i] EXCEPT !.level = user.level]]
      [] kind = "remove"   -> <<>>

(* The list after the change; findByUsername finds the first of a name.    *)
Altered(users, user, kind) ==
    LET at == SelectInSeq(users, LAMBDA u : u.name = user.name)
    IN  CASE kind = "add"      -> Append(users, user)
          [] kind = "password" -> [users EXCEPT ![at].password = user.password]
          [] kind = "level"    -> [users EXCEPT ![at].level = user.level]
          [] kind = "remove"   -> RemoveAt(users, at)

(* The effect on a set of users that a change asks for.                    *)
Effect(users, user, kind) ==
    CASE kind = "add"      -> users \cup {user}
      [] kind = "password" -> {IF u.name = user.name THEN [u EXCEPT !.password = user.password]
                               ELSE u : u \in users}
      [] kind = "level"    -> {IF u.name = user.name THEN [u EXCEPT !.level = user.level]
                               ELSE u : u \in users}
      [] kind = "remove"   -> {u \in users : u.name # user.name}

(* A change is asked for: of the daemon with all its parameters, of        *)
(* sigwctl with the name alone.  sigwctl looks the name up (a file that    *)
(* does not load has no users) and asks for the rest on the console.  A    *)
(* parameter the kind of change does not have is fixed.                    *)
Call(program, user, kind) ==
    /\ call[program].stage = "none"
    /\ changes < MaxChanges
    /\ kind \in {"password", "remove"} => user.level = NoLevel
    /\ program = "sigwctl" =>
          (HasUser(file, user.name) /\ Loads) = (kind # "add")
    /\ changes' = changes + 1
    /\ call' = [call EXCEPT ![program] =
          [stage |-> IF program = "sigwctl" /\ kind # "remove" THEN "asking" ELSE "called",
           user |-> user, kind |-> kind]]
    /\ UNCHANGED <<file, kills, expected, granted, disturbed>>

(* The console answers.  Two passwords that differ or a level out of range *)
(* end the command.                                                        *)
Answer ==
    /\ call["sigwctl"].stage = "asking"
    /\ \E stage \in {"called", "none"} :
          call' = [call EXCEPT !["sigwctl"] =
                       IF stage = "none" THEN NoCall ELSE [@ EXCEPT !.stage = stage]]
    /\ UNCHANGED <<file, changes, kills, expected, granted, disturbed>>

(* The load of a change: the file is read again, a name that is taken or   *)
(* not there ends it, and so does a file that cannot be read.              *)
Load(program) ==
    /\ call[program].stage = "called"
    /\ LET c == call[program]
       IN  \/ /\ Loads
              /\ HasUser(file, c.user.name) = (c.kind # "add")
              /\ call' = [call EXCEPT ![program] =
                    [stage |-> "loaded", user |-> c.user, kind |-> c.kind,
                     users |-> Altered(file, c.user, c.kind)]]
              /\ granted' = granted \cup {u \in {[name |-> c.user.name, level |-> c.user.level]} :
                                          c.kind \in {"add", "level"}}
              /\ disturbed' = (disturbed \/ Overlap(program)
                                 \/ (c.kind = "add" /\ c.user.name \in SplitNames))
           \/ /\ call' = [call EXCEPT ![program] = NoCall]
              /\ UNCHANGED <<granted, disturbed>>
    /\ UNCHANGED <<file, changes, kills, expected>>

(* save_ opens the file, which truncates it, or fails and changes nothing. *)
Truncate(program) ==
    /\ call[program].stage = "loaded"
    /\ \/ /\ file' = <<>>
          /\ call' = [call EXCEPT ![program] =
                [stage |-> "writing", user |-> @.user, kind |-> @.kind,
                 users |-> @.users, written |-> 0]]
       \/ /\ call' = [call EXCEPT ![program] = NoCall]
          /\ UNCHANGED file
    /\ UNCHANGED <<changes, kills, expected, granted, disturbed>>

(* The file after a line is written at a position of this writer's own.    *)
(* Another writer's lines are of other lengths and may be torn.            *)
Written(program, position, line) ==
    LET kept == [i \in 1 .. position - 1 |-> IF i \in DOMAIN file THEN file[i]
                                         ELSE CHOOSE t \in Torn : t.name = "stray"]
        rest == SubSeq(file, position + 1, Len(file))
        ends == IF Overlap(program) \/ Len(file) # position - 1 THEN {line} \cup Torn
                ELSE {line}
    IN  {kept \o <<end>> \o rest : end \in ends}

WriteLine(program) ==
    /\ call[program].stage = "writing"
    /\ call[program].written < Len(call[program].users)
    /\ LET position == call[program].written + 1
       IN  /\ file' \in Written(program, position, call[program].users[position])
           /\ call' = [call EXCEPT ![program].written = position]
    /\ UNCHANGED <<changes, kills, expected, granted, disturbed>>

(* The file is closed and the change reported.                             *)
Finish(program) ==
    /\ call[program].stage = "writing"
    /\ call[program].written = Len(call[program].users)
    /\ expected' = Effect(expected, call[program].user, call[program].kind)
    /\ call' = [call EXCEPT ![program] = NoCall]
    /\ UNCHANGED <<file, changes, kills, granted, disturbed>>

(* The program dies: what it has written stays.                            *)
Kill(program) ==
    /\ kills < MaxKills
    /\ call[program].stage # "none"
    /\ kills' = kills + 1
    /\ expected' = IF call[program].stage = "writing"
                   THEN Effect(expected, call[program].user, call[program].kind)
                   ELSE expected
    /\ call' = [call EXCEPT ![program] = NoCall]
    /\ UNCHANGED <<file, changes, granted, disturbed>>

(* authorizeUser_, on the daemon's thread between its other calls.         *)
AuthorizedLevel(name, password) ==
    LET at == SelectInSeq(file, LAMBDA u : u.name = name)
    IN  IF Loads /\ at # 0 /\ file[at].password = password
        THEN file[at].level ELSE NoLevel

UserFileNext ==
    \/ \E program \in Programs, user \in Users,
          kind \in {"add", "password", "level", "remove"} : Call(program, user, kind)
    \/ Answer
    \/ \E program \in Programs :
          Load(program) \/ Truncate(program) \/ WriteLine(program) \/ Finish(program)
             \/ Kill(program)

UserFileSpec == UserFileInit /\ [][UserFileNext]_userFileVars
----------------------------------------------------------------------------
UserFileTypeOK ==
    /\ \A i \in DOMAIN file : file[i] \in Users \cup Torn
    /\ \A program \in Programs :
          /\ call[program].stage \in {"none", "asking", "called", "loaded", "writing"}
          /\ call[program].stage = "writing" => call[program].written <= Len(call[program].users)

(* As long as no two changes overlap and no name holds a separator, the    *)
(* file loads whenever nobody writes it, and holds exactly the users the   *)
(* accepted changes leave; a program that dies while writing may lose      *)
(* users but alters none.                                                  *)
UndisturbedIsExact ==
    ~disturbed /\ (\A program \in Programs : call[program].stage # "writing") =>
        /\ Loads
        /\ ToSet(file) \subseteq expected
        /\ kills = 0 => ToSet(file) = expected
        /\ \A i, j \in DOMAIN file :
              file[i].name = file[j].name => i = j

(* Whatever overlaps or dies, an authorization gives a user a level only   *)
(* if some call gave that level to that name.                              *)
LevelsWereGranted ==
    call["daemon"].stage = "none" =>
        \A name \in UserNames, password \in Passwords :
            LET level == AuthorizedLevel(name, password)
            IN  level # NoLevel =>
                  [name |-> name, level |-> level] \in granted
=============================================================================
