------------------------------ MODULE Server ------------------------------
(***************************************************************************)
(* The process start-up of src/src/main.cpp and what a client then sees:   *)
(* main handles its arguments, reads the configuration file, runs          *)
(* CommsConfig::Parse (the module Config), and starts the server only if   *)
(* Parse returned true.  A client connected to the started server runs     *)
(* the connection commands (the module Session) against the parsed         *)
(* requirepass and databases count.                                        *)
(***************************************************************************)
EXTENDS Config

CONSTANTS Passwords, DbArgs, NotNum   \* as in Session

VARIABLES
  phase,                                 \* where main is
  open, authenticated, currentDB, last   \* the client's connection, as in Session

sessVars == <<open, authenticated, currentDB, last>>
serverVars == <<vars, phase, sessVars>>

Phases == {"boot", "parsing", "defaults", "serving", "exited"}

\* the outcomes of main's argument handling
Argv == {"version", "help", "badfile", "file", "none"}

Sess == INSTANCE Session

ServerInit == Init /\ phase = "boot" /\ Sess!Init

\* main before Parse: -v/--version and -h/--help print and exit, a
\* configuration file parse_conf_file cannot read returns -1, and with no
\* argument, or a first one starting with "--", there is no file.
Boot ==
  /\ phase = "boot"
  /\ \E arg \in Argv :
       phase' = CASE arg = "file" -> "parsing" [] arg = "none" -> "defaults" [] OTHER -> "exited"
  /\ UNCHANGED <<vars, sessVars>>

\* cfg.Parse(props) resolves home; main returns -1 if that fails
HomeStep ==
  /\ phase = "parsing" /\ CheckHome
  /\ phase' = IF stage' = "returned" THEN "exited" ELSE "parsing"
  /\ UNCHANGED sessVars

\* cfg.Parse(props): replace_env_var's loop
ParseStep ==
  /\ phase = "parsing" /\ ExpandStep
  /\ UNCHANGED <<phase, sessVars>>

\* the end of cfg.Parse(props); main returns -1 when it failed and
\* otherwise starts the server (Comms::Init and Start are not under src/
\* and are taken to succeed)
Start ==
  /\ phase = "parsing" /\ (Parse \/ ParseDirFails)
  /\ phase' = IF parseOk' THEN "serving" ELSE "exited"
  /\ UNCHANGED sessVars

\* main with no configuration file: Parse runs on empty Properties, where
\* every key is absent, and main goes on as after a file.  The default
\* home "../comms", repl-dir and data-dir may still be refused.
StartDefaults ==
  /\ phase = "defaults"
  /\ \E homeOk, dirsOk \in BOOLEAN :
       /\ listeners' = IF homeOk THEN Listen!ParseListeners(<<>>, <<>>, <<>>) ELSE listeners
       /\ requirepass' = ReadRequirePass(requirepass, Absent)
       /\ renames' = RenameCommands(renames, <<>>)
       /\ field' = Size!SettingAfterParse(field, Absent)
       /\ parseOk' = (homeOk /\ dirsOk /\ VerifyConfig(field', requirepass', IsReplica(Absent), WalDefault))
  /\ stage' = "returned"
  /\ phase' = IF parseOk' THEN "serving" ELSE "exited"
  /\ UNCHANGED <<orig, val, done, parsed, lineVars, sessVars>>

\* a client's step on the started server
Client ==
  /\ phase = "serving" /\ Sess!Next(requirepass, field)
  /\ UNCHANGED <<vars, phase>>

ServerNext == Boot \/ HomeStep \/ ParseStep \/ Start \/ StartDefaults \/ Client

\* main runs on its own thread and waits on nothing until the server starts;
\* clients are free to do nothing.
ServerSpec == ServerInit /\ [][ServerNext]_serverVars /\ WF_serverVars(Boot \/ HomeStep \/ ParseStep \/ Start \/ StartDefaults)

-----------------------------------------------------------------------------
ServerTypeOK ==
  /\ TypeOK /\ phase \in Phases
  /\ open \in BOOLEAN /\ authenticated \in BOOLEAN
  /\ currentDB \in (DbArgs \ {NotNum}) \cup {0}
  /\ last.cmd \in {"none", "quit", "ping", "echo", "select", "auth"} /\ last.ok \in BOOLEAN
  /\ last.db \in DbArgs \cup {NotNum} /\ last.pw \in Passwords \cup {EmptyPass}

\* main returns or serves: replace_env_var's loop ends, Parse returns and
\* main either exits or starts the server.
StartsOrExits == <>(phase \in {"serving", "exited"})

=============================================================================
