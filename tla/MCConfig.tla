------------------------------ MODULE MCConfig ------------------------------
(* Instantiates Server for TLC; the size setting is databases (16).      *)
(* A value is up to 3 pieces: references to a variable set to "1G" (A),  *)
(* to one set to the empty string (E) and to an unset one (U), and single *)
(* characters: digits, unit letters in both cases, a non-size letter and  *)
(* the characters that make up a reference.                              *)
EXTENDS Server, TLC

MCTokens ==
  {<<"$", "{", "A", "}">>, <<"$", "{", "E", "}">>, <<"$", "{", "U", "}">>,
   <<"0">>, <<"1">>, <<"k">>, <<"M">>, <<"b">>, <<"G">>, <<"x">>, <<"$">>, <<"{">>, <<"}">>}

\* a value of one digit, for runs about the listener settings
MCTokensOne == {<<"1">>}

MCEnv == [k \in {<<"A">>, <<"E">>} |-> IF k = <<"A">> THEN <<"1", "G">> ELSE <<>>]

\* A is set to a value that refers to A
MCEnvLoop == [k \in {<<"A">>} |-> <<"$", "{", "A", "}">>]

MCDefault == [n |-> 16, sh |-> 0]

\* requirepass: absent (the empty default), a short password, or one
\* longer than COMMS_AUTHPASS_MAX_LEN
MCEmptyPass == ""
MCPassLines == {"pw", "long"}
MCPassLen == "" :> 0 @@ "pw" :> 2 @@ "long" :> 513

\* slaveof: "host:port", "host:port" with a port that is not a uint32, "host"
MCSlaveofLines ==
  {[pieces |-> 2, portOk |-> TRUE], [pieces |-> 2, portOk |-> FALSE], [pieces |-> 1, portOk |-> FALSE]}

\* repl-backlog-size: 0 and 1M; repl_wal_size defaults to 1 GiB
MCWalLines == {<<"0">>, <<"1", "M">>}
MCWalDefault == [n |-> 1, sh |-> 30]

\* rename-command: none, one rename, a second command taking the same new
\* name, a line without a new name before a rename, and a command renamed
\* twice before another command asks for the name it gave up
MCCommands == {"get", "set"}
MCNewNames == {"g1", "g2"}
MCRenameFiles ==
  {<<>>, <<<<"get", "g1">>>>, <<<<"get", "g1">>, <<"set", "g1">>>>, <<<<"get">>, <<"set", "g1">>>>,
   <<<<"get", "g1">>, <<"get", "g2">>, <<"set", "g1">>>>}

\* AUTH arguments: the password and a wrong one
MCPasswords == {"pw", "pq"}
=============================================================================
