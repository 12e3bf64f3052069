------------------------------ MODULE Session ------------------------------
(***************************************************************************)
(* One client connection and the connection commands of                  *)
(* src/src/command/connection.cpp: AUTH, SELECT, PING, ECHO and QUIT, each *)
(* acting on the connection's Context (authenticated, currentDB).  The     *)
(* server's configured requirepass (pass) and databases count (maxdb) are  *)
(* operator arguments; the module Server passes what Parse produced.       *)
(* The dispatcher that calls the handlers is not under src/: any handler   *)
(* may run on an open connection.  A reply is kept as the ghost last.      *)
(***************************************************************************)
EXTENDS Naturals

CONSTANTS
  EmptyPass,    \* the empty string, requirepass's default
  Passwords,    \* arguments a client may send with AUTH
  DbArgs,       \* arguments a client may send with SELECT: numbers, or NotNum
  NotNum        \* an argument string_touint32 rejects

VARIABLES
  open,           \* the connection is open
  authenticated,  \* ctx.authenticated
  currentDB,      \* ctx.currentDB
  last            \* the last command run, its SELECT or AUTH argument, and whether it replied OK

vars == <<open, authenticated, currentDB, last>>

NoCmd == [cmd |-> "none", db |-> NotNum, pw |-> EmptyPass, ok |-> FALSE]

\* newdb < m_cfg.maxdb, for maxdb = n * 2^sh, without computing the product
Below(k, v) == k \div (2 ^ v.sh) < v.n

Init == open = FALSE /\ authenticated = FALSE /\ currentDB = 0 /\ last = NoCmd

\* A client connects and gets a fresh Context.  Its initial authenticated
\* flag is set by code not under src/, so either value is possible.
Connect ==
  /\ ~open
  /\ open' = TRUE /\ currentDB' = 0 /\ last' = NoCmd
  /\ authenticated' \in BOOLEAN

\* Comms::Quit replies OK and returns -1: the connection is closed.
Quit ==
  /\ open
  /\ open' = FALSE /\ last' = [cmd |-> "quit", db |-> NotNum, pw |-> EmptyPass, ok |-> TRUE]
  /\ UNCHANGED <<authenticated, currentDB>>

\* Comms::Ping and Comms::Echo only fill the reply.
Ping ==
  /\ open
  /\ last' = [cmd |-> "ping", db |-> NotNum, pw |-> EmptyPass, ok |-> TRUE]
  /\ UNCHANGED <<open, authenticated, currentDB>>

Echo ==
  /\ open
  /\ last' = [cmd |-> "echo", db |-> NotNum, pw |-> EmptyPass, ok |-> TRUE]
  /\ UNCHANGED <<open, authenticated, currentDB>>

\* Fault: newdb is stored before it is checked.
SelectAssignFirst(a, maxdb) ==
  /\ open
  /\ LET ok == a # NotNum /\ Below(a, maxdb)
     IN /\ currentDB' = a
        /\ last' = [cmd |-> "select", db |-> a, pw |-> EmptyPass, ok |-> ok]
  /\ UNCHANGED <<open, authenticated>>

\* Comms::Select: an argument that is not a uint32, or not below maxdb, is
\* refused and leaves currentDB alone.
Select(a, maxdb) ==
  /\ open
  /\ LET ok == a # NotNum /\ Below(a, maxdb)
     IN /\ currentDB' = IF ok THEN a ELSE currentDB
        /\ last' = [cmd |-> "select", db |-> a, pw |-> EmptyPass, ok |-> ok]
  /\ UNCHANGED <<open, authenticated>>

\* Comms::Auth: with no requirepass an error and no change; a wrong
\* password clears authenticated; the right one sets it.
Auth(p, pass) ==
  /\ open
  /\ authenticated' = IF pass = EmptyPass THEN authenticated ELSE p = pass
  /\ last' = [cmd |-> "auth", db |-> NotNum, pw |-> p, ok |-> pass # EmptyPass /\ p = pass]
  /\ UNCHANGED <<open, currentDB>>

\* maxdb is m_cfg.maxdb, as [n, sh] meaning n * 2^sh; pass is m_cfg.requirepass
Next(pass, maxdb) ==
  \/ Connect \/ Quit \/ Ping \/ Echo
  \/ \E a \in DbArgs : Select(a, maxdb)
  \/ \E p \in Passwords : Auth(p, pass)
=============================================================================
