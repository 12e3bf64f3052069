------------------------------ MODULE EnvExpand ------------------------------
(***************************************************************************)
(* The expansion of ${NAME} references in configuration values:            *)
(* replace_env_var(Properties&) of src/common/util/config_helper.cpp,      *)
(* called by CommsConfig::Parse (src/config.cpp) after it has set          *)
(* COMMS_HOME.  Each value is rewritten in place by a while (true) loop;   *)
(* values are independent, so one value is modelled, its loop one step at *)
(* a time.  A value is a sequence of one-character strings; positions are  *)
(* 0-based as in std::string, and npos is a value no position equals.      *)
(***************************************************************************)
EXTENDS Integers, Sequences, SequencesExt

CONSTANTS
  Env,        \* the process environment: a function from names to values
  Tokens,     \* the pieces configured values are made of
  MaxTokens   \* bound: pieces in one configured value

Npos == -1

\* std::string::find(t, from): the first position >= from at which t
\* occurs, or npos
FindFrom(s, t, from) ==
  LET at == {i \in from..(Len(s) - Len(t)) : SubSeq(s, i + 1, i + Len(t)) = t} IN
  IF at = {} THEN Npos ELSE Min(at)

\* pos, next_pos and env_key of one iteration of the loop
Pos(v) == FindFrom(v, <<"$", "{">>, 0)
NextPos(v) == FindFrom(v, <<"}">>, Pos(v) + 1)
EnvKey(v) == SubSeq(v, Pos(v) + 3, NextPos(v))

\* getenv(env_key) is not NULL: the iteration replaces and continues
Resolvable(v) == Pos(v) # Npos /\ NextPos(v) # Npos /\ EnvKey(v) \in DOMAIN Env

\* prop_value.replace(pos, next_pos - pos + 1, env_value)
Replaced(v) == SubSeq(v, 1, Pos(v)) \o Env[EnvKey(v)] \o SubSeq(v, NextPos(v) + 2, Len(v))

Values == {FlattenSeq(ts) : ts \in SeqOf(Tokens, MaxTokens)}

-----------------------------------------------------------------------------
VARIABLES
  orig,  \* the value as parse_conf_file read it
  val,   \* prop_value
  done   \* the loop has reached its break

vars == <<orig, val, done>>

Init == orig \in Values /\ val = orig /\ done = FALSE

\* An iteration that finds "${", a later "}" and a set variable replaces
\* the reference and continues from the start of the value.
Replace ==
  /\ ~done /\ Resolvable(val)
  /\ val' = Replaced(val)
  /\ UNCHANGED <<orig, done>>

\* Fault: an unset variable continues the loop instead of breaking out.
StopNoBreak ==
  /\ ~done /\ ~Resolvable(val)
  /\ UNCHANGED vars

\* Any other iteration breaks out of the loop: no "${", no "}" after it, or
\* getenv returns NULL.
Stop ==
  /\ ~done /\ ~Resolvable(val)
  /\ done' = TRUE
  /\ UNCHANGED <<orig, val>>

Next == Replace \/ Stop

\* The loop runs on the one thread that parses the configuration, without
\* waiting on anything: once started it keeps taking steps.
Spec == Init /\ [][Next]_vars /\ WF_vars(Next)

=============================================================================
