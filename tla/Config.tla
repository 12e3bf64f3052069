------------------------------- MODULE Config -------------------------------
(***************************************************************************)
(* One size setting through CommsConfig::Parse (src/config.cpp): the value *)
(* parse_conf_file read is first rewritten by replace_env_var (config.cpp  *)
(* line 81, modelled by EnvExpand), then converted by conf_get_int64 into  *)
(* the field (line 176, modelled by ConfSize), whose result Parse ignores. *)
(* Between the two, Parse builds the listener list and the per-listener    *)
(* thread-pool sizes and qps limits (lines 92-146, modelled by Listeners). *)
(* It also reads requirepass (line 252), slaveof and repl-backlog-size    *)
(* (lines 176, 204-221) and the rename-command lines (254-274), and ends   *)
(* with verify_config, whose verdict is Parse's result.  Before all this,  *)
(* and after the listener settings, it resolves home, repl-dir and         *)
(* data-dir on the file system, and returns false if that fails.  The size *)
(* setting is "databases" (maxdb).                                         *)
(***************************************************************************)
EXTENDS Naturals, Sequences

CONSTANTS
  Env, Tokens, MaxTokens,   \* as in EnvExpand
  MaxLen, SizeMod, Absent,  \* as in ConfSize
  Default,                  \* the field's initial value in CommsConfig(), as [n, sh]
  Addrs, Nums, Bad,         \* as in Listeners
  DefaultAddr, MaxLines,
  EmptyPass,                \* the empty string, requirepass's default
  PassLines,                \* values a requirepass line may give
  PassLen,                  \* the length of each of those values
  SlaveofLines,             \* slaveof values, as the pieces split_string(":") gives
  WalLines, WalDefault,     \* repl-backlog-size values, and repl_wal_size's default
  Commands, NewNames,       \* command names, and names a rename-command line gives
  NoRename,                 \* "not renamed"
  RenameFiles               \* the rename-command lines a file may hold, in order

VARIABLES
  orig, val, done,  \* the value and replace_env_var's loop over it
  field,            \* the CommsConfig field
  parsed,           \* conf_get_int64 has run
  listenLines, tpLines, qpsLines,  \* the lines of the three per-listener keys
  listeners,        \* listen_addresses, thread_pool_sizes and qps_limits
  requirepass,      \* the CommsConfig field
  parseOk,          \* Parse's result
  renames,          \* rename_commands
  stage             \* where Parse is: "home", "expand" (replace_env_var), "returned"

vars == <<orig, val, done, field, parsed, listenLines, tpLines, qpsLines, listeners, requirepass, parseOk, renames, stage>>
lineVars == <<listenLines, tpLines, qpsLines>>

Expand == INSTANCE EnvExpand
Size == INSTANCE ConfSize
Listen == INSTANCE Listeners

\* the three vectors, empty as CommsConfig() leaves them
NoListeners == [listen |-> <<>>, tps |-> <<>>, qps |-> <<>>]

\* parse_conf_file keeps a line only if it has a value after the key, so
\* the configured value is not empty.
Init ==
  /\ Expand!Init /\ orig # <<>> /\ field = Default /\ parsed = FALSE
  /\ listenLines \in Listen!Lines(Addrs) /\ tpLines \in Listen!Lines(Nums)
  /\ qpsLines \in Listen!Lines(Nums) /\ listeners = NoListeners
  /\ requirepass = EmptyPass /\ parseOk = FALSE
  /\ renames = [c \in Commands |-> NoRename] /\ stage = "home"

\* home: conf_get_string, the "../comms" default, make_dir, real_path and
\* access(R_OK | W_OK); the file system may refuse it, and Parse returns
\* false before it expands anything
CheckHome ==
  /\ stage = "home"
  /\ \E ok \in BOOLEAN : stage' = IF ok THEN "expand" ELSE "returned"
  /\ UNCHANGED <<orig, val, done, field, parsed, lineVars, listeners, requirepass, parseOk, renames>>

\* setenv("COMMS_HOME", ...) and replace_env_var(props): one turn of its loop
ExpandStep ==
  /\ stage = "expand"
  /\ Expand!Replace \/ Expand!Stop
  /\ UNCHANGED <<field, parsed, lineVars, listeners, requirepass, parseOk, renames, stage>>

COMMS_AUTHPASS_MAX_LEN == 512

\* n * 2^sh > limit, without computing the product
Exceeds(v, limit) == v.n > limit \div (2 ^ v.sh)

\* the slaveof value leaves master_host set: it splits into host and port,
\* and the port is a uint32 (master_host is reset to "" otherwise)
IsReplica(line) == line # Absent /\ line.pieces = 2 /\ line.portOk

\* verify_config
VerifyConfig(maxdb, pass, replica, walSize) ==
  /\ ~(replica /\ walSize.n = 0)
  /\ PassLen[pass] <= COMMS_AUTHPASS_MAX_LEN
  /\ ~Exceeds(maxdb, 16777215)

\* conf_get_string(props, "requirepass", requirepass): an absent key keeps it
ConfGetString(cur, line) == IF line = Absent THEN cur ELSE line

\* conf_get_string(props, "requirepass", requirepass)
ReadRequirePass(cur, line) == ConfGetString(cur, line)

\* one turn of the rename-command loop: a line of two words whose new name
\* no earlier accepted line took is stored, and its new name remembered in
\* newcmdset; any other line is refused
RenameLine(acc, l) ==
  IF Len(l) # 2 \/ l[2] \in acc.newcmdset THEN acc
  ELSE [map |-> [acc.map EXCEPT ![l[1]] = l[2]], newcmdset |-> acc.newcmdset \cup {l[2]}]

\* rename_commands after the loop over the lines, from an empty newcmdset
RECURSIVE RenameLoop(_, _)
RenameLoop(acc, ls) == IF ls = <<>> THEN acc.map ELSE RenameLoop(RenameLine(acc, Head(ls)), Tail(ls))

\* the rename-command key: when present, rename_commands is cleared first
RenameCommands(cur, ls) ==
  IF ls = <<>> THEN cur ELSE RenameLoop([map |-> [c \in Commands |-> NoRename], newcmdset |-> {}], ls)

\* the rest of Parse once the values are expanded: the listener settings,
\* repl-dir, repl-backlog-size, slaveof, data-dir, requirepass,
\* rename-command, conf_get_int64(props, "databases", maxdb), verify_config
Parse ==
  /\ stage = "expand" /\ done
  /\ listeners' = Listen!ParseListeners(listenLines, tpLines, qpsLines)
  /\ \E pass \in PassLines \cup {Absent}, slaveof \in SlaveofLines \cup {Absent},
        wal \in WalLines \cup {Absent}, rf \in RenameFiles :
       /\ requirepass' = ReadRequirePass(requirepass, pass)
       /\ renames' = RenameCommands(renames, rf)
       /\ field' = Size!SettingAfterParse(field, val)
       /\ parseOk' = VerifyConfig(field', requirepass', IsReplica(slaveof),
                                   Size!SettingAfterParse(WalDefault, wal))
  /\ parsed' = TRUE /\ stage' = "returned"
  /\ UNCHANGED <<orig, val, done, lineVars>>

\* make_dir and real_path of repl-dir (line 156) or of data-dir (line 244)
\* fail: Parse returns false with the listener settings already stored
ParseDirFails ==
  /\ stage = "expand" /\ done
  /\ listeners' = Listen!ParseListeners(listenLines, tpLines, qpsLines)
  /\ parseOk' = FALSE /\ stage' = "returned"
  /\ UNCHANGED <<orig, val, done, field, parsed, lineVars, requirepass, renames>>

Next == CheckHome \/ ExpandStep \/ Parse \/ ParseDirFails

\* Parse runs on the start-up thread and waits on nothing.
Spec == Init /\ [][Next]_vars /\ WF_vars(Next)

-----------------------------------------------------------------------------
TypeOK ==
  /\ done \in BOOLEAN /\ parsed \in BOOLEAN /\ parseOk \in BOOLEAN
  /\ requirepass \in PassLines \cup {EmptyPass}
  /\ renames \in [Commands -> {NoRename} \cup NewNames]
  /\ stage \in {"home", "expand", "returned"}
  /\ field \in [n : Nat, sh : {0, 10, 20, 30}]
  /\ listeners \in [listen : Seq(Addrs \cup {DefaultAddr}), tps : Seq(Nums \cup {0}), qps : Seq(Nums \cup {0})]

\* A value that, once expanded, is a well-formed size (digits and a
\* K/KB/M/MB/G/GB suffix in any case) is stored as the byte count it spells:
\* the first-occurrence find() tests of conf_get_int64 pick the right unit.
SizesParsed == parsed /\ Size!IsSize(val) => field = Size!SizeOf(val)

\* The expanded value leaves the setting at the size it spells or, if it is
\* not a size, at its default (Parse ignores conf_get_int64's result).
SettingIntended == parsed => field = Size!IntendedSetting(Default, val)

\* Each listener gets the thread-pool size and the qps limit written at its
\* own position: the k-th thread-pool-size line configures the listener of
\* the k-th listen line, and a listener whose line is missing or rejected
\* keeps 0 (the vectors are resized to the number of listeners).
SizesAligned ==
  parsed => \A k \in 1..Len(listenLines) : listenLines[k] # Bad =>
    LET i == Listen!ListenerOf(listenLines, k) IN
    /\ listeners.tps[i] = Listen!IntendedAt(tpLines, k)
    /\ listeners.qps[i] = Listen!IntendedAt(qpsLines, k)
=============================================================================
