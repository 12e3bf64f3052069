# TLA+ models of the replica side of comms

This directory checks the parts of `src/` whose correctness depends on orderings or edge
cases that unit tests rarely reach:

- the replica link, `class Slave` in `src/src/replication/slave.cpp`, against an abstract
  specification of what it promises (`ReplicaSpec`);
- the pooled reply representation, `RedisReplyPool` and `RedisReply` in
  `src/src/common/channel/codec/redis_reply.cpp`;
- process start-up (`main`) and the connection commands of `command/connection.cpp`, run
  against the configuration `Parse` produced;
- configuration parsing: the `${NAME}` expansion `replace_env_var` and the size converter
  `conf_get_int64` of `src/src/common/util/config_helper.cpp`. Also the steps of
  `CommsConfig::Parse` in `src/src/config.cpp` (home and directories, listener settings,
  `slaveof`, `rename-command`, `verify_config`), composed in the order `Parse` runs them.

Run a check with `tlc -workers 2 -config <cfg> <MC module>` in this directory.

## The system and its parts

| Part | Source | What it does | Model |
|---|---|---|---|
| ReplicaLink | `replication/slave.cpp` | Connects to the master, runs the handshake (AUTH, INFO, REPLCONF, PSYNC or SYNC), receives and reloads a snapshot, logs every command to the WAL, applies it directly or by WAL replay, and sends ACKs and times out from a 1-second timer. | `ReplicaLink`, `MCReplicaLink` (partly) |
| ReplyArena | `common/channel/codec/redis_reply.cpp` | A pool of reply values: a pre-sized table, an overflow grown lazily, and a cursor reset at each top-level decode. Array replies link children allocated from it. | `ReplyArena`, `MCReplyArena` (partly) |
| Master and collaborators | not under `src/` | The master (handshake replies, snapshot transfer, command stream), the WAL, the store, the snapshot file and the event loop. | Environment actions inside `ReplicaLink`, from spec.md section 6 |
| Config parsing | `config.cpp`, `config_helper.cpp`, `config.hpp` | Reads `key value` lines into `Properties`, expands `${NAME}` references from the environment, and converts values into the fields of `CommsConfig`. | `ConfSize`, `EnvExpand`, `Listeners`, `Config`, `MCConfig` (partly) |
| Connection commands | `command/connection.cpp` | AUTH, SELECT, PING, ECHO, QUIT on a client's `Context`. | `Session`, run by `Server` (modelled) |
| Bootstrap and dispatch | `main.cpp`, `comms.hpp` | Process start-up: arguments, configuration, start. Declarations of the command table. | `Server` (partly: `main`) |

### How the parts interact

Everything runs on one event-loop thread, but not strictly one event at a time.
`Slave::Init` schedules `Routine` every second. Socket events call `ChannelConnected`,
`MessageReceived` and `ChannelClosed`. Two long calls yield to the loop through
`IOServ().Continue()`, and socket events are handled inside them:

- the snapshot reload's callback `LoadRDBRoutine` (slave.cpp:205-215), which also calls `Routine`;
- the WAL replay loop `ReplayWAL(log, len)` (slave.cpp:106-124).

So a command, a close or a new handshake can be handled while a reload or a replay is half done.
The replies the link receives are built by the reply decoder from a `RedisReplyPool`.

Configuration is read once, before any of this runs. `CommsConfig::Parse` calls
`replace_env_var` on every value (config.cpp:81). It then converts size settings such as
`repl-backlog-size` (the WAL size the link writes to) and `databases` with `conf_get_int64`.
So a value is first expanded and then converted, and an expansion can hand the converter a
string no configuration line could hold, such as the empty string. `Parse` ends with
`verify_config`. `main` starts the server only if `Parse` returned true, and the connection
commands then run against the `requirepass` and `databases` it produced.

## Modules

### ReplicaLink.tla: `class Slave`

The master's history is abstracted to the numbers 1..mlen: command k is the k-th write.
The dataset `store` is the sequence of commands applied, and it is correct exactly when
it equals `1..n`. Offsets count commands, so every command has length 1. Checksums are
left out: they only detect divergence, which this abstraction cannot produce.

State and how it maps to the code:

| Variable | Code |
|---|---|
| `state` | `m_status.state` (the enum `SlaveState`) |
| `status` | the rest of `m_status`: `cached_master_runid`, `cached_master_repl_offset`, `server_support_psync`, `replaying_wal` |
| `conn` | `m_client` and the state of its channel: none, connecting, open, or closing (`Close()` takes effect later, in `ChannelClosed`) |
| `stale` | `repl_timeout` has elapsed since `m_cmd_recved_time` |
| `lastAck` | the last `REPLCONF ACK` written |
| `serverKey`, `dataOff`, `walStart`, `walCmds` | `g_repl`'s server key, `DataOffset()` and WAL |
| `store` | `g_db` |
| `snapFile` | the temp snapshot file |
| `load` | the `Reload` call in progress |
| `rstack` | the stack of `swal_replay` frames, so nesting is visible |
| `offBase` | a ghost: the master offset minus `DataOffset`. It is non-zero only after a legacy SYNC, whose `DataOffset` starts at 0. |

Each handler is one action or operator, and the `map` in `PROJECT.json` gives its lines:

- `Routine` (with its tail `RoutineRest`);
- `ReplayStep` and `ReplayDone`, the replay loop;
- `Deliver`, which is `MessageReceived` dispatching to `HandleRedisReply`, `HandleRedisCommand` and `HandleRedisDumpChunk`;
- `ChannelConnected` and `ChannelClosed`;
- `LoadStep`, `LoadAbort`, `LoadFail` and `LoadFinish`, the reload and its callback.

`EventsAllowed` says where socket events may be handled: at the top of the loop, or inside
`Continue()` in a reload or replay frame. `Routine` runs only from the top of the loop, and
from `LoadStep` as `LoadRDBRoutine` calls it.

The master is modelled from spec.md section 6 and marked `spec_modelled` in the map:

- `MasterWrite` adds a write to its history;
- `MasterServe` answers each request with ok, the INFO text of one of `PeerKinds`, CONTINUE (if the id and offset allow), or FULLRESYNC or SYNC followed by the snapshot chunks;
- `MasterStream` propagates commands;
- `MasterFault` returns error replies;
- `MasterHang` keeps the connection open and stops answering and streaming on it. It is
  enabled by the constant `MasterHangs`, and a reconnect starts a fresh session.

The other faults are `LinkDropped`, `Tick` (the link goes stale) and `LoadFail` (the
snapshot cannot be read). All faults together are bounded by `MaxFaults`.

### ReplyArena.tla: `RedisReplyPool` / `RedisReply`

A slot is `<<"e", i>>` (`elements[i-1]`) or `<<"p", i>>` (`pending[i-1]`). Its content is
whether any scalar field is set, plus its child list. The ghost `handed` lists the slots
`Allocate()` returned since the pool's last `Clear()`, which are the values of the reply
being decoded.

The operators are:

- `Construct`, the constructor;
- `SetMaxSize`;
- `Allocate`, made of `AllocAddr` and `Handout`;
- `ClearPool`;
- `ClearValue`, which is `RedisReply::Clear`;
- `AddMember`;
- `ReserveMember`, built on the recursive `ReserveFrom`.

A value that has no pool gets a private one from `GetPool()`. This happens to the root
`<<"r", 0>>`, an unparented `RedisReply` the caller owns, and is tracked by `priv`:

- `"none"`: the decode uses the shared pool;
- `"unmade"`: the root exists, but its pool does not yet;
- `"made"`: `GetPool()` has created it.

`ClearValue` of a self-owned root clears that pool, as `RedisReply::Clear` does.

The decoder is the pool's only client and is modelled from spec.md 4.2. `DecodeReply`
clears the pool and allocates the root. `SetScalar`, `AddChild`, `Reserve`, `ResetValue`
and `Resize` act on the values of the current reply.

### ReplicaSpec.tla: what the link promises

The abstract link has three variables:

- `hist`, the number of the master's writes;
- `synced`;
- `data`, the dataset clients see while synced.

Its actions are:

- `Write`, the master's next write;
- `Apply`, which appends the next write to a synced dataset;
- `Lose`, which drops the sync;
- `Resync`, which exposes some prefix of the history again.

`MCReplicaLink` instantiates it with the refinement mapping `hist <- mlen`,
`synced <- state = "SYNCED"`, and `data <- store` while SYNCED (`<<>>` otherwise). The run
replica_safety checks `Refines == Abstract!Spec` as a property. Every step of the detailed
model must therefore be an abstract step or leave the mapped state alone. Examples:

- a replay step or a direct apply is `Apply`;
- `LoadFinish` and a CONTINUE reply are `Resync`;
- a close, a reload start or a reset out of SYNCED is `Lose`;
- handshake, transfer and loading steps while not SYNCED are stutters.

### Config.tla: `CommsConfig::Parse`

`Config` composes the two modules below in the order `Parse` runs them:

- `ExpandStep` is one turn of `replace_env_var`'s loop (config.cpp:81), as `EnvExpand` models it;
- `Parse` is the rest of `Parse` once the values are expanded. It builds the listener settings
  (config.cpp:92-146, as `Listeners` models them). It then makes the `conf_get_int64` call of
  config.cpp:176 on the expanded value, as `ConfSize` models it.

Besides the size value, `Init` takes the lines of the keys `listen`, `thread-pool-size` and
`qps-limit`. Each line is a value or `Bad`, a line the code rejects: more than one token, or
a size `string_touint32` refuses.

`Init` takes a non-empty value, because `parse_conf_file` keeps only lines with a value after the key.

`Parse`'s early returns and its other settings are steps or parts of a step:

- `CheckHome` (config.cpp:60-79) resolves `home` before anything is expanded. The file
  system may refuse it, and `Parse` then returns false.
- `ParseDirFails` is the return of false when `repl-dir` (config.cpp:156) or `data-dir`
  (config.cpp:244) cannot be resolved. The listener settings are already stored by then.
- `Parse` reads `requirepass` (config.cpp:252, `ConfGetString`), `repl-backlog-size`
  (config.cpp:176, through `ConfSize`) and `slaveof`. `IsReplica` says whether `slaveof`
  leaves `master_host` set: the value must split into a host and a port, and the port must
  be a uint32.
- `RenameCommands` is the `rename-command` loop (config.cpp:254-274). A line of two words is
  stored unless its new name is in `newcmdset`, the names earlier accepted lines took. A
  later line for the same command overwrites the earlier one.

`Parse` returns `VerifyConfig`, which is `verify_config`:

- a replica (`slaveof` set) with a `repl-backlog-size` of 0 is refused;
- a password longer than 512 characters is refused;
- a `databases` count above `0xFFFFFF` is refused.

The fields that only `verify_config` reads (`master_host`, `repl_wal_size`) are not kept in
the state. The other string and boolean fields of `Parse` have no reader in the model, and
are left out.

`databases` is the size setting modelled here, with its default of 16 (`maxdb(16)`).

### Server.tla: `main` and a client of the started server

`Server` extends `Config` with `phase`, where `main` is, and one client connection.

- `Boot` is `main`'s argument handling. `-v` and `-h` exit. An unreadable file returns -1.
  With no argument, or one starting with `--`, there is no file.
- `HomeStep`, `ParseStep` and `Start` run `Parse` on the file's values. `main` returns -1
  if `Parse` failed, and otherwise starts the server.
- `StartDefaults` runs `Parse` on empty `Properties`, where every key is absent. The
  default `home` and directories may still be refused.
- `Client` is a step of `Session` on the started server, with the parsed `requirepass` and `maxdb`.

`Comms::Init` and `Start` are not under `src/`, so they are taken to succeed.

### Session.tla: `command/connection.cpp`

One connection: `open`, `ctx.authenticated` and `ctx.currentDB`. The ghost `last` records
the last command, its argument and whether it replied OK.

- `Auth` replies with an error and changes nothing when no password is set. A wrong password
  clears `authenticated`, and the right one sets it.
- `Select` refuses an argument `string_touint32` rejects (`NotNum`) or one not below `maxdb`.
  `Below` compares with `maxdb = n * 2^sh` without forming the product.
- `Ping` and `Echo` only reply.
- `Quit` closes the connection.
- `Connect` gives a fresh `Context`. Its initial `authenticated` comes from code not under
  `src/`, so it is left open: either value is possible.

The dispatcher is not under `src/` either, so any handler may run on an open connection.

### ConfSize.tla: `conf_get_int64`

A value is a sequence of one-character strings, up to `MaxLen` long. The code's positions are `size_t`, so `size() - 1` and `size() - 2` are computed
modulo `SizeMod`, and npos is `SizeMod - 1`. That keeps the wrap of an empty string exact.
A byte count is a pair `[n, sh]`, meaning `n * 2^sh`.

The operators translate the converter and the standard calls it makes:

- `ConfGetInt64` is the whole function;
- `StringToInt64`, `Atoll`, `ToUpper`, `Find` and `SuffixTest` are the calls it makes.

`string_toint64`, `string_toupper` and `atoll` are not under `src/`, so they are written
from their documented behaviour and marked `spec_modelled`.

`SettingAfterParse` is the call in `CommsConfig::Parse`: it stores the out-parameter
whatever the function returned. The reference `IsSize`/`SizeOf` says what a size string means:

- digits, then optionally K, KB, M, MB, G or GB in any case;
- anything else is not a size.

### Listeners.tla: `listen`, `thread-pool-size`, `qps-limit`

This module holds pure operators.

- `Accepted` is the loop over one key's lines. It keeps the accepted values in order and drops the rejected ones.
- `ListenAddresses` adds the default `0.0.0.0:16379` when no `listen` line was accepted.
- `Resize` is `vector::resize`, which cuts or pads with 0.
- `ParseListeners` is the whole of lines 92-146.
- The reference `IntendedAt`/`ListenerOf` pairs the k-th line of a per-listener key with the
  listener of the k-th `listen` line.

### EnvExpand.tla: `replace_env_var`

Values are independent, so one value `val` is modelled, with the loop over all values as
the choice of that value in `Init`. Each turn of the `while (true)` loop is one step:

- `Replace`, when `"${"`, a later `"}"` and a set variable are found;
- `Stop`, the `break`, otherwise.

`Env` is the process environment, a function from names to values. Values are made of up
to `MaxTokens` pieces drawn from `Tokens`: whole references and single characters, so
that references can also be broken or nested. The loop breaks at the first reference that
names an unset variable, so `${U}${A}` keeps `${A}`, although the comment at the `continue`
says a value may hold several variables. This is a hazard in `PROJECT.json`
(config_helper.cpp:251). The comment is the only statement about it, and config parsing is
outside spec.md, so no run states it.

## Runs

| Run | Expect | Checks | Shows |
|---|---|---|---|
| replica_safety | pass | `TypeOK`, `ReplicaConsistent`, `ResumeConsistent` | Checks every interleaving of master, faults, timer, reload callback and replay loop. When SYNCED, the dataset is exactly the master's history up to the applied offset. Whenever the server key would let PSYNC resume, the dataset and the WAL are the master's. The link implements `ReplicaSpec` (`Refines`). |
| replica_live | pass | `CaughtUp` | After finitely many faults the replica is eventually synced forever with all of the master's writes. |
| replica_ack | violation | `AckTruthful` | Routine ACKs during LOADING_SNAPSHOT with the old DataOffset. The trace ACKs 2 while the store holds 1 command. |
| replica_stale | violation | `StaleLinkClosed` | A stale link in LOADING_SNAPSHOT is not closed (spec.md 4.1 step 3 says it is). |
| replica_silent | violation | `CaughtUp` | A master that keeps the connection open and stops answering holds the link in a handshake state forever. Routine times out only SYNCED links, so the replica never catches up. |
| replica_auth | violation | `AuthErrorProceeds` | After an AUTH error the handshake moves on over a closing connection. |
| arena_safety | pass | `TypeOK`, `NoAlias`, `ReplyTree`, `OverflowPastTable`, `FreshOnAllocate` | With resizing only while no reply is live, each decode gets distinct slots, fresh ones with no stale children, forming a tree, the table first and then the overflow. |
| arena_presized | violation | `FromTable` | The constructor never creates the table (`SetMaxSize(size)` after `m_max_size(size)` is a no-op). |
| config_parse | pass | `ServerTypeOK`, `SizesParsed`, `StartsOrExits` | With values of up to 3 pieces and the home, directory, `slaveof`, `repl-backlog-size`, `requirepass` and `rename-command` cases of `Parse`, `main` always exits or starts the server, and clients then run the connection commands. Every expanded value that is a well-formed size (`${A}B` is `1GB`, `1mb`, `10k`) is stored as the count it spells. |
| conf_intended | violation | `SettingIntended` | An expanded value that is not a size does not leave `databases` at its default of 16: `Parse` keeps what `conf_get_int64` stored before it returned false. `1x` gives 1 database. A one-character value such as `$` (or an empty one from `${E}`) is accepted as 0 MB, because `size() - 2` wraps to npos, and the server starts with 0 databases. |
| env_loop | violation | `StartsOrExits` | A variable whose value refers to itself (`A=${A}`) makes the loop, and so start-up, run forever. |
| listen_align | violation | `SizesAligned` | A rejected `thread-pool-size` or `qps-limit` line is skipped, not kept as a placeholder. Every later value shifts to the previous listener: the `qps-limit` lines `bad`, `1` give the first listener the limit of the second line. |

Each property of a passing run has a mutant in `PROJECT.json`: a plausible bug in the
mapped code that TLC shows breaks it. For example:

- dropping the `replaying_wal` guard lets a nested replay apply a command twice;
- keeping the server key during a reload lets PSYNC resume from a partial dataset;
- a `Routine` that never reconnects breaks liveness;
- forgetting `r.Clear()` or `m_cursor++` in `Allocate` breaks freshness or aliasing;
- applying a command at once whenever SYNCED, even past a gap, breaks the refinement;
- a `KB` test compared with `size() - 1` breaks `SizesParsed`;
- `continue` instead of `break` on an unset variable breaks `StartsOrExits`;
- storing `newdb` before it is checked breaks `ServerTypeOK`.

The connection commands and the `rename-command` loop are modelled, but no property is
stated about them. Each handler sets its flag or index from its own argument behind one
guard, and a property would only restate it.

### Bounds

ReplicaLink (`MCReplicaLink_safety.cfg`):

- `MaxWrites = 5`. This is enough for a command to arrive during a reload, for a gap to divert it to replay, for a replay to be interrupted by another command, and for writes to remain after a second resync.
- `MaxFaults = 4`. This allows a failure, a second one during recovery, and a silent master on top, and so a stale timeout after a drop after an error.
- `SnapChunks = 2` and `MaxDepth = 3`. These allow a first and a last chunk, and replay frames nested two deep inside the first, which covers the case the guard exists for.
- `MasterHangs = TRUE`. The master may also fall silent, and every property must still hold.

The safety run has about a million distinct states and takes about 12 s.

`PeerKinds` gives three kinds of master:

- a comms master;
- Redis 2.7.0, the smallest version that supports PSYNC;
- Redis 2.6.17, which falls back to SYNC.

The liveness run uses 4 writes, AUTH and 3 faults (about 150,000 states), with the master
never silent. replica_silent is the same configuration with `MasterHangs = TRUE`.

ReplyArena: the pool is built with size 2, resized to 1 or 3, and a reply holds at most 4
values. That is enough to run past the table into the overflow, to nest arrays two deep,
and to reuse table slots across decodes.

Config (`MCConfig`): `databases` with its default of 16. A value is made of up to 3
pieces from two sets:

- the references `${A}` (A is `1G`), `${E}` (E is empty) and `${U}` (unset);
- the characters `0 1 k M b G x $ { }`.

Every string of up to 3 of those characters is among them, so every unit in both cases,
a doubled unit (`MMB`) and a unit before digits (`M1`) are included. So are two references
in a row, a reference joined from `$`, `{` and `}`, an unterminated one, a nested
`${${A}}`, and sizes made by expansion (`${A}B`).

`SizeMod = 2^16`: any width with `2^w > MaxLen + 2` wraps the same way, and expanded
values are at most 6 long. env_loop sets A to `${A}`.

`1G` spells more than `0xFFFFFF` databases, so `verify_config` refuses it and `main` exits.
`1M` and `10` are accepted. `requirepass` is absent, `pw`, or a value longer than 512
characters. AUTH sends `pw` or the wrong `pq`. SELECT sends 0, 1 or an unparsable
argument, which puts an index on either side of a count of 1.

`slaveof` is absent, `host:port`, `host:port` with a bad port, or a bare `host`.
`repl-backlog-size` is absent (1 GiB), `0` or `1M`. So a replica with no backlog is among
the configurations. `rename-command` renames `get` and `set`: no lines, one rename, two
commands taking the same name, a one-word line before a rename, and `get` renamed twice
(to `g1`, then `g2`) with `set` then renamed to `g1`.

The listener keys have no lines in config_parse, conf_intended and env_loop. The session
multiplies every started server, and listener lines would multiply it again. listen_align
needs two lines per key, so that a rejected line can sit before an accepted one. It has two addresses and the sizes 1 and 2,
and the size value is the single digit `1`, because the expansion is not what it is about.

### Fairness

These actions are weakly fair:

- `Routine`, because `Init` schedules it every second;
- the steps of the reload and replay loops, which run to completion once started;
- `Deliver`, `ChannelConnected` and `ChannelClosed`, because the event loop keeps dispatching;
- the master's `MasterServe` and `MasterStream`, because a live master answers and streams.

Writes and faults are not fair: the master may stop writing, and faults are bounded.

In `Server`, `main`'s steps (`Boot`, `HomeStep`, `ParseStep`, `Start`, `StartDefaults`) are weakly fair.
`replace_env_var` is a plain loop on the thread that parses the configuration and waits on
nothing, so it keeps stepping until it breaks, and `Parse` then goes on to the conversion.
Client steps are not fair: a client may stop sending commands.

## Not modelled, and why

- `Slave::Stop()`: nothing under `src/` calls it. Its code does not do what spec.md says of
  it: `ChannelClosed` clears the INVALID state, and `Routine` reconnects. This is listed as
  a hazard in `PROJECT.json` (slave.cpp:486).
- The wall clock: a stale link is a flag that `Tick` may set at any moment. So an early
  timeout from the unsigned `now - m_cmd_recved_time` wrapping (slave.cpp:178) is among the
  checked behaviours. The wrap itself is not modelled.
- Checksums and byte lengths: see the abstraction above.
- `master_host` empty: Routine does nothing.
- How many events one `IOServ().Continue()` dispatches. The event loop is not under `src/`,
  so the model lets any number run between two replay steps, and a replay frame can
  outlive a full resync. `ReplayStep` then ends a frame whose position lies before the new
  WAL's start. The bytes of the old ring buffer such a frame would go on reading in the
  code are not modelled.
- Destructors, including the one that frees a private pool.
- Vector reallocation in `elements.resize()`: slots are addressed by index.
- `SetMaxSize` in the middle of a decode. Nothing under `src/` calls `SetMaxSize`, so
  arena_safety resizes only between decodes (`ResizeMidDecode = FALSE`). With it set to
  TRUE, TLC finds `NoAlias` violated.
- The WAL ring buffer's segmenting in `swal_replay` and the codec's mode switch: their code is not under `src/`.
- Config parsing outside the modelled parts. The other `conf_get_*` converters
  compare a string or call a helper. The rest of `Parse` is a sequence of field assignments
  that nothing in the model reads. `home` is resolved before `replace_env_var` runs
  (`CheckHome`), so a `${...}` in it is never expanded. No statement says it should be, so
  this is a hazard without a property (config.cpp:61).
  `parse_conf_file`'s tokenising relies on `split_str`/`trim_str`, which are not under
  `src/`, and so is its 1023-byte line limit (config_helper.cpp:83). int64 overflow of a huge value times 2^30 is out of reach of 3-character values.
  Nothing under `src/` reads the listener settings, so their effect on the server is not modelled.
- The command dispatcher, which decides whether an unauthenticated client may run a
  command and which DB a command uses, is not under `src/`. So neither is a property:
  "a client of a server with databases 0 sits in DB 0, which SELECT refuses" is a hazard
  in `PROJECT.json` (config.cpp:51).
- `comms.hpp` declares the command table and the server's state, and holds no code that
  changes state. `Comms::Init` and `Start` are not under `src/`. Signal handling is one call.
- The `rename-command` map and `master_host` are not read by anything in the model: the
  dispatcher and `Comms::Init` are not under `src/`. The replica link's configuration is a
  constant of `ReplicaLink`.
- A process crash: nothing the link persists is under `src/`, so `ResumeConsistent` checks the state a restart would resume from.

## Plan (most important first)

1. ReplicaLink: model the `Continue()` granularity (one dispatch per call) and the frame's
   own copy of the log. This would check whether a replay frame can survive an epoch change.
2. WAL replay in segments, with a command split across the ring-buffer wrap (slave.cpp:114), as a liveness hazard.
3. `Slave::Stop()`, if a caller appears under `src/`: a violation run of "a stopped link
   stays closed" would show the reconnect.
4. Session: the `databases 0` start (config.cpp:51), once the dispatcher's use of
   `ctx.currentDB` is available to model. A client would then sit in a DB that SELECT refuses.
