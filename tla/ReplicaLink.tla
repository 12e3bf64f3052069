---------------------------- MODULE ReplicaLink ----------------------------
(***************************************************************************)
(* The replica side of replication: class Slave of                         *)
(* src/replication/slave.cpp, driven by the master it connects to.         *)
(*                                                                         *)
(* The master's history is the sequence 1, 2, ..., mlen: command k is the  *)
(* k-th write of the master, so the replica's dataset (store) is           *)
(* consistent exactly when it is the sequence 1..n for some n.  Offsets    *)
(* count commands (every command has wire length 1); checksums are not     *)
(* represented (see README).                                               *)
(*                                                                         *)
(* The event loop is single-threaded.  Besides the top level of the loop,  *)
(* events are dispatched from inside two long-running calls that yield     *)
(* through IOServ().Continue(): the snapshot Reload (LoadRDBRoutine) and   *)
(* the WAL replay loop (ReplayWAL(log, len)).  The variables load and      *)
(* rstack are the frames of those calls on the stack.                      *)
(***************************************************************************)
EXTENDS Naturals, Integers, Sequences, SequencesExt

CONSTANTS
  MasterId,    \* the run id the master reports in FULLRESYNC
  NoId,        \* the cleared cached run id (empty string)
  RandomId,    \* a random_hex_string(40) server key
  PeerKinds,   \* what INFO may report: [comms: BOOLEAN, version: version triple]
  MasterAuth,  \* config masterauth is set
  MasterHangs, \* the master may stop answering a connection it keeps open
  ClearDB,     \* config slave_cleardb_before_fullresync
  MaxWrites,   \* bound: writes of the master
  SnapChunks,  \* chunks of one snapshot transfer
  MaxFaults,   \* bound: injected faults (errors, drops, timeouts, I/O failures)
  MaxDepth     \* bound: nested replay frames

ASSUME MaxWrites \in Nat /\ SnapChunks \in Nat \ {0} /\ MaxFaults \in Nat
ASSUME MaxDepth \in Nat \ {0} /\ MasterAuth \in BOOLEAN /\ ClearDB \in BOOLEAN /\ MasterHangs \in BOOLEAN

NoStream == -1   \* the master streams nothing on this connection
NoAck == -1      \* no REPLCONF ACK written on this connection
NoLoad == [pos |-> 0, data |-> <<>>, snapOff |-> -1]

VARIABLES
  mlen, mStream, hung,        \* master: history length, next offset it streams from, silent
  toMaster, fromMaster,       \* the two directions of the current connection
  state, conn, status,        \* m_status.state, m_client, the rest of m_status
  stale, lastAck,             \* repl_timeout elapsed since m_cmd_recved_time; last ACK sent
  serverKey, dataOff,         \* g_repl: server key, DataOffset
  walStart, walCmds,          \* g_repl WAL: offset before its first entry, its entries
  store,                      \* g_db: the dataset, as the master commands applied
  snapFile,                   \* m_status.snapshot: the snapshot offset each written chunk came from
  load, rstack,               \* frames of Reload(LoadRDBRoutine) and of swal_replay
  faults, offBase             \* fault counter; ghost: master offset minus DataOffset

masterVars == <<mlen, mStream, hung>>
chanVars == <<toMaster, fromMaster>>
linkVars == <<state, conn, status, stale, lastAck>>
dataVars == <<serverKey, dataOff, walStart, walCmds, store>>
frameVars == <<snapFile, load, rstack>>
vars == <<masterVars, chanVars, linkVars, dataVars, frameVars, faults, offBase>>

\* enum SlaveState
States == {"INVALID", "CONNECTING", "WAITING_AUTH_REPLY", "WAITING_INFO_REPLY",
           "WAITING_REPLCONF_REPLY", "WAITING_PSYNC_REPLY", "WAITING_SNAPSHOT",
           "LOADING_SNAPSHOT", "SYNCED"}

\* the fields of m_status other than state and snapshot, as m_status.Clear() leaves them
StatusInit == [cachedId |-> NoId, cachedOff |-> 0, supportPsync |-> FALSE, replaying |-> FALSE]

Iota(n) == [i \in 1..n |-> i]
WalEnd == walStart + Len(walCmds)
WalAt(k) == walCmds[k - walStart]
Live == {"connecting", "open"}
Send(r) == toMaster' = Append(toMaster, r)
Req(t) == [type |-> t, id |-> NoId, n |-> 0]

(***************************************************************************)
(* The master, modelled from the protocol of spec.md section 6.           *)
(***************************************************************************)
Reply(k, id, n, p) == [type |-> "reply", kind |-> k, id |-> id, n |-> n, peer |-> p]
Chunks(o) == [i \in 1..SnapChunks |->
                [type |-> "chunk", first |-> i = 1, last |-> i = SnapChunks, n |-> o]]
Cmd(k) == [type |-> "cmd", n |-> k]
NoPeer == [comms |-> TRUE, version |-> <<0, 0, 0>>]

MasterWrite ==
  /\ mlen < MaxWrites
  /\ mlen' = mlen + 1
  /\ UNCHANGED <<mStream, hung, chanVars, linkVars, dataVars, frameVars, faults, offBase>>

\* The master answers the oldest request of the connection.
MasterServe ==
  /\ conn = "open" /\ ~hung /\ toMaster # <<>>
  /\ toMaster' = Tail(toMaster)
  /\ LET r == Head(toMaster) IN
     \/ /\ r.type \in {"auth", "replconf"}
        /\ fromMaster' = Append(fromMaster, Reply("ok", NoId, 0, NoPeer))
        /\ UNCHANGED mStream
     \/ /\ r.type = "info"
        /\ \E p \in PeerKinds : fromMaster' = Append(fromMaster, Reply("info", NoId, 0, p))
        /\ UNCHANGED mStream
     \/ /\ r.type = "psync" /\ r.id = MasterId /\ r.n <= mlen
        /\ fromMaster' = Append(fromMaster, Reply("continue", NoId, 0, NoPeer))
        /\ mStream' = r.n
     \/ /\ r.type = "psync"
        /\ fromMaster' = fromMaster \o <<Reply("fullresync", MasterId, mlen, NoPeer)>> \o Chunks(mlen)
        /\ mStream' = mlen
     \/ /\ r.type = "sync"
        /\ fromMaster' = fromMaster \o Chunks(mlen)
        /\ mStream' = mlen
  /\ UNCHANGED <<mlen, hung, linkVars, dataVars, frameVars, faults, offBase>>

\* The master answers a handshake request with an error, or PSYNC with a bad status.
MasterFault ==
  /\ conn = "open" /\ ~hung /\ toMaster # <<>> /\ faults < MaxFaults
  /\ Head(toMaster).type \in {"auth", "info", "replconf", "psync"}
  /\ toMaster' = Tail(toMaster)
  /\ \E k \in IF Head(toMaster).type = "psync" THEN {"err", "badstatus"} ELSE {"err"} :
        fromMaster' = Append(fromMaster, Reply(k, NoId, 0, NoPeer))
  /\ faults' = faults + 1
  /\ UNCHANGED <<masterVars, linkVars, dataVars, frameVars, offBase>>

\* The master propagates its next write on a streaming connection.
MasterStream ==
  /\ conn = "open" /\ ~hung /\ mStream # NoStream /\ mStream < mlen
  /\ fromMaster' = Append(fromMaster, Cmd(mStream + 1))
  /\ mStream' = mStream + 1
  /\ UNCHANGED <<mlen, hung, toMaster, linkVars, dataVars, frameVars, faults, offBase>>

\* The master keeps the connection open and stops answering and streaming on it.
MasterHang ==
  /\ MasterHangs /\ conn = "open" /\ ~hung /\ faults < MaxFaults
  /\ hung' = TRUE /\ faults' = faults + 1
  /\ UNCHANGED <<mlen, mStream, chanVars, linkVars, dataVars, frameVars, offBase>>

(***************************************************************************)
(* The replica link: class Slave.                                          *)
(***************************************************************************)

\* compare_version<3>(v, "2.7.0") >= 0: version triples compared field by field
VersionAtLeast(v, w) ==
  \/ v = w
  \/ \E i \in 1..3 : v[i] > w[i] /\ \A j \in 1..(i - 1) : v[j] = w[j]

\* server_support_psync as HandleRedisReply derives it from the INFO reply
SupportsPsync(p) == p.comms \/ VersionAtLeast(p.version, <<2, 7, 0>>)

\* The event loop dispatches socket events at its top level, and from
\* IOServ().Continue() at the start of each LoadRDBRoutine callback and
\* after each command of the replay loop.
Idle == load = NoLoad /\ rstack = <<>>
EventsAllowed ==
  \/ Idle
  \/ load # NoLoad /\ load.pos < Len(load.data)
  \/ rstack # <<>> /\ Last(rstack).cur > Last(rstack).start

\* Close(), Timeout(), ch->Close(): the close completes later, in ChannelClosed
CloseLink == conn' = IF conn \in Live THEN "closing" ELSE conn

\* Timeout()
Timeout == CloseLink

\* ConnectMaster(), reached only with m_client == NULL
ConnectMaster == conn' = "connecting" /\ state' = "CONNECTING"

\* InfoMaster()
InfoMaster == Send(Req("info")) /\ state' = "WAITING_INFO_REPLY"

\* Fault: ReplayWAL() without the replaying_wal re-entrancy guard.
CallsReplayUnguarded(st, off, end) == st = "SYNCED" /\ off # end

\* ReplayWAL(): the early returns before swal_replay is called
CallsReplay(st, off, end) == st = "SYNCED" /\ off # end /\ ~status.replaying

\* ReplayWAL(): replaying_wal = true; swal_replay(wal, DataOffset(), -1, ...)
\* opens a frame over the WAL from DataOffset to its current end.
PushReplay(off, end, ret) ==
  /\ Len(rstack) < MaxDepth
  /\ rstack' = Append(rstack, [start |-> off, cur |-> off, end |-> end, ret |-> ret])
  /\ status' = [status EXCEPT !.replaying = TRUE]

ReplayWAL(st, off, end, ret) ==
  IF CallsReplay(st, off, end) THEN PushReplay(off, end, ret)
  ELSE UNCHANGED <<rstack, status>>

\* Fault: Routine() no longer reconnects a dropped link.
RoutineRestNoConnect ==
  IF conn = "none" THEN UNCHANGED <<conn, state, lastAck>>
  ELSE IF state \in {"SYNCED", "LOADING_SNAPSHOT"}
       THEN IF stale /\ state = "SYNCED"
            THEN Timeout /\ UNCHANGED <<state, lastAck>>
            ELSE /\ lastAck' = IF status.supportPsync THEN dataOff ELSE lastAck
                 /\ UNCHANGED <<conn, state>>
       ELSE UNCHANGED <<conn, state, lastAck>>

\* Routine() after its ReplayWAL() call returned
RoutineRest ==
  IF conn = "none" THEN ConnectMaster /\ UNCHANGED lastAck
  ELSE IF state \in {"SYNCED", "LOADING_SNAPSHOT"}
       THEN IF stale /\ state = "SYNCED"
            THEN Timeout /\ UNCHANGED <<state, lastAck>>
            ELSE /\ lastAck' = IF status.supportPsync THEN dataOff ELSE lastAck
                 /\ UNCHANGED <<conn, state>>
       ELSE UNCHANGED <<conn, state, lastAck>>

\* Routine(), run by the repeating timer of Init() from the top of the loop
Routine ==
  /\ Idle
  /\ IF CallsReplay(state, dataOff, WalEnd)
     THEN PushReplay(dataOff, WalEnd, "routine") /\ UNCHANGED <<conn, state, lastAck>>
     ELSE RoutineRest /\ UNCHANGED <<rstack, status>>
  /\ UNCHANGED <<masterVars, chanVars, stale, dataVars, snapFile, load, faults, offBase>>

\* One iteration of the loop of ReplayWAL(log, len): apply the next logged
\* command with no_wal, advance DataOffset by its length, then Continue().
ReplayStep ==
  /\ rstack # <<>>
  /\ LET f == Last(rstack) IN
       /\ state = "SYNCED" /\ f.cur < f.end /\ f.cur >= walStart
       /\ store' = Append(store, WalAt(f.cur + 1))
       /\ dataOff' = dataOff + 1
       /\ rstack' = [rstack EXCEPT ![Len(rstack)].cur = f.cur + 1]
  /\ UNCHANGED <<masterVars, chanVars, linkVars, serverKey, walStart, walCmds,
                 snapFile, load, faults, offBase>>

\* The loop ends when the state left SYNCED or the replayed range is
\* exhausted; swal_replay returns and replaying_wal is reset.  A frame
\* opened by Routine() then runs the rest of Routine().
ReplayDone ==
  /\ rstack # <<>>
  /\ LET f == Last(rstack) IN
       /\ state # "SYNCED" \/ f.cur = f.end \/ f.cur < walStart
       /\ rstack' = Front(rstack)
       /\ status' = [status EXCEPT !.replaying = FALSE]
       /\ IF f.ret = "routine" THEN RoutineRest ELSE UNCHANGED <<conn, state, lastAck>>
  /\ UNCHANGED <<masterVars, chanVars, stale, dataVars, snapFile, load, faults, offBase>>

\* HandleRedisReply(): one handshake reply, by the state awaiting it.
\* Changes state, conn, status and toMaster only.
HandleRedisReply(m) ==
  CASE state = "WAITING_AUTH_REPLY" ->
         /\ IF m.kind = "err" THEN CloseLink ELSE UNCHANGED conn
         /\ InfoMaster
         /\ UNCHANGED status
    [] state = "WAITING_INFO_REPLY" /\ m.kind = "err" ->
         CloseLink /\ UNCHANGED <<state, status, toMaster>>
    [] state = "WAITING_INFO_REPLY" ->
         /\ status' = [status EXCEPT !.supportPsync = SupportsPsync(m.peer)]
         /\ Send(Req("replconf"))
         /\ state' = "WAITING_REPLCONF_REPLY"
         /\ UNCHANGED conn
    [] state = "WAITING_REPLCONF_REPLY" /\ m.kind = "err" ->
         CloseLink /\ UNCHANGED <<state, status, toMaster>>
    [] state = "WAITING_REPLCONF_REPLY" /\ status.supportPsync ->
         /\ Send([type |-> "psync", id |-> serverKey, n |-> WalEnd])
         /\ state' = "WAITING_PSYNC_REPLY"
         /\ UNCHANGED <<conn, status>>
    [] state = "WAITING_REPLCONF_REPLY" ->
         /\ Send(Req("sync"))
         /\ state' = "WAITING_SNAPSHOT"
         /\ UNCHANGED <<conn, status>>
    [] state = "WAITING_PSYNC_REPLY" /\ m.kind = "fullresync" ->
         /\ status' = [status EXCEPT !.cachedId = m.id, !.cachedOff = m.n]
         /\ state' = "WAITING_SNAPSHOT"
         /\ UNCHANGED <<conn, toMaster>>
    [] state = "WAITING_PSYNC_REPLY" /\ m.kind = "continue" ->
         state' = "SYNCED" /\ UNCHANGED <<conn, status, toMaster>>
    [] OTHER ->
         CloseLink /\ UNCHANGED <<state, status, toMaster>>

\* HandleRedisCommand(): the command is always written to the WAL; it is
\* applied at once only if SYNCED and it lands right after DataOffset,
\* otherwise ReplayWAL() is called.
\* Fault: a command is applied at once whenever SYNCED, even past a gap.
AppliesDirectlyPastGap(end) == state = "SYNCED"

AppliesDirectly(end) == state = "SYNCED" /\ dataOff + 1 = end

HandleRedisCommand(m) ==
  LET end == WalEnd + 1 IN
  /\ stale' = FALSE
  /\ walCmds' = Append(walCmds, m.n)
  /\ IF AppliesDirectly(end)
     THEN /\ store' = Append(store, m.n)
          /\ dataOff' = dataOff + 1
          /\ UNCHANGED <<rstack, status>>
     ELSE ReplayWAL(state, dataOff, end, "none") /\ UNCHANGED <<store, dataOff>>

\* The content of a snapshot file: the master's history up to the offset
\* it was dumped at, if the file holds exactly the chunks of one transfer;
\* anything else loads as a foreign entry 0.
FileContent(f) ==
  IF Len(f) = SnapChunks /\ \A i \in 1..Len(f) : f[i] = f[1] THEN Iota(f[1]) ELSE <<0>>

\* Fault: the reload keeps the old server key instead of a random one.
StartReloadKeepKey(f) ==
  /\ state' = "LOADING_SNAPSHOT"
  /\ serverKey' = serverKey
  /\ walStart' = status.cachedOff
  /\ walCmds' = <<>>
  /\ store' = IF ClearDB THEN <<>> ELSE store
  /\ stale' = FALSE
  /\ load' = [pos |-> 0, data |-> FileContent(f), snapOff |-> f[Len(f)]]

\* The last chunk: RenameDefault, switch to commands, LOADING_SNAPSHOT, a
\* random server key, WAL reset to the cached master offset, optional
\* FlushAll, m_cmd_recved_time reset, and Reload() starts.
StartReload(f) ==
  /\ state' = "LOADING_SNAPSHOT"
  /\ serverKey' = RandomId
  /\ walStart' = status.cachedOff
  /\ walCmds' = <<>>
  /\ store' = IF ClearDB THEN <<>> ELSE store
  /\ stale' = FALSE
  /\ load' = [pos |-> 0, data |-> FileContent(f), snapOff |-> f[Len(f)]]

\* HandleRedisDumpChunk(): a first chunk starts a fresh temp file, every
\* chunk is appended, the last one starts the reload.
HandleRedisDumpChunk(m) ==
  IF state # "WAITING_SNAPSHOT"
  THEN CloseLink /\ UNCHANGED <<state, stale, dataVars, snapFile, load>>
  ELSE LET f == IF m.first THEN <<m.n>> ELSE Append(snapFile, m.n) IN
       /\ snapFile' = f
       /\ IF m.last THEN StartReload(f)
          ELSE UNCHANGED <<state, stale, serverKey, walStart, walCmds, store, load>>
       /\ UNCHANGED <<conn, dataOff>>

\* MessageReceived(): the next message of the connection, by its kind.
Deliver ==
  /\ EventsAllowed /\ conn = "open" /\ fromMaster # <<>>
  /\ fromMaster' = Tail(fromMaster)
  /\ LET m == Head(fromMaster) IN
     \/ /\ m.type = "reply"
        /\ HandleRedisReply(m)
        /\ UNCHANGED <<stale, lastAck, dataVars, frameVars>>
     \/ /\ m.type = "cmd"
        /\ HandleRedisCommand(m)
        /\ UNCHANGED <<toMaster, state, conn, lastAck, serverKey, walStart, snapFile, load>>
     \/ /\ m.type = "chunk"
        /\ HandleRedisDumpChunk(m)
        /\ UNCHANGED <<toMaster, status, lastAck, rstack>>
  /\ UNCHANGED <<masterVars, faults, offBase>>

\* ChannelConnected(): send AUTH if masterauth is set, else INFO.
ChannelConnected ==
  /\ EventsAllowed /\ conn = "connecting"
  /\ conn' = "open"
  /\ stale' = FALSE
  /\ IF MasterAuth THEN Send(Req("auth")) /\ state' = "WAITING_AUTH_REPLY" ELSE InfoMaster
  /\ UNCHANGED <<masterVars, fromMaster, status, lastAck, dataVars, frameVars, faults, offBase>>

\* ChannelClosed(): m_client = NULL, m_status.Clear(); the connection's
\* buffers and the master's session go with it.
ResetLink ==
  /\ conn' = "none" /\ state' = "INVALID" /\ status' = StatusInit /\ lastAck' = NoAck
  /\ toMaster' = <<>> /\ fromMaster' = <<>> /\ mStream' = NoStream /\ hung' = FALSE
  /\ UNCHANGED <<mlen, stale, dataVars, frameVars, offBase>>

ChannelClosed ==
  /\ EventsAllowed /\ conn = "closing"
  /\ ResetLink /\ UNCHANGED faults

\* The connection fails or the master drops it.
LinkDropped ==
  /\ EventsAllowed /\ conn \in Live /\ faults < MaxFaults
  /\ ResetLink /\ faults' = faults + 1

\* repl_timeout elapses with no command from the master.
Tick ==
  /\ ~stale /\ faults < MaxFaults
  /\ stale' = TRUE /\ faults' = faults + 1
  /\ UNCHANGED <<masterVars, chanVars, state, conn, status, lastAck, dataVars, frameVars, offBase>>

\* LoadRDBRoutine(): Continue() (socket events, see EventsAllowed), abort
\* if the state left LOADING_SNAPSHOT, else Routine(); then Reload loads
\* the next entry of the file.  Routine's ReplayWAL() does nothing here.
LoadStep ==
  /\ load # NoLoad /\ load.pos < Len(load.data)
  /\ state = "LOADING_SNAPSHOT"
  /\ RoutineRest
  /\ store' = Append(store, load.data[load.pos + 1])
  /\ load' = [load EXCEPT !.pos = @ + 1]
  /\ UNCHANGED <<masterVars, chanVars, status, stale, serverKey, dataOff, walStart, walCmds,
                 snapFile, rstack, faults, offBase>>

\* Reload() returns non-zero: close the client if there is one.
ReloadFailed ==
  /\ load' = NoLoad /\ CloseLink
  /\ UNCHANGED <<masterVars, chanVars, state, status, stale, lastAck, dataVars, snapFile, rstack, offBase>>

LoadAbort ==
  /\ load # NoLoad /\ load.pos < Len(load.data) /\ state # "LOADING_SNAPSHOT"
  /\ ReloadFailed /\ UNCHANGED faults

\* The snapshot file cannot be read.
LoadFail ==
  /\ load # NoLoad /\ faults < MaxFaults
  /\ ReloadFailed /\ faults' = faults + 1

\* Fault: DataOffset committed one past the offset the snapshot was taken at.
LoadFinishPastSnapshot ==
  /\ load # NoLoad /\ load.pos = Len(load.data)
  /\ serverKey' = status.cachedId
  /\ dataOff' = status.cachedOff + 1
  /\ offBase' = load.snapOff - status.cachedOff
  /\ state' = "SYNCED"
  /\ load' = NoLoad
  /\ ReplayWAL("SYNCED", status.cachedOff, WalEnd, "none")
  /\ UNCHANGED <<masterVars, chanVars, conn, stale, lastAck, walStart, walCmds, store, snapFile, faults>>

\* Reload() returns 0: commit the cached master id and offset, SYNCED,
\* then ReplayWAL() for what was logged during the load.
LoadFinish ==
  /\ load # NoLoad /\ load.pos = Len(load.data)
  /\ serverKey' = status.cachedId
  /\ dataOff' = status.cachedOff
  /\ offBase' = load.snapOff - status.cachedOff
  /\ state' = "SYNCED"
  /\ load' = NoLoad
  /\ ReplayWAL("SYNCED", status.cachedOff, WalEnd, "none")
  /\ UNCHANGED <<masterVars, chanVars, conn, stale, lastAck, walStart, walCmds, store, snapFile, faults>>

Init ==
  /\ mlen = 0 /\ mStream = NoStream /\ hung = FALSE
  /\ toMaster = <<>> /\ fromMaster = <<>>
  /\ state = "INVALID" /\ conn = "none" /\ status = StatusInit
  /\ stale = FALSE /\ lastAck = NoAck
  /\ serverKey = RandomId /\ dataOff = 0 /\ walStart = 0 /\ walCmds = <<>> /\ store = <<>>
  /\ snapFile = <<>> /\ load = NoLoad /\ rstack = <<>>
  /\ faults = 0 /\ offBase = 0

Next ==
  \/ MasterWrite \/ MasterServe \/ MasterFault \/ MasterStream \/ MasterHang
  \/ Routine \/ ReplayStep \/ ReplayDone
  \/ Deliver \/ ChannelConnected \/ ChannelClosed \/ LinkDropped \/ Tick
  \/ LoadStep \/ LoadAbort \/ LoadFail \/ LoadFinish

\* The timer, the event loop, the reload and replay loops always run on; the
\* master answers and streams.  Its writes and every fault are not forced.
Fairness ==
  /\ WF_vars(Routine) /\ WF_vars(ReplayStep) /\ WF_vars(ReplayDone)
  /\ WF_vars(Deliver) /\ WF_vars(ChannelConnected) /\ WF_vars(ChannelClosed)
  /\ WF_vars(LoadStep) /\ WF_vars(LoadAbort) /\ WF_vars(LoadFinish)
  /\ WF_vars(MasterServe) /\ WF_vars(MasterStream)

Spec == Init /\ [][Next]_vars /\ Fairness

-----------------------------------------------------------------------------
\* IsSynced()
IsSynced == conn # "none" /\ state = "SYNCED"

Kinds == {"ok", "err", "badstatus", "info", "fullresync", "continue"}
TypeOK ==
  /\ mlen \in 0..MaxWrites /\ hung \in BOOLEAN /\ mStream \in {NoStream} \cup 0..MaxWrites
  /\ state \in States /\ conn \in {"none", "connecting", "open", "closing"}
  /\ status \in [cachedId : {NoId, MasterId}, cachedOff : 0..MaxWrites,
                 supportPsync : BOOLEAN, replaying : BOOLEAN]
  /\ stale \in BOOLEAN /\ faults \in 0..MaxFaults
  /\ serverKey \in {MasterId, NoId, RandomId}
  /\ dataOff \in 0..MaxWrites /\ walStart \in 0..MaxWrites /\ lastAck \in {NoAck} \cup 0..MaxWrites
  /\ walCmds \in Seq(1..MaxWrites) /\ store \in Seq(0..MaxWrites)
  /\ Len(rstack) <= MaxDepth
  /\ \A i \in 1..Len(fromMaster) : fromMaster[i].type \in {"reply", "cmd", "chunk"}

\* When the link is SYNCED, the dataset is exactly the master's history up
\* to the applied offset (DataOffset, in the master's numbering): every
\* command applied directly by HandleRedisCommand, by the replay loop, or
\* loaded from a snapshot, once and in order.
ReplicaConsistent == state = "SYNCED" => store = Iota(dataOff + offBase)

\* Whenever the server key names the master, so that the next PSYNC can be
\* answered CONTINUE from WALEndOffset, the dataset is the master's history
\* up to DataOffset and the WAL holds the master's commands after its start,
\* with DataOffset inside it (the comment of HandleRedisDumpChunk on the
\* random server key set before the reload).
ResumeConsistent ==
  serverKey = MasterId =>
    /\ store = Iota(dataOff)
    /\ \A i \in 1..Len(walCmds) : walCmds[i] = walStart + i
    /\ walStart <= dataOff /\ dataOff <= WalEnd

\* Once the faults are spent and the master stops writing, the link ends up
\* synced with the master's whole history applied (Routine's reconnects and
\* catch-up replays, the handshake, the transfer and the reload all finish).
CaughtUp == <>[](IsSynced /\ store = Iota(mlen))

-----------------------------------------------------------------------------
(* What spec.md says of the link, checked against what the code does.      *)

\* spec.md 4.1, Routine step 4: the periodic REPLCONF ACK reports the
\* currently applied offset, in steady state.  So an ACK never claims more
\* of the master's stream (numbered as PSYNC numbers it) than the dataset holds.
AckTruthful == lastAck # NoAck => lastAck <= Len(store)

\* spec.md 4.1, Routine step 3 and the table row "SYNCED / LOADING_SNAPSHOT,
\* stale timeout, close": a Routine() call that finds no data for
\* repl_timeout while LOADING_SNAPSHOT closes the link.
StaleLinkClosed ==
  [][(LoadStep /\ stale /\ conn = "open") => conn' = "closing"]_vars

\* spec.md 4.1 table and section 9: in AWAIT_AUTH any reply, an error
\* included, moves the link on to AWAIT_INFO without closing it.
AuthErrorProceeds ==
  [][(state = "WAITING_AUTH_REPLY" /\ state' = "WAITING_INFO_REPLY") => conn' = "open"]_vars

=============================================================================
