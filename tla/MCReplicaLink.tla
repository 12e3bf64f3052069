--------------------------- MODULE MCReplicaLink ---------------------------
(* Instantiates ReplicaLink for TLC: three kinds of master (a Comms        *)
(* master, a Redis master at exactly 2.7.0 and one at 2.6.17, which only   *)
(* understands SYNC).                                                     *)
EXTENDS ReplicaLink, TLC

MCPeerKinds ==
  { [comms |-> TRUE,  version |-> <<0, 0, 0>>],
    [comms |-> FALSE, version |-> <<2, 7, 0>>],
    [comms |-> FALSE, version |-> <<2, 6, 17>>] }

\* Safety runs check every interleaving, without fairness.
SafetySpec == Init /\ [][Next]_vars

\* The refinement mapping: the master's history is mlen writes; the link is
\* synced in state SYNCED, and its dataset is then g_db.
Abstract == INSTANCE ReplicaSpec WITH
  hist <- mlen,
  synced <- state = "SYNCED",
  data <- IF state = "SYNCED" THEN store ELSE <<>>

\* ReplicaLink implements ReplicaSpec: every step of the link, the master,
\* the timer, the reload callback and the replay loop is a step of the
\* abstract link or leaves its state alone.  In particular a synced dataset
\* only grows by the master's next write, and SYNCED is only entered with
\* a prefix of the master's history.
Refines == Abstract!Spec
=============================================================================
