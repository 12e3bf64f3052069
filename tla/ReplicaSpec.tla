---------------------------- MODULE ReplicaSpec ----------------------------
(***************************************************************************)
(* What the replica link promises the clients of the replica's dataset,    *)
(* with no handshake, transfer, WAL or event loop: the master's history    *)
(* grows one write at a time; while the replica is synced its dataset is   *)
(* a prefix of that history and grows only by the next write; losing the  *)
(* sync hides the dataset, and a resync exposes some prefix again (a       *)
(* partial resync keeps the old one, a full resync takes the snapshot's). *)
(* ReplicaLink implements it (see MCReplicaLink).                          *)
(***************************************************************************)
EXTENDS Naturals, Sequences

CONSTANT MaxWrites   \* bound: writes of the master

VARIABLES
  hist,    \* the number of writes in the master's history: write k is k
  synced,  \* the replica serves a synced dataset
  data     \* that dataset, <<>> while not synced

vars == <<hist, synced, data>>

Prefix(k) == [i \in 1..k |-> i]

Init == hist = 0 /\ synced = FALSE /\ data = <<>>

Write ==
  /\ hist < MaxWrites
  /\ hist' = hist + 1
  /\ UNCHANGED <<synced, data>>

Apply ==
  /\ synced /\ Len(data) < hist
  /\ data' = Append(data, Len(data) + 1)
  /\ UNCHANGED <<hist, synced>>

Lose ==
  /\ synced
  /\ synced' = FALSE /\ data' = <<>>
  /\ UNCHANGED hist

Resync ==
  /\ ~synced
  /\ synced' = TRUE
  /\ \E k \in 0..hist : data' = Prefix(k)
  /\ UNCHANGED hist

Next == Write \/ Apply \/ Lose \/ Resync

Spec == Init /\ [][Next]_vars
=============================================================================
