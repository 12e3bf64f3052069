------------------------------ MODULE Listeners ------------------------------
(***************************************************************************)
(* The listener settings of CommsConfig::Parse (src/config.cpp): every     *)
(* "listen" line adds an address, and the "thread-pool-size" and           *)
(* "qps-limit" lines give, by position, each listener's thread count and   *)
(* request limit.  A line with more than one value, or a size that is not  *)
(* a number, is skipped with a warning.  A configuration line is a value   *)
(* or Bad (a line the code rejects); the lines of one key keep their file  *)
(* order in Properties.  Pure operators; the module Config applies them   *)
(* in Parse.                                                               *)
(***************************************************************************)
EXTENDS Naturals, Sequences, SequencesExt

CONSTANTS
  Addrs,        \* addresses a listen line may give
  Nums,         \* numbers a thread-pool-size or qps-limit line may give
  Bad,          \* a line the code rejects
  DefaultAddr,  \* "0.0.0.0:16379"
  MaxLines      \* bound: lines of one key

Lines(vals) == SeqOf(vals \cup {Bad}, MaxLines)

\* the accepted lines of a key, in order (the else branches of the loops)
Accepted(lines) == SelectSeq(lines, LAMBDA x : x # Bad)

\* listen_addresses, with the default when no line was accepted
ListenAddresses(ls) == IF Accepted(ls) = <<>> THEN <<DefaultAddr>> ELSE Accepted(ls)

\* vector::resize(n) of an int64 vector: cut, or padded with 0
Resize(s, n) == [i \in 1..n |-> IF i <= Len(s) THEN s[i] ELSE 0]

\* Parse's listener settings: the three loops, then both resizes
ParseListeners(ls, tps, qps) ==
  LET addrs == ListenAddresses(ls) IN
  [listen |-> addrs,
   tps |-> Resize(Accepted(tps), Len(addrs)),
   qps |-> Resize(Accepted(qps), Len(addrs))]

-----------------------------------------------------------------------------
(* Reference: the k-th thread-pool-size line configures the listener of    *)
(* the k-th listen line; a listener whose own line is missing or rejected  *)
(* keeps 0.                                                                *)

\* the size the k-th line of a per-listener key intends, 0 if none
IntendedAt(lines, k) == IF k <= Len(lines) /\ lines[k] # Bad THEN lines[k] ELSE 0

\* the position in listen_addresses of the k-th listen line's address
ListenerOf(ls, k) == Len(Accepted(SubSeq(ls, 1, k)))
=============================================================================
