---------------------------- MODULE MCReplyArena ----------------------------
(* Instantiates ReplyArena for TLC.  The pool is constructed with size 2,  *)
(* as the decoding context builds it; SetMaxSize may shrink it to 1 or grow *)
(* it to 3, and one reply holds up to 4 values, enough to run past a      *)
(* table of 1 or 2 slots into the overflow and to nest arrays two deep.    *)
EXTENDS ReplyArena, TLC

MCSizes == {1, 3}
=============================================================================
