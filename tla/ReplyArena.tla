----------------------------- MODULE ReplyArena -----------------------------
(***************************************************************************)
(* The pooled reply representation of                                      *)
(* src/common/channel/codec/redis_reply.cpp: RedisReplyPool (a pre-sized   *)
(* table `elements`, an overflow `pending` grown lazily, a cursor) and the *)
(* RedisReply operations that allocate from it while one reply is decoded. *)
(*                                                                         *)
(* A slot is addressed by <<"e", i>> (elements[i-1]) or <<"p", i>>         *)
(* (pending[i-1]).  Its content keeps what the properties tell apart:      *)
(* whether any scalar field (type, integer, str) is non-zero, and its      *)
(* child list.  The ghost field `handed` lists, in order, the slots        *)
(* Allocate() returned since the last Clear() of the pool: the values of   *)
(* the reply being decoded.                                                *)
(*                                                                         *)
(* The root of a reply is either the first value of a shared pool, or an   *)
(* unparented value Root whose GetPool() creates a private pool on first  *)
(* use (self_pool); clearing such a value clears its pool.                 *)
(***************************************************************************)
EXTENDS Naturals, Sequences, SequencesExt, Functions

CONSTANTS
  InitSize,        \* the size RedisReplyPool is constructed with
  Sizes,           \* the sizes SetMaxSize may be called with
  MaxAlloc,        \* bound: values allocated in one decode
  ResizeMidDecode  \* SetMaxSize may be called while a reply is being built

ASSUME InitSize \in Nat /\ Sizes \subseteq Nat /\ MaxAlloc \in Nat \ {0}
ASSUME ResizeMidDecode \in BOOLEAN

TableBound == Max(Sizes \cup {InitSize})
Addr == ({"e"} \X (1..TableBound)) \cup ({"p"} \X (1..MaxAlloc))
Root == <<"r", 0>>
Cells == Addr \cup {Root}

\* a value as RedisReply::Clear() leaves it (elements deleted: no children)
Zero == [set |-> FALSE, kids |-> <<>>]

VARIABLES
  ar,    \* the pool and the values
  priv   \* the root: "none" (a pool value), "unmade" (pool NULL), "made" (self_pool)

\* SetMaxSize(): a size that is positive and differs from m_max_size resizes
\* the table; slots kept by the resize keep their content, new ones are
\* default-constructed and bound to the pool.
SetMaxSize(a, size) ==
  IF size > 0 /\ size # a.maxSize
  THEN [a EXCEPT !.eSize = size, !.maxSize = size,
                 !.cell = [x \in Cells |-> IF x[1] = "e" /\ x[2] > a.eSize THEN Zero ELSE @[x]]]
  ELSE a

\* The constructor: m_max_size(size), m_cursor(0), then SetMaxSize(size).
Construct(size) ==
  SetMaxSize([maxSize |-> size, cursor |-> 0, eSize |-> 0, pLen |-> 0,
              cell |-> [x \in Cells |-> Zero], handed |-> <<>>], size)

\* Fault: Clear() resets the cursor but keeps the overflow values.
ClearKeepPending(a) == [a EXCEPT !.cursor = 0, !.handed = <<>>]

\* RedisReplyPool::Clear(), at the start of each top-level decode.
ClearPool(a) == [a EXCEPT !.cursor = 0, !.pLen = 0, !.handed = <<>>]

\* Fault: RedisReply::Clear() resets the scalars but not the child list.
ClearValueKeepKids(a, v) ==
  LET b == [a EXCEPT !.cell[v].set = FALSE] IN
  IF v = Root /\ priv = "made" THEN ClearPool(b) ELSE b

\* RedisReply::Clear(): the fields and the child list are reset; a value
\* that owns its pool (self_pool, pool not NULL) clears the pool too.  Every
\* value a pool hands out has self_pool false.
ClearValue(a, v) ==
  LET b == [a EXCEPT !.cell[v] = Zero] IN
  IF v = Root /\ priv = "made" THEN ClearPool(b) ELSE b

\* Allocate(): the slot it returns ...
AllocAddr(a) ==
  IF a.cursor >= a.eSize THEN <<"p", a.cursor - a.eSize + 1>> ELSE <<"e", a.cursor + 1>>

\* Fault: the growth loop runs once more than it should (pending.size() - 1).
HandoutOverGrow(a, x) ==
  [a EXCEPT !.cursor = @ + 1,
            !.pLen = IF x[1] = "p" THEN Max({@, x[2] + 1}) ELSE @,
            !.cell = [y \in Cells |-> IF y[1] = "p" /\ x[1] = "p" /\ a.pLen < y[2] /\ y[2] <= x[2] + 1
                                     THEN Zero ELSE @[y]],
            !.handed = Append(@, x)]

\* the cursor advanced, pending grown with fresh values up to one past the
\* index requested, and the slot handed out
Handout(a, x) ==
  [a EXCEPT !.cursor = @ + 1,
            !.pLen = IF x[1] = "p" THEN Max({@, x[2]}) ELSE @,
            !.cell = [y \in Cells |-> IF y[1] = "p" /\ x[1] = "p" /\ a.pLen < y[2] /\ y[2] <= x[2]
                                     THEN Zero ELSE @[y]],
            !.handed = Append(@, x)]

\* Fault: the table path returns elements[m_cursor] without r.Clear().
AllocateNoClear(a) == Handout(a, AllocAddr(a))

\* Fault: the table path returns elements[m_cursor] without advancing m_cursor.
AllocateNoAdvance(a) ==
  LET x == AllocAddr(a) IN
  IF x[1] = "e" THEN ClearValue([Handout(a, x) EXCEPT !.cursor = a.cursor], x) ELSE Handout(a, x)

\* ... and the pool after it: past the table, pending[m_cursor - size] is
\* returned as it is; within it, elements[m_cursor] is Clear()ed.
Allocate(a) ==
  LET x == AllocAddr(a) IN
  IF x[1] = "e" THEN ClearValue(Handout(a, x), x) ELSE Handout(a, x)

\* GetPool() called on v: an unparented value creates its own pool (built
\* as the constructor builds it, the default size being InitSize).
GetPool(v) == IF v = Root /\ priv = "unmade" THEN "made" ELSE priv

\* AddMember(tail): type = ARRAY, the child list is materialised, a value is
\* allocated from the pool and linked at the tail or the head.
AddMember(a, v, tail) ==
  LET b == Allocate(a)
      x == AllocAddr(a)
  IN [b EXCEPT !.cell[v].set = TRUE,
               !.cell[v].kids = IF tail THEN Append(@, x) ELSE <<x>> \o @]

\* ReserveMember(num): type = ARRAY, then nil values are allocated and
\* appended until the child list holds num values.
RECURSIVE ReserveFrom(_, _, _)
ReserveFrom(a, v, num) ==
  IF Len(a.cell[v].kids) >= num THEN a
  ELSE LET b == Allocate(a)
           x == AllocAddr(a)
       IN ReserveFrom([b EXCEPT !.cell[x].set = TRUE, !.cell[v].kids = Append(@, x)], v, num)

ReserveMember(a, v, num) == ReserveFrom([a EXCEPT !.cell[v].set = TRUE], v, num)

-----------------------------------------------------------------------------
(* The decoder: the one client of the pool, building one reply at a time.  *)

Live == Range(ar.handed) \cup (IF priv = "none" THEN {} ELSE {Root})

\* The pool of the decoding context is constructed; the reply is built in it
\* or in an unparented value that has no pool yet.
Init == ar = Construct(InitSize) /\ priv \in {"none", "unmade"}

\* A new top-level decode: the shared pool is cleared and the root
\* allocated from it, or the unparented root is cleared (and its pool too).
DecodeReply ==
  /\ ar' = IF priv = "none" THEN Allocate(ClearPool(ar)) ELSE ClearValue(ar, Root)
  /\ UNCHANGED priv

\* a scalar field of a value of the reply is decoded
SetScalar ==
  /\ \E v \in Live : ar' = [ar EXCEPT !.cell[v].set = TRUE]
  /\ UNCHANGED priv

AddChild ==
  /\ ar.cursor < MaxAlloc
  /\ \E v \in Live, tail \in BOOLEAN : ar' = AddMember(ar, v, tail) /\ priv' = GetPool(v)

Reserve ==
  \E v \in Live, num \in 1..2 :
    /\ ar.cursor + (num - Len(ar.cell[v].kids)) <= MaxAlloc
    /\ ar' = ReserveMember(ar, v, num)
    /\ priv' = GetPool(v)

ResetValue ==
  /\ \E v \in Live : ar' = ClearValue(ar, v)
  /\ UNCHANGED priv

\* SetMaxSize on the pool, once it exists
Resize ==
  /\ priv # "unmade"
  /\ ResizeMidDecode \/ ar.handed = <<>>
  /\ \E size \in Sizes : ar' = SetMaxSize(ar, size)
  /\ UNCHANGED priv

Next == DecodeReply \/ SetScalar \/ AddChild \/ Reserve \/ ResetValue \/ Resize

Spec == Init /\ [][Next]_<<ar, priv>>

-----------------------------------------------------------------------------
TypeOK ==
  /\ ar.maxSize \in Sizes \cup {InitSize} /\ ar.eSize \in 0..TableBound
  /\ ar.cursor \in 0..MaxAlloc /\ ar.pLen \in 0..MaxAlloc
  /\ ar.cell \in [Cells -> [set : BOOLEAN, kids : Seq(Addr)]]
  /\ ar.handed \in Seq(Addr) /\ priv \in {"none", "unmade", "made"}

\* Every value of the reply being decoded lives in its own slot: no two
\* calls to Allocate() since the pool's Clear() return the same value.
NoAlias == IsInjective(ar.handed)

\* A value fresh from Allocate() carries no child list from an earlier
\* use of its slot (spec.md 8: no stale data on a freshly allocated slot).
FreshOnAllocate ==
  [][\A i \in (Len(ar.handed) + 1)..Len(ar'.handed) : ar'.cell[ar'.handed[i]].kids = <<>>]_<<ar, priv>>

\* The values of the reply form a tree: each child of a value of the reply
\* is a value allocated after it in the same decode, and no value is the
\* child of two values or twice a child.
Pos(x) == IF x = Root THEN 0 ELSE CHOOSE i \in 1..Len(ar.handed) : ar.handed[i] = x
ReplyTree ==
  \A v \in Live : \A j \in 1..Len(ar.cell[v].kids) :
    LET k == ar.cell[v].kids[j] IN
    /\ k \in Live /\ Pos(k) > Pos(v)
    /\ \A w \in Live : \A i \in 1..Len(ar.cell[w].kids) : ar.cell[w].kids[i] = k => w = v /\ i = j

\* Allocate() draws from the table before it grows the overflow, and the
\* overflow holds exactly the values allocated past the table since the
\* pool was cleared (one past the highest index requested).
OverflowPastTable ==
  ar.pLen = IF ar.cursor > ar.eSize THEN ar.cursor - ar.eSize ELSE 0

\* spec.md 3: the arena is a pre-sized table.  A reply of no more values
\* than the size the pool was given is allocated wholly from the table.
FromTable ==
  \A i \in 1..Len(ar.handed) : i <= ar.maxSize => ar.handed[i][1] = "e"
=============================================================================
