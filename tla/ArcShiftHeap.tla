------------------------------ MODULE ArcShiftHeap ------------------------------
(***************************************************************************)
(* The chain of ItemHolder nodes that all ArcShift and ArcShiftWeak        *)
(* instances of one value share (arcshift/src/lib.rs), and what a running  *)
(* call keeps on its stack.                                                *)
(*                                                                         *)
(* Each field of an ItemHolder is one atomic word, hence one variable.     *)
(* Memory is sequentially consistent: a step is one atomic access (or one  *)
(* load / compare-exchange retry loop that ends in a single successful     *)
(* access), and the accesses of different threads interleave.              *)
(***************************************************************************)
EXTENDS Integers, FiniteSets

CONSTANTS
  Threads,      \* the threads that make calls
  Handles,      \* the variables that can hold an ArcShift or an ArcShiftWeak
  MaxNodes,     \* how many ItemHolders are ever allocated (a bound)
  UsizeMax      \* usize::MAX, the value of STRONG_DROPPED

Null == 0
Nodes == 1..MaxNodes
Ptrs == Nodes \cup {Null}
STRONG_DROPPED == UsizeMax

(* A call holds at most two strong references besides those of the handles, *)
(* so the counts stay far below the sentinel.                               *)
ASSUME HeapAssumption ==
  /\ MaxNodes \in Nat \ {0}
  /\ UsizeMax \in Nat \ {0}
  /\ Handles # {}
  /\ IsFiniteSet(Threads) /\ IsFiniteSet(Handles)
  /\ Cardinality(Handles) + 2 * Cardinality(Threads) + 1 < UsizeMax

VARIABLES
  next,         \* next[n]: pointer to the right and the three flags in its low bits
  prev,         \* prev[n]: pointer to the left
  strong,       \* strong[n]: strong_count
  weak,         \* weak[n]: weak_count, with its two flags
  adv,          \* adv[n]: advance_count
  mem,          \* mem[n]: is the allocation unused, private to its creator, live, freed
  drops,        \* drops[n]: how often the payload was destroyed or moved out
  handle,       \* handle[h]: what variable h holds
  left,         \* left[t]: how many calls thread t may still make (a bound)
  stamp,        \* stamp[n]: place of n in the order of publication, 0 before it
  count,        \* number of values published so far
  pc,           \* the next step of each thread
  item,         \* item_ptr of the function each thread is in
  av,           \* locals of do_advance_impl and its closure
  pd,           \* locals of do_drop_payload_if_possible
  jn,           \* locals of do_janitor_task
  dr,           \* locals of do_drop_weak and do_drop_strong
  op            \* the public call in progress

heap == <<next, prev, strong, weak, adv, mem, drops>>
client == <<handle, left, stamp, count>>
locals == <<item, av, pd, jn, dr, op>>
vars == <<heap, client, pc, locals>>

-----------------------------------------------------------------------------
(* The words of a node. *)

NextWords == [ptr : Ptrs, locked : BOOLEAN, dropped : BOOLEAN, disturbed : BOOLEAN]
NullNext == [ptr |-> Null, locked |-> FALSE, dropped |-> FALSE, disturbed |-> FALSE]

WeakWords == [count : Int, haveNext : BOOLEAN, havePrev : BOOLEAN]
NoWeak == [count |-> 0, haveNext |-> FALSE, havePrev |-> FALSE]

\* fetch_add and fetch_sub wrap around, and STRONG_DROPPED is usize::MAX
Inc(c) == IF c = UsizeMax THEN 0 ELSE c + 1
Dec(c) == IF c = 0 THEN UsizeMax ELSE c - 1

LiveStrong(c) == IF c = STRONG_DROPPED THEN 0 ELSE c

\* mutant: the pointer is compared with null before its flags are taken off
HasNextDecorated(n) == next[n] # NullNext

HasNext(n) == next[n].ptr # Null

-----------------------------------------------------------------------------
(* Atomic accesses. *)

AddWeak(n) == weak' = [weak EXCEPT ![n].count = @ + 1]
SubWeak(n) == weak' = [weak EXCEPT ![n].count = @ - 1]
AddStrong(n) == strong' = [strong EXCEPT ![n] = Inc(@)]
SubStrong(n) == strong' = [strong EXCEPT ![n] = Dec(@)]
\* mutant: off by one
LastStrongButOne(n) == strong[n] <= 2

LastStrong(n) == strong[n] = 1

Lock(n) == next' = [next EXCEPT ![n].locked = TRUE]
Disturb(n) == next' = [next EXCEPT ![n].disturbed = TRUE]
Unlock(n) == next' = [next EXCEPT ![n].locked = FALSE, ![n].disturbed = FALSE]
SetNext(n, m) == next' = [next EXCEPT ![n].ptr = m]

\* do_drop: the payload of n is destroyed, or moved out for try_into_inner
DropPayload(t, n) ==
  /\ drops' = [drops EXCEPT ![n] = @ + 1]
  /\ op' = IF op[t].f = "intoInner" THEN [op EXCEPT ![t].stolen = n] ELSE op

\* mutant: the dropped flag is not looked at
DeallocateUnchecked(t, n) == mem' = [mem EXCEPT ![n] = "freed"] /\ DropPayload(t, n)

\* raw_deallocate_node: n is unreachable, a payload still in it goes first
Deallocate(t, n) ==
  /\ mem' = [mem EXCEPT ![n] = "freed"]
  /\ IF next[n].dropped THEN UNCHANGED <<drops, op>> ELSE DropPayload(t, n)

-----------------------------------------------------------------------------
(* What a step leaves alone. *)

OnlyNext == UNCHANGED <<prev, strong, weak, adv, mem, drops, client>>
OnlyPrev == UNCHANGED <<next, strong, weak, adv, mem, drops, client>>
OnlyStrong == UNCHANGED <<next, prev, weak, adv, mem, drops, client>>
OnlyWeak == UNCHANGED <<next, prev, strong, adv, mem, drops, client>>
OnlyAdv == UNCHANGED <<next, prev, strong, weak, mem, drops, client>>
ReadOnly == UNCHANGED <<heap, client>>

Goto(t, label) == pc' = [pc EXCEPT ![t] = label]

-----------------------------------------------------------------------------
(* The locals of a thread that is between two calls, or not in the function. *)

IdleNode == 1
IdleAdvance == [start |-> IdleNode, nxt |-> IdleNode, mode |-> "weak", cs |-> 0, ret |-> "idle"]
IdlePayload == [tgt |-> IdleNode, override |-> FALSE, ret |-> "idle"]
IdleJanitor ==
  [cur |-> Null, cand |-> Null, prv |-> Null, fail |-> Null, rdel |-> Null, right |-> Null,
   carry |-> Null, del |-> Null, seen |-> FALSE, rerun |-> FALSE,
   status |-> "Indeterminate", ret |-> "idle"]
IdleDrop == [ww |-> NoWeak, ret |-> "idle"]
IdleOp ==
  [f |-> "none", hnd |-> CHOOSE h \in Handles : TRUE, out |-> CHOOSE h \in Handles : TRUE,
   val |-> Null, nw |-> NullNext, nxt |-> IdleNode, cs |-> 0, since |-> 0,
   stolen |-> Null, sole |-> FALSE, ok |-> TRUE, guard |-> "none"]
=============================================================================
