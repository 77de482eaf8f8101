---------------------------- MODULE ArcShiftAdvance ----------------------------
(***************************************************************************)
(* do_advance_impl, the closures of do_advance_weak and do_advance_strong, *)
(* and do_drop_payload_if_possible, which the strong closure runs on the   *)
(* node it leaves.                                                         *)
(*                                                                         *)
(* The caller holds one strong (mode "strong") or one weak (mode "weak")   *)
(* reference to start; when the advance returns, the reference is of the   *)
(* same kind and on item.                                                  *)
(***************************************************************************)
EXTENDS ArcShiftHeap

StartAdvance(t, n, mode, ret) ==
  /\ item' = [item EXCEPT ![t] = n]
  /\ av' = [av EXCEPT ![t] = [IdleAdvance EXCEPT !.start = n, !.nxt = n, !.mode = mode, !.ret = ret]]
  /\ Goto(t, "adv_load")

ReturnAdvance(t) ==
  /\ Goto(t, av[t].ret)
  /\ av' = [av EXCEPT ![t] = IdleAdvance]

\* the closure asked for another round: item still carries its weak reference
RetryAdvance(t) ==
  /\ Goto(t, "adv_load")
  /\ av' = [av EXCEPT ![t].cs = 0]

AdvanceLoad(t) ==
  /\ pc[t] = "adv_load"
  /\ \/ /\ HasNext(item[t])
        /\ Goto(t, "adv_inc")
        /\ UNCHANGED av
     \/ /\ ~HasNext(item[t])
        /\ item[t] = av[t].start
        /\ ReturnAdvance(t)
     \/ /\ ~HasNext(item[t])
        /\ item[t] # av[t].start
        /\ Goto(t, IF av[t].mode = "strong" THEN "advs_load" ELSE "advw_dec")
        /\ UNCHANGED av
  /\ ReadOnly /\ UNCHANGED <<item, pd, jn, dr, op>>

\* advance_count announces that next is about to be followed ...
AdvanceInc(t) ==
  /\ pc[t] = "adv_inc"
  /\ adv' = [adv EXCEPT ![item[t]] = @ + 1]
  /\ Goto(t, "adv_reload")
  /\ OnlyAdv /\ UNCHANGED locals

\* ... so next is loaded again, under its protection
AdvanceReload(t) ==
  /\ pc[t] = "adv_reload"
  /\ av' = [av EXCEPT ![t].nxt = next[item[t]].ptr]
  /\ Goto(t, "adv_weak")
  /\ ReadOnly /\ UNCHANGED <<item, pd, jn, dr, op>>

AdvanceWeakInc(t) ==
  /\ pc[t] = "adv_weak"
  /\ AddWeak(av[t].nxt)
  /\ Goto(t, "adv_dec")
  /\ OnlyWeak /\ UNCHANGED locals

AdvanceDec(t) ==
  /\ pc[t] = "adv_dec"
  /\ adv' = [adv EXCEPT ![item[t]] = @ - 1]
  /\ \/ /\ item[t] = av[t].start
        /\ item' = [item EXCEPT ![t] = av[t].nxt]
        /\ Goto(t, "adv_load")
     \/ /\ item[t] # av[t].start
        /\ Goto(t, "adv_unweak")
        /\ UNCHANGED item
  /\ OnlyAdv /\ UNCHANGED <<av, pd, jn, dr, op>>

\* the weak reference taken on an intermediate node is given back
AdvanceWeakDec(t) ==
  /\ pc[t] = "adv_unweak"
  /\ SubWeak(item[t])
  /\ item' = [item EXCEPT ![t] = av[t].nxt]
  /\ Goto(t, "adv_load")
  /\ OnlyWeak /\ UNCHANGED <<av, pd, jn, dr, op>>

-----------------------------------------------------------------------------
(* The closure of do_advance_weak: a is start, b is item. *)

WeakLeaveStart(t) ==
  /\ pc[t] = "advw_dec"
  /\ SubWeak(av[t].start)
  /\ ReturnAdvance(t)
  /\ OnlyWeak /\ UNCHANGED <<item, pd, jn, dr, op>>

-----------------------------------------------------------------------------
(* do_drop_payload_if_possible. *)

StartPayloadDrop(t, n, override, ret) ==
  /\ pd' = [pd EXCEPT ![t] = [tgt |-> n, override |-> override, ret |-> ret]]
  /\ Goto(t, "pay_mark")

\* mutant: the rightmost node is always spared
MayDropPayloadNoOverride(n, override) == ~next[n].dropped /\ HasNext(n)

\* the payload of the rightmost node is the current value, unless overridden
MayDropPayload(n, override) == ~next[n].dropped /\ (HasNext(n) \/ override)

PayloadMark(t) ==
  /\ pc[t] = "pay_mark"
  /\ \/ /\ MayDropPayload(pd[t].tgt, pd[t].override)
        /\ next' = [next EXCEPT ![pd[t].tgt].dropped = TRUE]
        /\ Goto(t, "pay_drop")
        /\ UNCHANGED pd
     \/ /\ ~MayDropPayload(pd[t].tgt, pd[t].override)
        /\ Goto(t, pd[t].ret)
        /\ pd' = [pd EXCEPT ![t] = IdlePayload]
        /\ UNCHANGED next
  /\ OnlyNext /\ UNCHANGED <<item, av, jn, dr, op>>

PayloadDrop(t) ==
  /\ pc[t] = "pay_drop"
  /\ DropPayload(t, pd[t].tgt)
  /\ Goto(t, pd[t].ret)
  /\ pd' = [pd EXCEPT ![t] = IdlePayload]
  /\ UNCHANGED <<next, prev, strong, weak, adv, mem, client, item, av, jn, dr>>

-----------------------------------------------------------------------------
(* The closure of do_advance_strong: a is start, b is item. *)

\* mutant: the weak count is forgotten
TryStrongWithoutWeak(t, c) == av' = [av EXCEPT ![t].cs = c] /\ Goto(t, "advs_cas")

\* a strong count that leaves 0 must bring its weak count along first
TryStrong(t, c) ==
  /\ av' = [av EXCEPT ![t].cs = c]
  /\ Goto(t, IF c = 0 THEN "advs_incw" ELSE "advs_cas")

StrongLoad(t) ==
  /\ pc[t] = "advs_load"
  /\ TryStrong(t, strong[item[t]])
  /\ ReadOnly /\ UNCHANGED <<item, pd, jn, dr, op>>

StrongIncWeak(t) ==
  /\ pc[t] = "advs_incw"
  /\ AddWeak(item[t])
  /\ Goto(t, "advs_cas")
  /\ OnlyWeak /\ UNCHANGED locals

StrongCas(t) ==
  /\ pc[t] = "advs_cas"
  /\ \/ /\ strong[item[t]] = av[t].cs
        /\ AddStrong(item[t])
        /\ Goto(t, "advs_recheck")
        /\ UNCHANGED av
     \/ /\ strong[item[t]] # av[t].cs
        /\ av[t].cs = 0
        /\ av' = [av EXCEPT ![t].cs = strong[item[t]]]
        /\ Goto(t, "advs_race")
        /\ UNCHANGED strong
     \/ /\ strong[item[t]] # av[t].cs
        /\ av[t].cs # 0
        /\ TryStrong(t, strong[item[t]])
        /\ UNCHANGED strong
  /\ OnlyStrong /\ UNCHANGED <<item, pd, jn, dr, op>>

StrongRaceDecWeak(t) ==
  /\ pc[t] = "advs_race"
  /\ SubWeak(item[t])
  /\ TryStrong(t, av[t].cs)
  /\ OnlyWeak /\ UNCHANGED <<item, pd, jn, dr, op>>

\* mutant: the new strong count is not given back before the retry
StrongRecheckNoUndo(t) ==
  /\ pc[t] = "advs_recheck"
  /\ \/ HasNext(item[t]) /\ RetryAdvance(t)
     \/ ~HasNext(item[t]) /\ Goto(t, "advs_b_decw") /\ UNCHANGED av
  /\ ReadOnly /\ UNCHANGED <<item, pd, jn, dr, op>>

\* the count is ours, but b may no longer be the rightmost node
StrongRecheck(t) ==
  /\ pc[t] = "advs_recheck"
  /\ Goto(t, IF HasNext(item[t]) THEN "advs_undo" ELSE "advs_b_decw")
  /\ ReadOnly /\ UNCHANGED locals

StrongUndo(t) ==
  /\ pc[t] = "advs_undo"
  /\ SubStrong(item[t])
  /\ \/ LastStrong(item[t]) /\ Goto(t, "advs_undo_decw") /\ UNCHANGED av
     \/ ~LastStrong(item[t]) /\ RetryAdvance(t)
  /\ OnlyStrong /\ UNCHANGED <<item, pd, jn, dr, op>>

StrongUndoDecWeak(t) ==
  /\ pc[t] = "advs_undo_decw"
  /\ SubWeak(item[t])
  /\ RetryAdvance(t)
  /\ OnlyWeak /\ UNCHANGED <<item, pd, jn, dr, op>>

StrongDecWeakB(t) ==
  /\ pc[t] = "advs_b_decw"
  /\ SubWeak(item[t])
  /\ Goto(t, "advs_a_dec")
  /\ OnlyWeak /\ UNCHANGED locals

StrongLeaveStart(t) ==
  /\ pc[t] = "advs_a_dec"
  /\ SubStrong(av[t].start)
  /\ \/ /\ LastStrong(av[t].start)
        /\ StartPayloadDrop(t, av[t].start, FALSE, "advs_a_decw")
        /\ UNCHANGED av
     \/ /\ ~LastStrong(av[t].start)
        /\ ReturnAdvance(t)
        /\ UNCHANGED pd
  /\ OnlyStrong /\ UNCHANGED <<item, jn, dr, op>>

StrongDecWeakA(t) ==
  /\ pc[t] = "advs_a_decw"
  /\ SubWeak(av[t].start)
  /\ ReturnAdvance(t)
  /\ OnlyWeak /\ UNCHANGED <<item, pd, jn, dr, op>>

AdvanceStep(t) ==
  \/ AdvanceLoad(t) \/ AdvanceInc(t) \/ AdvanceReload(t) \/ AdvanceWeakInc(t)
  \/ AdvanceDec(t) \/ AdvanceWeakDec(t) \/ WeakLeaveStart(t)
  \/ PayloadMark(t) \/ PayloadDrop(t)
  \/ StrongLoad(t) \/ StrongIncWeak(t) \/ StrongCas(t) \/ StrongRaceDecWeak(t)
  \/ StrongRecheck(t) \/ StrongUndo(t) \/ StrongUndoDecWeak(t) \/ StrongDecWeakB(t)
  \/ StrongLeaveStart(t) \/ StrongDecWeakA(t)
=============================================================================
