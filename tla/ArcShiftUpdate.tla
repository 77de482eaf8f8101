---------------------------- MODULE ArcShiftUpdate ----------------------------
(***************************************************************************)
(* do_update, which appends a node to the chain, and do_upgrade_weak,      *)
(* which turns a weak reference into a strong one.                         *)
(***************************************************************************)
EXTENDS ArcShiftDrop

-----------------------------------------------------------------------------
(* Allocation. The allocator never hands out an address twice, so a stale  *)
(* pointer never looks current again by accident.                          *)

Unused == {n \in Nodes : mem[n] = "unused"}
FreshNode == CHOOSE n \in Unused : TRUE

\* make_sized_holder: one strong reference, the weak count it implies, a prev
NewHolder(n, p) ==
  /\ mem' = [mem EXCEPT ![n] = "private"]
  /\ prev' = [prev EXCEPT ![n] = p]
  /\ strong' = [strong EXCEPT ![n] = 1]
  /\ weak' = [weak EXCEPT ![n] = [count |-> 1, haveNext |-> FALSE, havePrev |-> TRUE]]

-----------------------------------------------------------------------------
(* do_update. The caller's strong reference is on item; val is the new node. *)

UpdateAgain(t) == StartAdvance(t, item[t], "strong", "upd_next")

\* prepare to link v after item, whose whole next word must not change meanwhile
PrepareLink(t, v) ==
  /\ op' = [op EXCEPT ![t].val = v, ![t].nw = next[item[t]]]
  /\ Goto(t, "upd_weak")

\* mutant: on a retry the new node keeps the prev of the first round
UpdateNextKeepsPrev(t) ==
  /\ pc[t] = "upd_next"
  /\ \/ /\ HasNext(item[t])
        /\ UpdateAgain(t)
        /\ UNCHANGED <<heap, op>>
     \/ /\ ~HasNext(item[t])
        /\ op[t].val # Null
        /\ PrepareLink(t, op[t].val)
        /\ UNCHANGED <<heap, item, av>>
     \/ /\ ~HasNext(item[t])
        /\ op[t].val = Null
        /\ Unused # {}
        /\ PrepareLink(t, FreshNode)
        /\ NewHolder(FreshNode, item[t])
        /\ UNCHANGED <<next, adv, drops, item, av>>
  /\ UNCHANGED <<client, pd, jn, dr>>

UpdateNext(t) ==
  /\ pc[t] = "upd_next"
  /\ \/ /\ HasNext(item[t])
        /\ UpdateAgain(t)
        /\ UNCHANGED <<heap, op>>
     \/ /\ ~HasNext(item[t])
        /\ op[t].val # Null
        /\ PrepareLink(t, op[t].val)
        /\ prev' = [prev EXCEPT ![op[t].val] = item[t]]
        /\ UNCHANGED <<next, strong, weak, adv, mem, drops, item, av>>
     \/ /\ ~HasNext(item[t])
        /\ op[t].val = Null
        /\ Unused # {}
        /\ PrepareLink(t, FreshNode)
        /\ NewHolder(FreshNode, item[t])
        /\ UNCHANGED <<next, adv, drops, item, av>>
  /\ UNCHANGED <<client, pd, jn, dr>>

\* mutant: a value built in an earlier round is forgotten
RcuCancelLeaks(t) ==
  /\ pc[t] = "upd_next"
  /\ op[t].f = "rcu"
  /\ ~HasNext(item[t])
  /\ op' = [op EXCEPT ![t].ok = FALSE]
  /\ Goto(t, "ret")
  /\ UNCHANGED <<heap, client, item, av, pd, jn, dr>>

\* the closure of rcu_maybe returns None: a value built in an earlier round is freed
RcuCancel(t) ==
  /\ pc[t] = "upd_next"
  /\ op[t].f = "rcu"
  /\ ~HasNext(item[t])
  /\ op' = [op EXCEPT ![t].ok = FALSE]
  /\ IF op[t].val = Null
     THEN UNCHANGED <<mem, drops>>
     ELSE /\ mem' = [mem EXCEPT ![op[t].val] = "freed"]
          /\ drops' = [drops EXCEPT ![op[t].val] = @ + 1]
  /\ Goto(t, "ret")
  /\ UNCHANGED <<next, prev, strong, weak, adv, client, item, av, pd, jn, dr>>

\* the weak count of the link, taken early so that do_drop_weak sees the race
UpdateWeakInc(t) ==
  /\ pc[t] = "upd_weak"
  /\ AddWeak(item[t])
  /\ Goto(t, "upd_cas")
  /\ OnlyWeak /\ UNCHANGED locals

\* mutant: only the flags are compared
CanLinkStale(n, word) == [next[n] EXCEPT !.ptr = word.ptr] = word

\* the compare-exchange is against the whole word, so it also fails on a flag
CanLink(n, word) == next[n] = word

Publish(v) ==
  /\ mem' = [mem EXCEPT ![v] = "live"]
  /\ stamp' = [stamp EXCEPT ![v] = count + 1]
  /\ count' = count + 1

UpdateCas(t) ==
  /\ pc[t] = "upd_cas"
  /\ \/ /\ CanLink(item[t], op[t].nw)
        /\ SetNext(item[t], op[t].val)
        /\ Publish(op[t].val)
        /\ Goto(t, "upd_mark")
     \/ /\ ~CanLink(item[t], op[t].nw)
        /\ Goto(t, "upd_fail")
        /\ UNCHANGED <<next, mem, stamp, count>>
  /\ UNCHANGED <<prev, strong, weak, adv, drops, handle, left, locals>>

UpdateFail(t) ==
  /\ pc[t] = "upd_fail"
  /\ SubWeak(item[t])
  /\ UpdateAgain(t)
  /\ OnlyWeak /\ UNCHANGED <<pd, jn, dr, op>>

UpdateMark(t) ==
  /\ pc[t] = "upd_mark"
  /\ weak' = [weak EXCEPT ![item[t]].haveNext = TRUE]
  /\ Goto(t, "upd_dec")
  /\ OnlyWeak /\ UNCHANGED locals

UpdateDec(t) ==
  /\ pc[t] = "upd_dec"
  /\ SubStrong(item[t])
  /\ \/ /\ LastStrong(item[t])
        /\ StartPayloadDrop(t, item[t], FALSE, "upd_decw")
        /\ UNCHANGED item
     \/ /\ ~LastStrong(item[t])
        /\ item' = [item EXCEPT ![t] = op[t].val]
        /\ Goto(t, "ret")
        /\ UNCHANGED pd
  /\ OnlyStrong /\ UNCHANGED <<av, jn, dr, op>>

UpdateDecWeak(t) ==
  /\ pc[t] = "upd_decw"
  /\ SubWeak(item[t])
  /\ item' = [item EXCEPT ![t] = op[t].val]
  /\ jn' = [jn EXCEPT ![t] = [IdleJanitor EXCEPT !.ret = "upd_done"]]
  /\ Goto(t, "jan_lock")
  /\ OnlyWeak /\ UNCHANGED <<av, pd, dr, op>>

\* a disturbed janitor goes again from the node that is the newest by then
UpdateDone(t) ==
  /\ pc[t] = "upd_done"
  /\ IF jn[t].rerun
     THEN StartAdvance(t, item[t], "strong", "jan_lock")
     ELSE Goto(t, "ret") /\ UNCHANGED <<item, av>>
  /\ ReadOnly /\ UNCHANGED <<pd, jn, dr, op>>

-----------------------------------------------------------------------------
(* do_upgrade_weak. The call owns a weak reference of its own, on item.     *)

UpgradeAgain(t) == StartAdvance(t, item[t], "weak", "upg_strong")

UpgradeLoadStrong(t) ==
  /\ pc[t] = "upg_strong"
  /\ op' = [op EXCEPT ![t].cs = strong[item[t]]]
  /\ Goto(t, "upg_next")
  /\ ReadOnly /\ UNCHANGED <<item, av, pd, jn, dr>>

\* mutant: a count of 0 is taken for the sentinel
ValueIsGoneAtZero(n, c) == c = 0 \/ c = STRONG_DROPPED \/ next[n].dropped

\* mutant: the sentinel is not looked at
ValueIsGoneFlagOnly(n, c) == next[n].dropped

ValueIsGone(n, c) == c = STRONG_DROPPED \/ next[n].dropped

UpgradeLoadNext(t) ==
  /\ pc[t] = "upg_next"
  /\ LET n == item[t] IN
     \/ /\ HasNext(n)
        /\ UpgradeAgain(t)
        /\ UNCHANGED <<jn, dr, op>>
     \/ /\ ~HasNext(n)
        /\ ValueIsGone(n, op[t].cs)
        /\ op' = [op EXCEPT ![t].ok = FALSE]
        /\ StartDropWeak(t, n, "ret")
     \/ /\ ~HasNext(n)
        /\ ~ValueIsGone(n, op[t].cs)
        /\ Goto(t, IF op[t].cs = 0 THEN "upg_incw" ELSE "upg_cas")
        /\ UNCHANGED <<item, av, jn, dr, op>>
  /\ ReadOnly /\ UNCHANGED pd

UpgradeIncWeak(t) ==
  /\ pc[t] = "upg_incw"
  /\ AddWeak(item[t])
  /\ Goto(t, "upg_cas")
  /\ OnlyWeak /\ UNCHANGED locals

UpgradeCas(t) ==
  /\ pc[t] = "upg_cas"
  /\ \/ /\ strong[item[t]] = op[t].cs
        /\ AddStrong(item[t])
        /\ Goto(t, "upg_check")
        /\ UNCHANGED <<item, av>>
     \/ /\ strong[item[t]] # op[t].cs
        /\ IF op[t].cs = 0 THEN Goto(t, "upg_race") /\ UNCHANGED <<item, av>>
                           ELSE UpgradeAgain(t)
        /\ UNCHANGED strong
  /\ OnlyStrong /\ UNCHANGED <<pd, jn, dr, op>>

UpgradeRaceDecWeak(t) ==
  /\ pc[t] = "upg_race"
  /\ SubWeak(item[t])
  /\ UpgradeAgain(t)
  /\ OnlyWeak /\ UNCHANGED <<pd, jn, dr, op>>

UpgradeCheck(t) ==
  /\ pc[t] = "upg_check"
  /\ Goto(t, IF HasNext(item[t]) THEN "upg_undo" ELSE "upg_done")
  /\ ReadOnly /\ UNCHANGED locals

UpgradeUndo(t) ==
  /\ pc[t] = "upg_undo"
  /\ SubStrong(item[t])
  /\ IF LastStrong(item[t]) THEN Goto(t, "upg_undo_decw") /\ UNCHANGED <<item, av>>
                            ELSE UpgradeAgain(t)
  /\ OnlyStrong /\ UNCHANGED <<pd, jn, dr, op>>

UpgradeUndoDecWeak(t) ==
  /\ pc[t] = "upg_undo_decw"
  /\ SubWeak(item[t])
  /\ UpgradeAgain(t)
  /\ OnlyWeak /\ UNCHANGED <<pd, jn, dr, op>>

\* the strong reference replaces the weak one
UpgradeDone(t) ==
  /\ pc[t] = "upg_done"
  /\ SubWeak(item[t])
  /\ Goto(t, "ret")
  /\ OnlyWeak /\ UNCHANGED locals

UpdateStep(t) ==
  \/ UpdateNext(t) \/ RcuCancel(t) \/ UpdateWeakInc(t) \/ UpdateCas(t) \/ UpdateFail(t)
  \/ UpdateMark(t) \/ UpdateDec(t) \/ UpdateDecWeak(t) \/ UpdateDone(t)

UpgradeStep(t) ==
  \/ UpgradeLoadStrong(t) \/ UpgradeLoadNext(t) \/ UpgradeIncWeak(t) \/ UpgradeCas(t)
  \/ UpgradeRaceDecWeak(t) \/ UpgradeCheck(t) \/ UpgradeUndo(t) \/ UpgradeUndoDecWeak(t)
  \/ UpgradeDone(t)
=============================================================================
