----------------------------- MODULE ArcShiftDrop -----------------------------
(***************************************************************************)
(* do_drop_strong and do_drop_weak: giving a reference back. The last      *)
(* strong reference of the chain claims the payload by moving strong_count *)
(* from 0 to STRONG_DROPPED; whoever takes the weak count to 0 on a node   *)
(* with nothing to its left frees that node.                               *)
(***************************************************************************)
EXTENDS ArcShiftJanitor

\* each round of do_drop_weak: advance, run the janitor, then look at the counts
DropWeakRound(t, n) ==
  /\ StartAdvance(t, n, "weak", "jan_lock")
  /\ jn' = [jn EXCEPT ![t] = [IdleJanitor EXCEPT !.ret = "dw_weak"]]

StartDropWeak(t, n, ret) ==
  /\ DropWeakRound(t, n)
  /\ dr' = [dr EXCEPT ![t] = [IdleDrop EXCEPT !.ret = ret]]

StartDropStrong(t, n, ret) ==
  /\ StartAdvance(t, n, "strong", "ds_dec")
  /\ dr' = [dr EXCEPT ![t] = [IdleDrop EXCEPT !.ret = ret]]

ReturnDrop(t) ==
  /\ Goto(t, dr[t].ret)
  /\ dr' = [dr EXCEPT ![t] = IdleDrop]
  /\ jn' = [jn EXCEPT ![t] = IdleJanitor]

DropStrongDec(t) ==
  /\ pc[t] = "ds_dec"
  /\ SubStrong(item[t])
  /\ \/ /\ LastStrong(item[t])
        /\ StartDropWeak(t, item[t], dr[t].ret)
     \/ /\ ~LastStrong(item[t])
        /\ ReturnDrop(t)
        /\ UNCHANGED <<item, av>>
  /\ OnlyStrong /\ UNCHANGED <<pd, op>>

DropWeakLoad(t) ==
  /\ pc[t] = "dw_weak"
  /\ \/ /\ jn[t].rerun
        /\ DropWeakRound(t, item[t])
        /\ UNCHANGED dr
     \/ /\ ~jn[t].rerun
        /\ dr' = [dr EXCEPT ![t].ww = weak[item[t]]]
        /\ Goto(t, "dw_next")
        /\ UNCHANGED <<item, av, jn>>
  /\ ReadOnly /\ UNCHANGED <<pd, op>>

DropWeakNext(t) ==
  /\ pc[t] = "dw_next"
  /\ \/ /\ HasNext(item[t])
        /\ StartDropWeak(t, item[t], dr[t].ret)
     \/ /\ ~HasNext(item[t])
        /\ Goto(t, IF jn[t].status = "NoStrongRefsExist" THEN "dw_claim" ELSE "dw_cas")
        /\ UNCHANGED <<item, av, jn, dr>>
  /\ ReadOnly /\ UNCHANGED <<pd, op>>

\* mutant: a plain store instead of the compare-exchange
ClaimTeardownBlind(t) ==
  /\ pc[t] = "dw_claim"
  /\ strong' = [strong EXCEPT ![item[t]] = STRONG_DROPPED]
  /\ StartPayloadDrop(t, item[t], TRUE, "dw_cas")
  /\ OnlyStrong /\ UNCHANGED <<item, av, jn, dr, op>>

\* the step that decides between teardown and a concurrent upgrade
ClaimTeardown(t) ==
  /\ pc[t] = "dw_claim"
  /\ \/ /\ strong[item[t]] = 0
        /\ strong' = [strong EXCEPT ![item[t]] = STRONG_DROPPED]
        /\ StartPayloadDrop(t, item[t], TRUE, "dw_cas")
     \/ /\ strong[item[t]] # 0
        /\ Goto(t, "dw_cas")
        /\ UNCHANGED <<strong, pd>>
  /\ OnlyStrong /\ UNCHANGED <<item, av, jn, dr, op>>

\* mutant: the flags are masked off before the comparison
SameWeakWordNoFlags(n, ww) == weak[n].count = ww.count

\* the weak word is unchanged since it was loaded: no reference, next or prev came or went
SameWeakWord(n, ww) == weak[n] = ww

\* mutant: nodes to the left are not looked at
SoleUserRightOnly(ww) == ww.count = 1

SoleUser(ww) == ww.count = 1 /\ ~ww.havePrev

DropWeakCas(t) ==
  /\ pc[t] = "dw_cas"
  /\ LET n == item[t] IN
     \/ /\ SameWeakWord(n, dr[t].ww)
        /\ SubWeak(n)
        /\ UNCHANGED <<item, av>>
        /\ \/ SoleUser(dr[t].ww) /\ Goto(t, "dw_free") /\ UNCHANGED <<jn, dr>>
           \/ ~SoleUser(dr[t].ww) /\ ReturnDrop(t)
     \/ /\ ~SameWeakWord(n, dr[t].ww)
        /\ StartDropWeak(t, n, dr[t].ret)
        /\ UNCHANGED weak
  /\ OnlyWeak /\ UNCHANGED <<pd, op>>

\* report_sole_user and raw_deallocate_node
DropWeakFree(t) ==
  /\ pc[t] = "dw_free"
  /\ mem' = [mem EXCEPT ![item[t]] = "freed"]
  /\ drops' = IF next[item[t]].dropped THEN drops ELSE [drops EXCEPT ![item[t]] = @ + 1]
  /\ op' = [op EXCEPT ![t].sole = TRUE,
                      ![t].stolen = IF op[t].f = "intoInner" /\ ~next[item[t]].dropped THEN item[t] ELSE @]
  /\ ReturnDrop(t)
  /\ UNCHANGED <<next, prev, strong, weak, adv, client, item, av, pd>>

DropStep(t) ==
  \/ DropStrongDec(t) \/ DropWeakLoad(t) \/ DropWeakNext(t) \/ ClaimTeardown(t)
  \/ DropWeakCas(t) \/ DropWeakFree(t)
=============================================================================
