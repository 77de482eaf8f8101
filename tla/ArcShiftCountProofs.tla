------------------------- MODULE ArcShiftCountProofs --------------------------
(***************************************************************************)
(* Both reference counts are exact: every step changes a count by as much  *)
(* as it changes the references of its thread.                             *)
(***************************************************************************)
EXTENDS ArcShiftSafe, ArcShiftProofs

USE DEF Advancing, Dropping, Walking, Swapping, SwappedIn, SharedGetting

(* What a step of one call leaves as it is, and that every call keeps the  *)
(* shape of its control flow.                                              *)

\* u stays where it is
Still(u) ==
  /\ pc'[u] = pc[u] /\ item'[u] = item[u] /\ av'[u] = av[u] /\ pd'[u] = pd[u]
  /\ jn'[u] = jn[u] /\ dr'[u] = dr[u] /\ op'[u] = op[u]

(* A step of an advance moves nobody else.                                  *)
LEMMA AdvanceStill ==
  ASSUME TypeOK, NEW t \in Threads, AdvanceStep(t), NEW u \in Threads \ {t}
  PROVE  Still(u)
  BY SMTT(100) DEF TypeOK, Still, locals, AdvanceStep, AdvanceLoad, Goto, ReturnAdvance,
     AdvanceInc, AdvanceReload, AdvanceWeakInc, AdvanceDec, AdvanceWeakDec, WeakLeaveStart,
     PayloadMark, PayloadDrop, DropPayload, StrongLoad, TryStrong, StrongIncWeak, StrongCas,
     StrongRaceDecWeak, StrongRecheck, StrongUndo, RetryAdvance, StrongUndoDecWeak,
     StrongDecWeakB, StrongLeaveStart, StartPayloadDrop, StrongDecWeakA

(* A step of the janitor moves nobody else.                                 *)
LEMMA JanitorStill ==
  ASSUME TypeOK, NEW t \in Threads, JanitorStep(t), NEW u \in Threads \ {t}
  PROVE  Still(u)
  BY SMTT(100) DEF TypeOK, Still, locals, JanitorStep, JanitorLockStart, Janitor, ReturnJanitor,
     Goto, JanitorSweep, JanitorCleanup, JanitorUnlockStart, JanitorStrong, JanitorSetNext,
     JanitorCheckAdvance, JanitorFinal, JanitorDelete, JanitorFree, Deallocate, DropPayload,
     JanitorClearPrev, JanitorUnlink, JanitorCarry, ReleaseCarry, JanitorUncarry

(* A step of a drop moves nobody else.                                      *)
LEMMA DropStill ==
  ASSUME TypeOK, NEW t \in Threads, DropStep(t), NEW u \in Threads \ {t}
  PROVE  Still(u)
  BY SMTT(100) DEF TypeOK, Still, locals, DropStep, DropStrongDec, StartDropWeak, ReturnDrop,
     DropWeakRound, Goto, StartAdvance, DropWeakLoad, DropWeakNext, ClaimTeardown,
     StartPayloadDrop, DropWeakCas, DropWeakFree

(* A step of an update moves nobody else.                                   *)
LEMMA UpdateStill ==
  ASSUME TypeOK, NEW t \in Threads, UpdateStep(t), NEW u \in Threads \ {t}
  PROVE  Still(u)
  BY SMTT(100) DEF TypeOK, Still, locals, UpdateStep, UpdateNext, UpdateAgain, PrepareLink,
     StartAdvance, Goto, RcuCancel, UpdateWeakInc, UpdateCas, UpdateFail, UpdateMark, UpdateDec,
     StartPayloadDrop, UpdateDecWeak, UpdateDone

(* A step of an upgrade moves nobody else.                                  *)
LEMMA UpgradeStill ==
  ASSUME TypeOK, NEW t \in Threads, UpgradeStep(t), NEW u \in Threads \ {t}
  PROVE  Still(u)
  BY SMTT(100) DEF TypeOK, Still, locals, UpgradeStep, UpgradeLoadStrong, Goto, UpgradeLoadNext,
     UpgradeAgain, StartDropWeak, StartAdvance, DropWeakRound, UpgradeIncWeak, UpgradeCas,
     UpgradeRaceDecWeak, UpgradeCheck, UpgradeUndo, UpgradeUndoDecWeak, UpgradeDone

(* A step of a public function moves nobody else.                           *)
LEMMA ApiStill ==
  ASSUME TypeOK, NEW t \in Threads, ApiStep(t), NEW u \in Threads \ {t}
  PROVE  Still(u)
  BY SMTT(100) DEF TypeOK, Still, locals, ApiStep, GetLoad, ReloadAgain, Goto, AfterReload,
     StartAdvance, GetDone, TryGetMutWeak, TryGetMutStrong, TryGetMutAgain, SharedGetLoad,
     SharedGetInc, SharedGetNext, SharedGetStrong, SharedGetCas, SharedGetRecheck,
     StartDropStrong, SharedGetLight, SharedGetDec, SharedGetClone, FinishReading, Return

(* The beginning of a call moves nobody else.                               *)
LEMMA CallStill ==
  ASSUME TypeOK, NEW t \in Threads, Call(t), NEW u \in Threads \ {t}
  PROVE  Still(u)
  BY SMTT(100) DEF TypeOK, Still, locals, Call, Clone, Enter, Borrow, Reserve, StartAdvance,
     Admitted, Goto, CloneWeak, Upgrade, Update, Take, Rcu, DropShift, StartDropStrong,
     DropShiftWeak, StartDropWeak, DropWeakRound, Reload, SharedGet

-----------------------------------------------------------------------------

(* A call that starts an advance has the shape that the advance asks for.  *)
LEMMA StartShape ==
  ASSUME TypeOK, NEW t \in Threads, NEW n, NEW mode, NEW ret, ret # "idle",
         StartAdvance(t, n, mode, ret), UNCHANGED pd, pd[t].ret = "idle",
         Continues(ret, mode, op'[t].f, op'[t].ok, op'[t].guard, jn'[t].ret, dr'[t].ret),
         DropShape(op'[t].f, op'[t].ok, op'[t].guard, dr'[t].ret),
         op'[t].f # "sharedGet" => op'[t].guard = "none",
         op'[t].f \notin {"upgrade", "rcu"} => op'[t].ok
  PROVE  Shape(t)'
<1>1. /\ pc'[t] = "adv_load" /\ av'[t].mode = mode /\ av'[t].ret = ret /\ pd'[t].ret = "idle"
  BY DEF TypeOK, StartAdvance, Goto, IdleAdvance
<1> QED BY <1>1 DEF Shape, Janitoring, Dying, Updating, Upgrading

(* A step of an advance keeps the shape of its call.                        *)
LEMMA AdvanceShapeKept ==
  ASSUME OrderInv, TypeOK', NEW t \in Threads, Shape(t), AdvanceStep(t)
  PROVE  Shape(t)'
<1> USE DEF Continues, DropShape, Janitoring, Updating, Upgrading, Dying
<1>k. Knows(pc[t], item[t], av[t], pd[t], jn[t], op[t]) /\ TypeOK
  BY RegistersTyped DEF OrderInv
<1>r. /\ pc \in [Threads -> Labels] /\ item \in [Threads -> Nodes] /\ av \in [Threads -> AdvanceFrames]
      /\ pd \in [Threads -> PayloadFrames] /\ jn \in [Threads -> JanitorFrames]
      /\ dr \in [Threads -> DropFrames] /\ op \in [Threads -> CallFrames]
  BY DEF OrderInv, TypeOK
<1>1. CASE AdvanceLoad(t)
  BY <1>k, <1>r, <1>1 DEF AdvanceLoad, Goto, ReturnAdvance, ReadOnly, Shape, locals, Knows,
     Frames
<1>2. CASE AdvanceInc(t)
  BY <1>k, <1>r, <1>2 DEF AdvanceInc, Goto, Shape, locals, Knows, Frames
<1>3. CASE AdvanceReload(t)
  BY <1>k, <1>r, <1>3 DEF AdvanceReload, Goto, ReadOnly, Shape, locals, Knows, Frames
<1>4. CASE AdvanceWeakInc(t)
  BY <1>k, <1>r, <1>4 DEF AdvanceWeakInc, Goto, Shape, locals, Knows, Frames
<1>5. CASE AdvanceDec(t)
  BY <1>k, <1>r, <1>5 DEF AdvanceDec, Goto, Shape, locals, Knows, Frames
<1>6. CASE AdvanceWeakDec(t)
  BY <1>k, <1>r, <1>6 DEF AdvanceWeakDec, Goto, Shape, locals, Knows, Frames
<1>7. CASE WeakLeaveStart(t)
  BY <1>k, <1>r, <1>7 DEF WeakLeaveStart, ReturnAdvance, Goto, Shape, locals, Knows, Frames
<1>8. CASE PayloadMark(t)
  <2>1. pd[t].ret \in {"advs_a_decw", "dw_cas", "upd_decw"}
    BY <1>k, <1>r, <1>8 DEF
     PayloadMark, Goto, Shape, PayloadFrames
  <2>2. CASE pd[t].ret = "advs_a_decw"
    BY <1>k, <1>r, <1>8, <2>2 DEF PayloadMark, Goto,
     Shape, Knows, Frames, IdlePayload, CallFrames
  <2>3. CASE pd[t].ret = "dw_cas"
    BY <1>k, <1>r, <1>8, <2>3 DEF PayloadMark, Goto, Shape,
     Knows, Frames, IdlePayload, CallFrames
  <2>4. CASE pd[t].ret = "upd_decw"
    BY <1>k, <1>r, <1>8, <2>4 DEF PayloadMark, Goto, Shape,
     Knows, Frames, IdlePayload, CallFrames
  <2> QED BY <2>1, <2>2, <2>3, <2>4
<1>9. CASE PayloadDrop(t)
  <2>1. pd[t].ret \in {"advs_a_decw", "dw_cas", "upd_decw"}
    BY <1>k, <1>r, <1>9 DEF
     PayloadDrop, DropPayload, Goto, Shape, PayloadFrames
  <2>2. CASE pd[t].ret = "advs_a_decw"
    BY <1>k, <1>r, <1>9, <2>2 DEF PayloadDrop,
     DropPayload, Goto, Shape, Knows, Frames, IdlePayload, CallFrames
  <2>3. CASE pd[t].ret = "dw_cas"
    BY <1>k, <1>r, <1>9, <2>3 DEF PayloadDrop, DropPayload,
     Goto, Shape, Knows, Frames, IdlePayload, CallFrames
  <2>4. CASE pd[t].ret = "upd_decw"
    BY <1>k, <1>r, <1>9, <2>4 DEF PayloadDrop, DropPayload,
     Goto, Shape, Knows, Frames, IdlePayload, CallFrames
  <2> QED BY <2>1, <2>2, <2>3, <2>4
<1>10. CASE StrongLoad(t)
  BY <1>k, <1>r, <1>10 DEF StrongLoad, TryStrong, ReadOnly, Goto, Shape, locals, Knows, Frames
<1>11. CASE StrongIncWeak(t)
  BY <1>k, <1>r, <1>11 DEF StrongIncWeak, Goto, Shape, locals, Knows, Frames
<1>12. CASE StrongCas(t)
  <2>1. CASE strong[item[t]] = av[t].cs
    BY <1>k, <1>r, <1>12, <2>1 DEF StrongCas, Goto,
     TryStrong, Shape, locals, Knows, Frames, AdvanceFrames
  <2>2. CASE strong[item[t]] # av[t].cs /\ av[t].cs = 0
    BY <1>k, <1>r, <1>12, <2>2 DEF
     StrongCas, Goto, TryStrong, Shape, locals, Knows, Frames, AdvanceFrames
  <2>3. CASE strong[item[t]] # av[t].cs /\ av[t].cs # 0
    BY <1>k, <1>r, <1>12, <2>3 DEF
     StrongCas, Goto, TryStrong, Shape, locals, Knows, Frames, AdvanceFrames
  <2> QED BY <2>1, <2>2, <2>3
<1>13. CASE StrongRaceDecWeak(t)
  BY <1>k, <1>r, <1>13 DEF StrongRaceDecWeak, TryStrong, Goto, Shape, locals, Knows, Frames
<1>14. CASE StrongRecheck(t)
  BY <1>k, <1>r, <1>14 DEF StrongRecheck, Goto, ReadOnly, Shape, locals, Knows, Frames
<1>15. CASE StrongUndo(t)
  <2>1. CASE LastStrong(item[t])
    BY <1>k, <1>r, <1>15, <2>1 DEF StrongUndo, Goto,
     RetryAdvance, Shape, locals, Knows, Frames, AdvanceFrames
  <2>2. CASE ~LastStrong(item[t])
    BY <1>k, <1>r, <1>15, <2>2 DEF StrongUndo, Goto,
     RetryAdvance, Shape, locals, Knows, Frames, AdvanceFrames
  <2> QED BY <2>1, <2>2
<1>16. CASE StrongUndoDecWeak(t)
  BY <1>k, <1>r, <1>16 DEF StrongUndoDecWeak, RetryAdvance, Goto, Shape, locals, Knows, Frames
<1>17. CASE StrongDecWeakB(t)
  BY <1>k, <1>r, <1>17 DEF StrongDecWeakB, Goto, Shape, locals, Knows, Frames
<1>18. CASE StrongLeaveStart(t)
  BY <1>k, <1>r, <1>18 DEF StrongLeaveStart, StartPayloadDrop, ReturnAdvance, Goto, Shape,
     locals, Knows, Frames
<1>19. CASE StrongDecWeakA(t)
  BY <1>k, <1>r, <1>19 DEF StrongDecWeakA, ReturnAdvance, Goto, Shape, locals, Knows, Frames
<1> QED BY <1>1, <1>2, <1>3, <1>4, <1>5, <1>6, <1>7, <1>8, <1>9, <1>10, <1>11, <1>12, <1>13,
  <1>14, <1>15, <1>16, <1>17, <1>18, <1>19 DEF AdvanceStep

(* A step of the janitor keeps the shape of its call.                       *)
LEMMA JanitorShapeKept ==
  ASSUME OrderInv, TypeOK', NEW t \in Threads, Shape(t), JanitorStep(t)
  PROVE  Shape(t)'
<1> USE DEF Continues, DropShape, Janitoring, Updating, Upgrading, Dying
<1>k. Knows(pc[t], item[t], av[t], pd[t], jn[t], op[t]) /\ TypeOK
  BY RegistersTyped DEF OrderInv
<1>r. /\ pc \in [Threads -> Labels] /\ item \in [Threads -> Nodes] /\ av \in [Threads -> AdvanceFrames]
      /\ pd \in [Threads -> PayloadFrames] /\ jn \in [Threads -> JanitorFrames]
      /\ dr \in [Threads -> DropFrames] /\ op \in [Threads -> CallFrames]
  BY DEF OrderInv, TypeOK
<1>1. CASE JanitorLockStart(t)
  <2>1. /\ pc[t] \in Janitoring /\ pc'[t] \in Janitoring \cup {jn[t].ret} /\ jn'[t].ret = jn[t].ret
        /\ op'[t].f = op[t].f /\ op'[t].ok = op[t].ok /\ op'[t].guard = op[t].guard
        /\ UNCHANGED <<item, av, pd, dr>>
    <3>0. pc[t] = "jan_lock" /\ jn[t] \in JanitorFrames /\ UNCHANGED <<op, item, av, pd, dr>>
      BY <1>r, <1>1 DEF JanitorLockStart, Janitor
    <3>1. CASE next[item[t]].locked
      BY <1>r, <1>1, <3>1 DEF JanitorLockStart, Janitor, ReturnJanitor, Goto, IdleJanitor
    <3>2. CASE ~next[item[t]].locked
      <4>1. jn' = [jn EXCEPT ![t] = [IdleJanitor EXCEPT !.cur = prev[item[t]], !.cand = prev[item[t]], !.ret = jn[t].ret]]
        BY <1>1, <3>2 DEF JanitorLockStart
      <4>2. Goto(t, IF prev[item[t]] = Null THEN "jan_unlock" ELSE "jan_sweep")
        BY <1>1, <3>2 DEF JanitorLockStart
      <4>3. jn'[t].ret = jn[t].ret
        BY <1>r, <4>1 DEF IdleJanitor
      <4>4. pc'[t] \in Janitoring
        BY <1>r, <4>2 DEF Goto
      <4> QED BY <3>0, <4>3, <4>4
    <3> QED BY <3>1, <3>2
  <2> QED BY <1>k, <1>r, <2>1 DEF Shape, Knows, Frames, JanitorFrames
<1>2. CASE JanitorSweep(t)
  <2>1. /\ pc[t] \in Janitoring /\ pc'[t] \in Janitoring \cup {jn[t].ret} /\ jn'[t].ret = jn[t].ret
        /\ op'[t].f = op[t].f /\ op'[t].ok = op[t].ok /\ op'[t].guard = op[t].guard
        /\ UNCHANGED <<item, av, pd, dr>>
    BY <1>r, <1>2, SMTT(60) DEF JanitorSweep, Janitor, Goto, CallFrames, JanitorFrames
  <2> QED BY <1>k, <1>r, <2>1 DEF Shape, Knows, Frames, JanitorFrames
<1>3. CASE JanitorCleanup(t)
  <2>1. /\ pc[t] \in Janitoring /\ pc'[t] \in Janitoring \cup {jn[t].ret} /\ jn'[t].ret = jn[t].ret
        /\ op'[t].f = op[t].f /\ op'[t].ok = op[t].ok /\ op'[t].guard = op[t].guard
        /\ UNCHANGED <<item, av, pd, dr>>
    BY <1>r, <1>3, SMTT(60) DEF JanitorCleanup, Janitor, Goto, CallFrames, JanitorFrames
  <2> QED BY <1>k, <1>r, <2>1 DEF Shape, Knows, Frames, JanitorFrames
<1>4. CASE JanitorUnlockStart(t)
  BY <1>k, <1>r, <1>4 DEF JanitorUnlockStart, Janitor, ReturnJanitor, Goto, Shape, locals,
     Knows, Frames
<1>5. CASE JanitorStrong(t)
  <2>1. /\ pc[t] \in Janitoring /\ pc'[t] \in Janitoring \cup {jn[t].ret} /\ jn'[t].ret = jn[t].ret
        /\ op'[t].f = op[t].f /\ op'[t].ok = op[t].ok /\ op'[t].guard = op[t].guard
        /\ UNCHANGED <<item, av, pd, dr>>
    BY <1>r, <1>5, SMTT(60) DEF JanitorStrong, Janitor, Goto, ReadOnly, CallFrames,
     JanitorFrames
  <2> QED BY <1>k, <1>r, <2>1 DEF Shape, Knows, Frames, JanitorFrames
<1>6. CASE JanitorSetNext(t)
  BY <1>k, <1>r, <1>6 DEF JanitorSetNext, Janitor, Goto, Shape, locals, Knows, Frames
<1>7. CASE JanitorCheckAdvance(t)
  <2>1. /\ pc[t] \in Janitoring /\ pc'[t] \in Janitoring \cup {jn[t].ret} /\ jn'[t].ret = jn[t].ret
        /\ op'[t].f = op[t].f /\ op'[t].ok = op[t].ok /\ op'[t].guard = op[t].guard
        /\ UNCHANGED <<item, av, pd, dr>>
    BY <1>r, <1>7, SMTT(60) DEF JanitorCheckAdvance, Janitor, Goto, ReadOnly, CallFrames,
     JanitorFrames
  <2> QED BY <1>k, <1>r, <2>1 DEF Shape, Knows, Frames, JanitorFrames
<1>8. CASE JanitorFinal(t)
  <2>1. /\ pc[t] \in Janitoring /\ pc'[t] \in Janitoring \cup {jn[t].ret} /\ jn'[t].ret = jn[t].ret
        /\ op'[t].f = op[t].f /\ op'[t].ok = op[t].ok /\ op'[t].guard = op[t].guard
        /\ UNCHANGED <<item, av, pd, dr>>
    BY <1>r, <1>8, SMTT(60) DEF JanitorFinal, Janitor, Goto, ReadOnly, CallFrames, JanitorFrames
  <2> QED BY <1>k, <1>r, <2>1 DEF Shape, Knows, Frames, JanitorFrames
<1>9. CASE JanitorDelete(t)
  <2>1. /\ pc[t] \in Janitoring /\ pc'[t] \in Janitoring \cup {jn[t].ret} /\ jn'[t].ret = jn[t].ret
        /\ op'[t].f = op[t].f /\ op'[t].ok = op[t].ok /\ op'[t].guard = op[t].guard
        /\ UNCHANGED <<item, av, pd, dr>>
    BY <1>r, <1>9, SMTT(60) DEF JanitorDelete, Janitor, Goto, ReadOnly, CallFrames,
     JanitorFrames
  <2> QED BY <1>k, <1>r, <2>1 DEF Shape, Knows, Frames, JanitorFrames
<1>10. CASE JanitorFree(t)
  <2>1. /\ pc[t] \in Janitoring /\ pc'[t] \in Janitoring \cup {jn[t].ret} /\ jn'[t].ret = jn[t].ret
        /\ op'[t].f = op[t].f /\ op'[t].ok = op[t].ok /\ op'[t].guard = op[t].guard
        /\ UNCHANGED <<item, av, pd, dr>>
    BY <1>r, <1>10, SMTT(60) DEF JanitorFree, Janitor, Deallocate, Goto, DropPayload,
     CallFrames, JanitorFrames
  <2> QED BY <1>k, <1>r, <2>1 DEF Shape, Knows, Frames, JanitorFrames
<1>11. CASE JanitorClearPrev(t)
  <2>1. /\ pc[t] \in Janitoring /\ pc'[t] \in Janitoring \cup {jn[t].ret} /\ jn'[t].ret = jn[t].ret
        /\ op'[t].f = op[t].f /\ op'[t].ok = op[t].ok /\ op'[t].guard = op[t].guard
        /\ UNCHANGED <<item, av, pd, dr>>
    BY <1>r, <1>11, SMTT(60) DEF JanitorClearPrev, Janitor, Goto, CallFrames, JanitorFrames
  <2> QED BY <1>k, <1>r, <2>1 DEF Shape, Knows, Frames, JanitorFrames
<1>12. CASE JanitorUnlink(t)
  <2>1. /\ pc[t] \in Janitoring /\ pc'[t] \in Janitoring \cup {jn[t].ret} /\ jn'[t].ret = jn[t].ret
        /\ op'[t].f = op[t].f /\ op'[t].ok = op[t].ok /\ op'[t].guard = op[t].guard
        /\ UNCHANGED <<item, av, pd, dr>>
    BY <1>r, <1>12, SMTT(60) DEF JanitorUnlink, Janitor, Goto, CallFrames, JanitorFrames
  <2> QED BY <1>k, <1>r, <2>1 DEF Shape, Knows, Frames, JanitorFrames
<1>13. CASE JanitorCarry(t)
  <2>1. /\ pc[t] \in Janitoring /\ pc'[t] \in Janitoring \cup {jn[t].ret} /\ jn'[t].ret = jn[t].ret
        /\ op'[t].f = op[t].f /\ op'[t].ok = op[t].ok /\ op'[t].guard = op[t].guard
        /\ UNCHANGED <<item, av, pd, dr>>
    BY <1>r, <1>13, SMTT(60) DEF JanitorCarry, Janitor, ReleaseCarry, Goto, CallFrames,
     JanitorFrames
  <2> QED BY <1>k, <1>r, <2>1 DEF Shape, Knows, Frames, JanitorFrames
<1>14. CASE JanitorUncarry(t)
  <2>1. /\ pc[t] \in Janitoring /\ pc'[t] \in Janitoring \cup {jn[t].ret} /\ jn'[t].ret = jn[t].ret
        /\ op'[t].f = op[t].f /\ op'[t].ok = op[t].ok /\ op'[t].guard = op[t].guard
        /\ UNCHANGED <<item, av, pd, dr>>
    BY <1>r, <1>14, SMTT(60) DEF JanitorUncarry, Janitor, ReleaseCarry, Goto, CallFrames,
     JanitorFrames
  <2> QED BY <1>k, <1>r, <2>1 DEF Shape, Knows, Frames, JanitorFrames
<1> QED BY <1>1, <1>2, <1>3, <1>4, <1>5, <1>6, <1>7, <1>8, <1>9, <1>10, <1>11, <1>12, <1>13,
  <1>14 DEF JanitorStep

(* A drop returns to the end of its call, or to shared_get.                 *)
LEMMA DropReturns ==
  ASSUME NEW t \in Threads, Shape(t), pc[t] \in Dying \cup {"ds_dec"}, TypeOK
  PROVE  dr[t].ret \in {"ret", "sg_dec"}
<1>1. dr[t] \in DropFrames
  BY DEF TypeOK
<1>2. dr[t].ret # "idle"
  BY DEF Shape
<1> QED BY <1>1, <1>2 DEF DropFrames

(* A new round of the drop of a weak reference has the shape of a drop.     *)
LEMMA RoundShape ==
  ASSUME NEW t \in Threads, Shape(t), pc[t] \in Dying \cup {"ds_dec"}, pd[t].ret = "idle", TypeOK,
         NEW n, DropWeakRound(t, n), dr'[t].ret = dr[t].ret, UNCHANGED <<pd, op>>
  PROVE  Shape(t)'
<1> USE DEF DropShape
<1>1. StartAdvance(t, n, "weak", "jan_lock") /\ jn'[t].ret = "dw_weak"
  BY DEF DropWeakRound, TypeOK, IdleJanitor
<1>2. /\ dr[t].ret \in {"ret", "sg_dec"}
      /\ DropShape(op'[t].f, op'[t].ok, op'[t].guard, dr'[t].ret)
      /\ op'[t].f # "sharedGet" => op'[t].guard = "none"
      /\ op'[t].f \notin {"upgrade", "rcu"} => op'[t].ok
  <2>0. dr[t].ret \in {"ret", "sg_dec"}
    BY DropReturns
  <2>1. /\ DropShape(op[t].f, op[t].ok, op[t].guard, dr[t].ret)
        /\ op[t].f # "sharedGet" => op[t].guard = "none"
        /\ op[t].f \notin {"upgrade", "rcu"} => op[t].ok
    BY DEF Shape
  <2>2. /\ op'[t].f = op[t].f /\ op'[t].ok = op[t].ok /\ op'[t].guard = op[t].guard
        /\ dr'[t].ret = dr[t].ret
    OBVIOUS
  <2> QED BY <2>0, <2>1, <2>2
<1>3. Continues("jan_lock", "weak", op'[t].f, op'[t].ok, op'[t].guard, jn'[t].ret, dr'[t].ret)
  BY <1>1, <1>2 DEF Continues
<1> QED BY <1>1, <1>2, <1>3, StartShape

(* So has the end of a drop that of the call that goes on.                  *)
LEMMA ReturnDropShape ==
  ASSUME NEW t \in Threads, Shape(t), pc[t] \in Dying \cup {"ds_dec"}, pd[t].ret = "idle", TypeOK,
         ReturnDrop(t), UNCHANGED pd, op'[t].f = op[t].f, op'[t].ok = op[t].ok, op'[t].guard = op[t].guard
  PROVE  Shape(t)'
<1> USE DEF DropShape
<1>1. /\ dr[t].ret \in {"ret", "sg_dec"}
      /\ DropShape(op'[t].f, op'[t].ok, op'[t].guard, dr[t].ret)
      /\ op'[t].f # "sharedGet" => op'[t].guard = "none"
      /\ op'[t].f \notin {"upgrade", "rcu"} => op'[t].ok
  <2>0. dr[t].ret \in {"ret", "sg_dec"}
    BY DropReturns
  <2>1. /\ DropShape(op[t].f, op[t].ok, op[t].guard, dr[t].ret)
        /\ op[t].f # "sharedGet" => op[t].guard = "none"
        /\ op[t].f \notin {"upgrade", "rcu"} => op[t].ok
    BY DEF Shape
  <2>2. /\ op'[t].f = op[t].f /\ op'[t].ok = op[t].ok /\ op'[t].guard = op[t].guard
    OBVIOUS
  <2> QED BY <2>0, <2>1, <2>2
<1>2. pc'[t] = dr[t].ret /\ dr'[t].ret = "idle" /\ jn'[t].ret = "idle" /\ pd'[t].ret = "idle"
  BY DEF ReturnDrop, Goto, TypeOK, IdleDrop, IdleJanitor
<1>3. CASE dr[t].ret = "ret"
  BY <1>1, <1>2, <1>3 DEF Shape, Janitoring, Dying, Updating, Upgrading, DropShape
<1>4. CASE dr[t].ret = "sg_dec"
  BY <1>1, <1>2, <1>4 DEF Shape, Janitoring, Dying, Updating, Upgrading, DropShape
<1> QED BY <1>1, <1>3, <1>4

(* And a step from one label of a drop to the next.                         *)
LEMMA NextDropShape ==
  ASSUME NEW t \in Threads, Shape(t), pc[t] \in Dying \cup {"ds_dec"}, pd[t].ret = "idle", TypeOK,
         UNCHANGED <<pd, op>>, dr'[t].ret = dr[t].ret, pc'[t] \in Dying
  PROVE  Shape(t)'
<1> USE DEF DropShape
<1>1. /\ dr[t].ret \in {"ret", "sg_dec"}
      /\ DropShape(op'[t].f, op'[t].ok, op'[t].guard, dr'[t].ret)
      /\ op'[t].f # "sharedGet" => op'[t].guard = "none"
      /\ op'[t].f \notin {"upgrade", "rcu"} => op'[t].ok
  <2>0. dr[t].ret \in {"ret", "sg_dec"}
    BY DropReturns
  <2>1. /\ DropShape(op[t].f, op[t].ok, op[t].guard, dr[t].ret)
        /\ op[t].f # "sharedGet" => op[t].guard = "none"
        /\ op[t].f \notin {"upgrade", "rcu"} => op[t].ok
    BY DEF Shape
  <2>2. /\ op'[t].f = op[t].f /\ op'[t].ok = op[t].ok /\ op'[t].guard = op[t].guard
        /\ dr'[t].ret = dr[t].ret
    OBVIOUS
  <2> QED BY <2>0, <2>1, <2>2
<1>2. pd'[t].ret = "idle"
  OBVIOUS
<1> QED BY <1>1, <1>2 DEF Shape, Janitoring, Dying, Updating, Upgrading

(* A step of a drop keeps the shape of its call.                            *)
LEMMA DropShapeKept ==
  ASSUME OrderInv, TypeOK', NEW t \in Threads, Shape(t), DropStep(t)
  PROVE  Shape(t)'
<1> USE DEF DropShape
<1>k. Knows(pc[t], item[t], av[t], pd[t], jn[t], op[t]) /\ TypeOK
  BY RegistersTyped DEF OrderInv
<1>r. /\ pc \in [Threads -> Labels] /\ jn \in [Threads -> JanitorFrames]
      /\ dr \in [Threads -> DropFrames] /\ op \in [Threads -> CallFrames]
  BY DEF OrderInv, TypeOK
<1>p. pc[t] \in Dying \cup {"ds_dec"} /\ pd[t].ret = "idle"
  <2>1. pc[t] \in Dying \cup {"ds_dec"}
    BY DEF DropStep, DropStrongDec, DropWeakLoad, DropWeakNext, ClaimTeardown, DropWeakCas, DropWeakFree, Dying
  <2>2. pd[t].ret = "idle"
    BY <1>k, <2>1 DEF Knows, Frames, Dying
  <2> QED BY <2>1, <2>2
<1>s. ASSUME NEW n, StartDropWeak(t, n, dr[t].ret), UNCHANGED <<pd, op>> PROVE Shape(t)'
  <2>1. DropWeakRound(t, n) /\ dr'[t].ret = dr[t].ret
    BY <1>r, <1>s DEF StartDropWeak, IdleDrop
  <2> QED BY <1>k, <1>p, <1>s, <2>1, RoundShape
<1>1. CASE DropStrongDec(t)
  <2>1. UNCHANGED <<pd, op>> /\ (StartDropWeak(t, item[t], dr[t].ret) \/ ReturnDrop(t))
    BY <1>1 DEF DropStrongDec
  <2>2. CASE StartDropWeak(t, item[t], dr[t].ret)
    BY <1>s, <2>1, <2>2
  <2>3. CASE ReturnDrop(t)
    BY <1>k, <1>p, <2>1, <2>3, ReturnDropShape
  <2> QED BY <2>1, <2>2, <2>3
<1>2. CASE DropWeakLoad(t)
  <2>1. /\ UNCHANGED <<pd, op>> /\ dr'[t].ret = dr[t].ret
        /\ DropWeakRound(t, item[t]) \/ pc'[t] = "dw_next"
    BY <1>r, <1>2 DEF DropWeakLoad, Goto, DropFrames
  <2>2. CASE DropWeakRound(t, item[t])
    BY <1>k, <1>p, <2>1, <2>2, RoundShape
  <2>3. CASE pc'[t] = "dw_next"
    BY <1>k, <1>p, <2>1, <2>3, NextDropShape DEF Dying
  <2> QED BY <2>1, <2>2, <2>3
<1>3. CASE DropWeakNext(t)
  <2>1. /\ UNCHANGED <<pd, op>>
        /\ StartDropWeak(t, item[t], dr[t].ret) \/ (pc'[t] \in {"dw_claim", "dw_cas"} /\ UNCHANGED dr)
    BY <1>r, <1>3 DEF DropWeakNext, Goto
  <2>2. CASE StartDropWeak(t, item[t], dr[t].ret)
    BY <1>s, <2>1, <2>2
  <2>3. CASE pc'[t] \in {"dw_claim", "dw_cas"} /\ UNCHANGED dr
    BY <1>k, <1>p, <2>1, <2>3, NextDropShape DEF Dying
  <2> QED BY <2>1, <2>2, <2>3
<1>4. CASE ClaimTeardown(t)
  <2>1. /\ UNCHANGED <<dr, op>>
        /\ StartPayloadDrop(t, item[t], TRUE, "dw_cas") \/ (pc'[t] = "dw_cas" /\ UNCHANGED pd)
    BY <1>r, <1>4 DEF ClaimTeardown, Goto
  <2>2. CASE StartPayloadDrop(t, item[t], TRUE, "dw_cas")
    <3>1. /\ pc'[t] = "pay_mark" /\ pd'[t].ret = "dw_cas" /\ pd'[t].tgt = item[t] /\ UNCHANGED item
      BY <1>k, <1>4, <2>2 DEF StartPayloadDrop, Goto, TypeOK, ClaimTeardown
    <3>2. /\ dr[t].ret \in {"ret", "sg_dec"}
          /\ DropShape(op'[t].f, op'[t].ok, op'[t].guard, dr'[t].ret)
          /\ op'[t].f # "sharedGet" => op'[t].guard = "none"
          /\ op'[t].f \notin {"upgrade", "rcu"} => op'[t].ok
      <4>0. dr[t].ret \in {"ret", "sg_dec"}
        BY <1>k, <1>p, <2>1, DropReturns
      <4>1. /\ DropShape(op[t].f, op[t].ok, op[t].guard, dr[t].ret)
            /\ op[t].f # "sharedGet" => op[t].guard = "none"
            /\ op[t].f \notin {"upgrade", "rcu"} => op[t].ok
        BY <1>k, <1>p, <2>1 DEF Shape
      <4>2. /\ op'[t].f = op[t].f /\ op'[t].ok = op[t].ok /\ op'[t].guard = op[t].guard
            /\ dr'[t].ret = dr[t].ret
        BY <2>1
      <4> QED BY <4>0, <4>1, <4>2
    <3> QED BY <2>1, <3>1, <3>2 DEF Shape, Janitoring, Dying, Updating, Upgrading
  <2>3. CASE pc'[t] = "dw_cas" /\ UNCHANGED pd
    BY <1>k, <1>p, <2>1, <2>3, NextDropShape DEF Dying
  <2> QED BY <2>1, <2>2, <2>3
<1>5. CASE DropWeakCas(t)
  <2>1. /\ UNCHANGED <<pd, op>>
        /\ \/ StartDropWeak(t, item[t], dr[t].ret)
           \/ ReturnDrop(t)
           \/ pc'[t] = "dw_free" /\ UNCHANGED dr
    BY <1>r, <1>5 DEF DropWeakCas, Goto
  <2>2. CASE StartDropWeak(t, item[t], dr[t].ret)
    BY <1>s, <2>1, <2>2
  <2>3. CASE ReturnDrop(t)
    BY <1>k, <1>p, <2>1, <2>3, ReturnDropShape
  <2>4. CASE pc'[t] = "dw_free" /\ UNCHANGED dr
    BY <1>k, <1>p, <2>1, <2>4, NextDropShape DEF Dying
  <2> QED BY <2>1, <2>2, <2>3, <2>4
<1>6. CASE DropWeakFree(t)
  <2>1. UNCHANGED pd /\ ReturnDrop(t) /\ op'[t].f = op[t].f /\ op'[t].ok = op[t].ok /\ op'[t].guard = op[t].guard
    BY <1>r, <1>6 DEF DropWeakFree, CallFrames
  <2> QED BY <1>k, <1>p, <2>1, ReturnDropShape
<1> QED BY <1>1, <1>2, <1>3, <1>4, <1>5, <1>6 DEF DropStep

(* A step of an update keeps the shape of its call.                         *)
LEMMA UpdateShapeKept ==
  ASSUME OrderInv, TypeOK', NEW t \in Threads, Shape(t), UpdateStep(t)
  PROVE  Shape(t)'
<1> USE DEF Continues, DropShape, Janitoring, Updating, Upgrading, Dying
<1>k. Knows(pc[t], item[t], av[t], pd[t], jn[t], op[t]) /\ TypeOK
  BY RegistersTyped DEF OrderInv
<1>r. /\ pc \in [Threads -> Labels] /\ item \in [Threads -> Nodes] /\ av \in [Threads -> AdvanceFrames]
      /\ pd \in [Threads -> PayloadFrames] /\ jn \in [Threads -> JanitorFrames]
      /\ dr \in [Threads -> DropFrames] /\ op \in [Threads -> CallFrames]
  BY DEF OrderInv, TypeOK
<1>1. CASE UpdateNext(t)
  <2>1. pc[t] = "upd_next" /\ pd[t].ret = "idle"
    BY <1>k, <1>1 DEF UpdateNext, Knows, Frames
  <2>2. CASE HasNext(item[t])
    <3>1. StartAdvance(t, item[t], "strong", "upd_next") /\ UNCHANGED <<pd, jn, dr, op>>
      BY <1>r, <1>1, <2>2 DEF UpdateNext, UpdateAgain, PrepareLink, Goto, IdleDrop
    <3> QED BY <1>k, <1>r, <2>1, <2>2, <3>1, StartShape DEF Shape
  <2>3. CASE ~(HasNext(item[t]))
    BY <1>k, <1>r, <1>1, <2>3 DEF UpdateNext, UpdateAgain, PrepareLink, Goto, Shape, Knows,
     Frames, CallFrames
  <2> QED BY <2>2, <2>3
<1>2. CASE RcuCancel(t)
  BY <1>k, <1>r, <1>2 DEF RcuCancel, Goto, Shape, locals, Knows, Frames
<1>3. CASE UpdateWeakInc(t)
  BY <1>k, <1>r, <1>3 DEF UpdateWeakInc, Goto, Shape, locals, Knows, Frames
<1>4. CASE UpdateCas(t)
  BY <1>k, <1>r, <1>4 DEF UpdateCas, Goto, Shape, locals, Knows, Frames
<1>5. CASE UpdateFail(t)
  BY <1>k, <1>r, <1>5 DEF UpdateFail, UpdateAgain, StartAdvance, Goto, Shape, locals, Knows,
     Frames
<1>6. CASE UpdateMark(t)
  BY <1>k, <1>r, <1>6 DEF UpdateMark, Goto, Shape, locals, Knows, Frames
<1>7. CASE UpdateDec(t)
  BY <1>k, <1>r, <1>7 DEF UpdateDec, StartPayloadDrop, Goto, Shape, locals, Knows, Frames
<1>8. CASE UpdateDecWeak(t)
  BY <1>k, <1>r, <1>8 DEF UpdateDecWeak, Goto, Shape, locals, Knows, Frames
<1>9. CASE UpdateDone(t)
  <2>1. pc[t] = "upd_done" /\ pd[t].ret = "idle"
    BY <1>k, <1>9 DEF UpdateDone, Knows, Frames
  <2>2. CASE jn[t].rerun
    <3>1. StartAdvance(t, item[t], "strong", "jan_lock") /\ UNCHANGED <<pd, jn, dr, op>>
      BY <1>r, <1>9, <2>2 DEF UpdateDone, Goto, ReadOnly, IdleDrop
    <3> QED BY <1>k, <1>r, <2>1, <2>2, <3>1, StartShape DEF Shape
  <2>3. CASE ~(jn[t].rerun)
    BY <1>k, <1>r, <1>9, <2>3 DEF UpdateDone, Goto, ReadOnly, Shape, Knows, Frames, CallFrames
  <2> QED BY <2>2, <2>3
<1> QED BY <1>1, <1>2, <1>3, <1>4, <1>5, <1>6, <1>7, <1>8, <1>9 DEF UpdateStep

(* A step of an upgrade keeps the shape of its call.                        *)
LEMMA UpgradeShapeKept ==
  ASSUME OrderInv, TypeOK', NEW t \in Threads, Shape(t), UpgradeStep(t)
  PROVE  Shape(t)'
<1> USE DEF Continues, DropShape, Janitoring, Updating, Upgrading, Dying
<1>k. Knows(pc[t], item[t], av[t], pd[t], jn[t], op[t]) /\ TypeOK
  BY RegistersTyped DEF OrderInv
<1>r. /\ pc \in [Threads -> Labels] /\ item \in [Threads -> Nodes] /\ av \in [Threads -> AdvanceFrames]
      /\ pd \in [Threads -> PayloadFrames] /\ jn \in [Threads -> JanitorFrames]
      /\ dr \in [Threads -> DropFrames] /\ op \in [Threads -> CallFrames]
  BY DEF OrderInv, TypeOK
<1>1. CASE UpgradeLoadStrong(t)
  BY <1>k, <1>r, <1>1 DEF UpgradeLoadStrong, Goto, ReadOnly, Shape, locals, Knows, Frames
<1>2. CASE UpgradeLoadNext(t)
  <2>1. pc[t] = "upg_next" /\ pd[t].ret = "idle" /\ UNCHANGED pd
    BY <1>k, <1>2 DEF UpgradeLoadNext, Knows, Frames
  <2>2. CASE HasNext(item[t])
    <3>1. StartAdvance(t, item[t], "weak", "upg_strong") /\ UNCHANGED <<jn, dr, op>>
      BY <1>2, <2>2 DEF UpgradeLoadNext, UpgradeAgain
    <3> QED BY <1>k, <1>r, <2>1, <3>1, StartShape DEF Shape
  <2>3. CASE ~HasNext(item[t]) /\ ValueIsGone(item[t], op[t].cs)
    <3>1. /\ StartAdvance(t, item[t], "weak", "jan_lock") /\ jn'[t].ret = "dw_weak" /\ dr'[t].ret = "ret"
          /\ op'[t].f = op[t].f /\ op'[t].ok = FALSE /\ op'[t].guard = op[t].guard
      BY <1>r, <1>2, <2>3 DEF UpgradeLoadNext, StartDropWeak, DropWeakRound, IdleJanitor,
     IdleDrop, CallFrames
    <3> QED BY <1>k, <1>r, <2>1, <3>1, StartShape DEF Shape
  <2>4. CASE ~HasNext(item[t]) /\ ~ValueIsGone(item[t], op[t].cs)
    BY <1>k, <1>r, <1>2, <2>4 DEF UpgradeLoadNext, Goto, Shape, Knows, Frames
  <2> QED BY <2>2, <2>3, <2>4
<1>3. CASE UpgradeIncWeak(t)
  BY <1>k, <1>r, <1>3 DEF UpgradeIncWeak, Goto, Shape, locals, Knows, Frames
<1>4. CASE UpgradeCas(t)
  <2>1. pc[t] = "upg_cas" /\ pd[t].ret = "idle"
    BY <1>k, <1>4 DEF UpgradeCas, Knows, Frames
  <2>2. CASE strong[item[t]] # op[t].cs /\ op[t].cs # 0
    <3>1. StartAdvance(t, item[t], "weak", "upg_strong") /\ UNCHANGED <<pd, jn, dr, op>>
      BY <1>r, <1>4, <2>2 DEF UpgradeCas, Goto, UpgradeAgain, IdleDrop
    <3> QED BY <1>k, <1>r, <2>1, <2>2, <3>1, StartShape DEF Shape
  <2>3. CASE ~(strong[item[t]] # op[t].cs /\ op[t].cs # 0)
    BY <1>k, <1>r, <1>4, <2>3 DEF UpgradeCas, Goto, UpgradeAgain, Shape, Knows, Frames,
     CallFrames
  <2> QED BY <2>2, <2>3
<1>5. CASE UpgradeRaceDecWeak(t)
  BY <1>k, <1>r, <1>5 DEF UpgradeRaceDecWeak, UpgradeAgain, StartAdvance, Goto, Shape, locals,
     Knows, Frames
<1>6. CASE UpgradeCheck(t)
  BY <1>k, <1>r, <1>6 DEF UpgradeCheck, Goto, ReadOnly, Shape, locals, Knows, Frames
<1>7. CASE UpgradeUndo(t)
  <2>1. pc[t] = "upg_undo" /\ pd[t].ret = "idle"
    BY <1>k, <1>7 DEF UpgradeUndo, Knows, Frames
  <2>2. CASE ~LastStrong(item[t])
    <3>1. StartAdvance(t, item[t], "weak", "upg_strong") /\ UNCHANGED <<pd, jn, dr, op>>
      BY <1>r, <1>7, <2>2 DEF UpgradeUndo, Goto, UpgradeAgain, IdleDrop
    <3> QED BY <1>k, <1>r, <2>1, <2>2, <3>1, StartShape DEF Shape
  <2>3. CASE ~(~LastStrong(item[t]))
    BY <1>k, <1>r, <1>7, <2>3 DEF UpgradeUndo, Goto, UpgradeAgain, Shape, Knows, Frames,
     CallFrames
  <2> QED BY <2>2, <2>3
<1>8. CASE UpgradeUndoDecWeak(t)
  BY <1>k, <1>r, <1>8 DEF UpgradeUndoDecWeak, UpgradeAgain, StartAdvance, Goto, Shape, locals,
     Knows, Frames
<1>9. CASE UpgradeDone(t)
  BY <1>k, <1>r, <1>9 DEF UpgradeDone, Goto, Shape, locals, Knows, Frames
<1> QED BY <1>1, <1>2, <1>3, <1>4, <1>5, <1>6, <1>7, <1>8, <1>9 DEF UpgradeStep

(* A step of a public function keeps the shape of its call.                 *)
LEMMA ApiShapeKept ==
  ASSUME OrderInv, TypeOK', NEW t \in Threads, Shape(t), ApiStep(t)
  PROVE  Shape(t)'
<1> USE DEF Continues, DropShape, Janitoring, Updating, Upgrading, Dying
<1>k. Knows(pc[t], item[t], av[t], pd[t], jn[t], op[t]) /\ TypeOK
  BY RegistersTyped DEF OrderInv
<1>r. /\ pc \in [Threads -> Labels] /\ item \in [Threads -> Nodes] /\ av \in [Threads -> AdvanceFrames]
      /\ pd \in [Threads -> PayloadFrames] /\ jn \in [Threads -> JanitorFrames]
      /\ dr \in [Threads -> DropFrames] /\ op \in [Threads -> CallFrames]
  BY DEF OrderInv, TypeOK
<1>1. CASE GetLoad(t)
  <2>1. pc[t] = "get_load" /\ pd[t].ret = "idle"
    BY <1>k, <1>1 DEF GetLoad, Knows, Frames
  <2>2. CASE NeedsReload(op[t].f, item[t])
    <3>1. StartAdvance(t, item[t], "strong", "jan_lock") /\ jn'[t].ret = "get_done" /\ UNCHANGED <<pd, dr, op>>
      BY <1>r, <1>1, <2>2 DEF GetLoad, ReloadAgain, Goto, AfterReload, ReadOnly, IdleDrop,
     JanitorFrames
    <3> QED BY <1>k, <1>r, <2>1, <2>2, <3>1, StartShape DEF Shape
  <2>3. CASE ~(NeedsReload(op[t].f, item[t]))
    BY <1>k, <1>r, <1>1, <2>3 DEF GetLoad, ReloadAgain, Goto, AfterReload, ReadOnly, Shape,
     Knows, Frames, CallFrames
  <2> QED BY <2>2, <2>3
<1>2. CASE GetDone(t)
  <2>1. pc[t] = "get_done" /\ pd[t].ret = "idle"
    BY <1>k, <1>2 DEF GetDone, Knows, Frames
  <2>2. CASE jn[t].rerun
    <3>1. StartAdvance(t, item[t], "strong", "jan_lock") /\ UNCHANGED <<pd, jn, dr, op>>
      BY <1>r, <1>2, <2>2 DEF GetDone, ReloadAgain, Goto, AfterReload, ReadOnly, IdleDrop
    <3> QED BY <1>k, <1>r, <2>1, <2>2, <3>1, StartShape DEF Shape
  <2>3. CASE ~(jn[t].rerun)
    BY <1>k, <1>r, <1>2, <2>3 DEF GetDone, ReloadAgain, Goto, AfterReload, ReadOnly, Shape,
     Knows, Frames, CallFrames
  <2> QED BY <2>2, <2>3
<1>3. CASE TryGetMutWeak(t)
  BY <1>k, <1>r, <1>3 DEF TryGetMutWeak, Goto, ReadOnly, Shape, locals, Knows, Frames
<1>4. CASE TryGetMutStrong(t)
  BY <1>k, <1>r, <1>4 DEF TryGetMutStrong, Goto, ReadOnly, Shape, locals, Knows, Frames
<1>5. CASE TryGetMutAgain(t)
  BY <1>k, <1>r, <1>5 DEF TryGetMutAgain, Goto, ReadOnly, Shape, locals, Knows, Frames
<1>6. CASE SharedGetLoad(t)
  BY <1>k, <1>r, <1>6, SMTT(60) DEF SharedGetLoad, Goto, ReadOnly, Shape, locals, Knows, Frames,
     CallFrames, IdleOp, IdleJanitor, IdleDrop, IdleAdvance
<1>7. CASE SharedGetInc(t)
  BY <1>k, <1>r, <1>7 DEF SharedGetInc, Goto, Shape, locals, Knows, Frames
<1>8. CASE SharedGetNext(t)
  BY <1>k, <1>r, <1>8 DEF SharedGetNext, Goto, ReadOnly, Shape, locals, Knows, Frames
<1>9. CASE SharedGetStrong(t)
  BY <1>k, <1>r, <1>9 DEF SharedGetStrong, Goto, ReadOnly, Shape, locals, Knows, Frames
<1>10. CASE SharedGetCas(t)
  BY <1>k, <1>r, <1>10 DEF SharedGetCas, Goto, Shape, locals, Knows, Frames
<1>11. CASE SharedGetRecheck(t)
  <2>1. pc[t] = "sg_recheck" /\ pd[t].ret = "idle"
    BY <1>k, <1>11 DEF SharedGetRecheck, Knows, Frames
  <2>2. CASE HasNext(op[t].nxt)
    <3>1. StartAdvance(t, op[t].nxt, "strong", "ds_dec") /\ dr'[t].ret = "sg_dec" /\ UNCHANGED <<pd, jn, op>>
      BY <1>r, <1>11, <2>2 DEF SharedGetRecheck, StartDropStrong, Goto, ReadOnly, IdleDrop
    <3> QED BY <1>k, <1>r, <2>1, <2>2, <3>1, StartShape DEF Shape
  <2>3. CASE ~(HasNext(op[t].nxt))
    BY <1>k, <1>r, <1>11, <2>3 DEF SharedGetRecheck, StartDropStrong, Goto, ReadOnly, Shape,
     Knows, Frames, CallFrames
  <2> QED BY <2>2, <2>3
<1>12. CASE SharedGetLight(t)
  BY <1>k, <1>r, <1>12, SMTT(60) DEF SharedGetLight, Goto, Shape, locals, Knows, Frames,
     CallFrames, IdleOp, IdleJanitor, IdleDrop, IdleAdvance
<1>13. CASE SharedGetDec(t)
  BY <1>k, <1>r, <1>13 DEF SharedGetDec, Goto, Shape, locals, Knows, Frames
<1>14. CASE SharedGetClone(t)
  BY <1>k, <1>r, <1>14, SMTT(60) DEF SharedGetClone, StartAdvance, Goto, Shape, locals, Knows,
     Frames, CallFrames, IdleOp, IdleJanitor, IdleDrop, IdleAdvance
<1>15. CASE FinishReading(t)
  <2>1. pc[t] \in {"reading", "mutref"} /\ pd[t].ret = "idle"
    BY <1>k, <1>15 DEF FinishReading, Knows, Frames
  <2>2. CASE op[t].guard \in {"light", "full"}
    <3>1. StartAdvance(t, item[t], "strong", "ds_dec") /\ dr'[t].ret = "ret" /\ UNCHANGED <<pd, jn, op>>
      BY <1>r, <1>15, <2>2 DEF FinishReading, StartDropStrong, Goto, ReadOnly, IdleDrop
    <3> QED BY <1>k, <1>r, <2>1, <2>2, <3>1, StartShape DEF Shape
  <2>3. CASE ~(op[t].guard \in {"light", "full"})
    BY <1>k, <1>r, <1>15, <2>3 DEF FinishReading, StartDropStrong, Goto, ReadOnly, Shape, Knows,
     Frames, CallFrames
  <2> QED BY <2>2, <2>3
<1>16. CASE Return(t)
  BY <1>k, <1>r, <1>16, SMTT(60) DEF Return, Goto, Shape, locals, Knows, Frames, CallFrames,
     IdleOp, IdleJanitor, IdleDrop, IdleAdvance
<1> QED BY <1>1, <1>2, <1>3, <1>4, <1>5, <1>6, <1>7, <1>8, <1>9, <1>10, <1>11, <1>12, <1>13,
  <1>14, <1>15, <1>16 DEF ApiStep

(* The beginning of a call keeps the shape of its call.                     *)
LEMMA CallShapeKept ==
  ASSUME OrderInv, TypeOK', NEW t \in Threads, Shape(t), Call(t)
  PROVE  Shape(t)'
<1> USE DEF Continues, DropShape, Janitoring, Updating, Upgrading, Dying
<1>k. Knows(pc[t], item[t], av[t], pd[t], jn[t], op[t]) /\ TypeOK
  BY RegistersTyped DEF OrderInv
<1>r. /\ pc \in [Threads -> Labels] /\ item \in [Threads -> Nodes] /\ av \in [Threads -> AdvanceFrames]
      /\ pd \in [Threads -> PayloadFrames] /\ jn \in [Threads -> JanitorFrames]
      /\ dr \in [Threads -> DropFrames] /\ op \in [Threads -> CallFrames]
  BY DEF OrderInv, TypeOK
<1>1. ASSUME NEW h \in Handles, NEW o \in Handles, Clone(t, h, o) PROVE Shape(t)'
  BY <1>k, <1>r, <1>1 DEF Clone, Enter, Borrow, Reserve, StartAdvance, Admitted, Goto, Shape,
     locals, Knows, Frames, IdleOp, IdleAdvance, IdleDrop, IdleJanitor, IdlePayload
<1>2. ASSUME NEW f, NEW h \in Handles, NEW o \in Handles, CloneWeak(t, f, h, o) PROVE Shape(t)'
  BY <1>k, <1>r, <1>2 DEF CloneWeak, Admitted, Borrow, Shape, locals, Knows, Frames, IdleOp,
     IdleAdvance, IdleDrop, IdleJanitor, IdlePayload
<1>3. ASSUME NEW h \in Handles, NEW o \in Handles, Upgrade(t, h, o) PROVE Shape(t)'
  BY <1>k, <1>r, <1>3 DEF Upgrade, Enter, Borrow, Reserve, StartAdvance, Admitted, Goto, Shape,
     locals, Knows, Frames, IdleOp, IdleAdvance, IdleDrop, IdleJanitor, IdlePayload
<1>4. ASSUME NEW h \in Handles, Update(t, h) PROVE Shape(t)'
  BY <1>k, <1>r, <1>4 DEF Update, Enter, Take, StartAdvance, Admitted, Goto, Shape, locals,
     Knows, Frames, IdleOp, IdleAdvance, IdleDrop, IdleJanitor, IdlePayload
<1>5. ASSUME NEW h \in Handles, Rcu(t, h) PROVE Shape(t)'
  BY <1>k, <1>r, <1>5 DEF Rcu, Enter, Take, StartAdvance, Admitted, Goto, Shape, locals, Knows,
     Frames, IdleOp, IdleAdvance, IdleDrop, IdleJanitor, IdlePayload
<1>6. ASSUME NEW f, NEW h \in Handles, DropShift(t, f, h) PROVE Shape(t)'
  BY <1>k, <1>r, <1>6 DEF DropShift, Enter, Take, StartDropStrong, Admitted, StartAdvance, Goto,
     Shape, locals, Knows, Frames, IdleOp, IdleAdvance, IdleDrop, IdleJanitor, IdlePayload
<1>7. ASSUME NEW h \in Handles, DropShiftWeak(t, h) PROVE Shape(t)'
  BY <1>k, <1>r, <1>7 DEF DropShiftWeak, Enter, Take, StartDropWeak, Admitted, DropWeakRound,
     StartAdvance, Goto, Shape, locals, Knows, Frames, IdleOp, IdleAdvance, IdleDrop,
     IdleJanitor, IdlePayload
<1>8. ASSUME NEW f, NEW h \in Handles, Reload(t, f, h) PROVE Shape(t)'
  BY <1>k, <1>r, <1>8 DEF Reload, Enter, Take, Goto, Admitted, Shape, locals, Knows, Frames,
     IdleOp, IdleAdvance, IdleDrop, IdleJanitor, IdlePayload
<1>9. ASSUME NEW h \in Handles, SharedGet(t, h) PROVE Shape(t)'
  BY <1>k, <1>r, <1>9 DEF SharedGet, Enter, Borrow, Goto, Admitted, Shape, locals, Knows,
     Frames, IdleOp, IdleAdvance, IdleDrop, IdleJanitor, IdlePayload
<1> QED BY <1>1, <1>2, <1>3, <1>4, <1>5, <1>6, <1>7, <1>8, <1>9 DEF Call

(* ---- effects ---- *)
(* What StartAdvance sets. *)
Starts(t, n, mode, ret) ==
  /\ pc'[t] = "adv_load" /\ item'[t] = n
  /\ av'[t].start = n /\ av'[t].nxt = n /\ av'[t].mode = mode /\ av'[t].ret = ret /\ av'[t].cs = 0

(* Case by case, what the start of an advance changes and what it leaves   *)
(* alone.                                                                  *)
LEMMA StartEffect ==
  ASSUME TypeOK, NEW t \in Threads, NEW n, NEW mode, NEW ret, StartAdvance(t, n, mode, ret)
  PROVE  Starts(t, n, mode, ret)
  BY DEF TypeOK, StartAdvance, Goto, IdleAdvance, Starts

(* Case by case, what the start of a round of the drop of a weak reference *)
(* changes and what it leaves alone.                                       *)
LEMMA StartDropWeakEffect ==
  ASSUME TypeOK, NEW t \in Threads, NEW n, NEW ret, StartDropWeak(t, n, ret)
  PROVE  /\ Starts(t, n, "weak", "jan_lock")
         /\ jn'[t] = [IdleJanitor EXCEPT !.ret = "dw_weak"]
         /\ dr'[t] = [IdleDrop EXCEPT !.ret = ret]
<1>1. StartAdvance(t, n, "weak", "jan_lock")
  BY DEF StartDropWeak, DropWeakRound
<1> QED BY <1>1, StartEffect DEF StartDropWeak, DropWeakRound, TypeOK

(* Case by case, what the return of the drop of a reference changes and    *)
(* what it leaves alone.                                                   *)
LEMMA ReturnDropEffect ==
  ASSUME TypeOK, NEW t \in Threads, ReturnDrop(t)
  PROVE  pc'[t] = dr[t].ret /\ dr'[t] = IdleDrop /\ jn'[t] = IdleJanitor
  BY DEF TypeOK, ReturnDrop, Goto

(* Case by case, what the janitor taking the lock of its start node        *)
(* changes and what it leaves alone.                                       *)
LEMMA JanitorLockStartEffect ==
  ASSUME TypeOK, NEW t \in Threads, JanitorLockStart(t)
  PROVE
         /\ pc[t] = "jan_lock"
         /\ OnlyNext
         /\ UNCHANGED <<item, av, pd, dr, op>>
         /\ \/ /\ next[item[t]].locked
               /\ Disturb(item[t])
               /\ pc'[t] = jn[t].ret
               /\ jn'[t].ret = jn[t].ret /\ ~jn'[t].rerun /\ jn'[t].status = "Indeterminate"
            \/ /\ ~next[item[t]].locked
               /\ Lock(item[t])
               /\ pc'[t] = IF prev[item[t]] = Null THEN "jan_unlock" ELSE "jan_sweep"
               /\ jn'[t].ret = jn[t].ret /\ jn'[t].cur = prev[item[t]] /\ jn'[t].cand = prev[item[t]] /\ jn'[t].fail = Null
               /\ jn'[t].rdel = Null /\ jn'[t].right = Null /\ jn'[t].carry = Null /\ jn'[t].del = Null
               /\ ~jn'[t].seen /\ ~jn'[t].rerun
<1>0. /\ pc \in [Threads -> Labels] /\ av \in [Threads -> AdvanceFrames] /\ jn \in [Threads -> JanitorFrames]
      /\ dr \in [Threads -> DropFrames] /\ op \in [Threads -> CallFrames] /\ item \in [Threads -> Nodes]
  BY DEF TypeOK
<1>1. CASE next[item[t]].locked
  <2>1. pc[t] = "jan_lock" /\ Disturb(item[t]) /\ ReturnJanitor(t, FALSE, "Indeterminate") /\ OnlyNext /\ UNCHANGED <<item, av, pd, dr, op>>
    BY <1>1 DEF JanitorLockStart, Janitor
  <2>2. /\ pc'[t] = jn[t].ret
        /\ jn'[t].ret = jn[t].ret /\ ~jn'[t].rerun /\ jn'[t].status = "Indeterminate"
    BY <1>0, <2>1 DEF ReturnJanitor, Goto, IdleJanitor
  <2> QED BY <1>1, <2>1, <2>2
<1>2. CASE ~next[item[t]].locked
  <2>1. /\ pc[t] = "jan_lock" /\ Lock(item[t]) /\ OnlyNext /\ UNCHANGED <<item, av, pd, dr, op>>
        /\ pc' = [pc EXCEPT ![t] = IF prev[item[t]] = Null THEN "jan_unlock" ELSE "jan_sweep"]
        /\ jn' = [jn EXCEPT ![t] = [IdleJanitor EXCEPT !.cur = prev[item[t]], !.cand = prev[item[t]], !.ret = jn[t].ret]]
    BY <1>2 DEF JanitorLockStart, Janitor, Goto
  <2>2. /\ jn'[t].ret = jn[t].ret /\ jn'[t].cur = prev[item[t]] /\ jn'[t].cand = prev[item[t]] /\ jn'[t].fail = Null
        /\ jn'[t].rdel = Null /\ jn'[t].right = Null /\ jn'[t].carry = Null /\ jn'[t].del = Null
        /\ ~jn'[t].seen /\ ~jn'[t].rerun
    BY <1>0, <2>1 DEF IdleJanitor
  <2>3. pc'[t] = IF prev[item[t]] = Null THEN "jan_unlock" ELSE "jan_sweep"
    BY <1>0, <2>1
  <2> QED BY <1>2, <2>1, <2>2, <2>3
<1> QED BY <1>1, <1>2

(* Case by case, what the janitor releasing the lock of its start node     *)
(* changes and what it leaves alone.                                       *)
LEMMA JanitorUnlockStartEffect ==
  ASSUME TypeOK, NEW t \in Threads, JanitorUnlockStart(t)
  PROVE
         /\ pc[t] = "jan_unlock"
         /\ OnlyNext
         /\ UNCHANGED <<item, av, pd, dr, op>>
         /\ Unlock(item[t])
         /\ pc'[t] = jn[t].ret
         /\ jn'[t].ret = jn[t].ret /\ jn'[t].rerun = (jn[t].rerun \/ next[item[t]].disturbed) /\ jn'[t].status = StrongStatus(jn[t])
<1>0. /\ pc \in [Threads -> Labels] /\ av \in [Threads -> AdvanceFrames] /\ jn \in [Threads -> JanitorFrames]
      /\ dr \in [Threads -> DropFrames] /\ op \in [Threads -> CallFrames] /\ item \in [Threads -> Nodes]
  BY DEF TypeOK
<1> QED BY <1>0, StartEffect, StartDropWeakEffect, ReturnDropEffect DEF JanitorUnlockStart,
     Janitor, ReturnJanitor, Goto, IdleJanitor, CallFrames, DropFrames, JanitorFrames

(* Case by case, what the release of a strong reference changes and what   *)
(* it leaves alone.                                                        *)
LEMMA DropStrongDecEffect ==
  ASSUME TypeOK, NEW t \in Threads, DropStrongDec(t)
  PROVE
         /\ pc[t] = "ds_dec"
         /\ SubStrong(item[t])
         /\ OnlyStrong
         /\ UNCHANGED <<pd, op>>
         /\ \/ /\ LastStrong(item[t])
               /\ Starts(t, item[t], "weak", "jan_lock")
               /\ jn'[t] = [IdleJanitor EXCEPT !.ret = "dw_weak"]
               /\ dr'[t] = [IdleDrop EXCEPT !.ret = dr[t].ret]
            \/ /\ ~LastStrong(item[t])
               /\ pc'[t] = dr[t].ret
               /\ dr'[t] = IdleDrop
               /\ jn'[t] = IdleJanitor
               /\ UNCHANGED <<item, av>>
<1>0. /\ pc \in [Threads -> Labels] /\ av \in [Threads -> AdvanceFrames] /\ jn \in [Threads -> JanitorFrames]
      /\ dr \in [Threads -> DropFrames] /\ op \in [Threads -> CallFrames] /\ item \in [Threads -> Nodes]
  BY DEF TypeOK
<1>1. CASE LastStrong(item[t])
  BY <1>0, <1>1, StartEffect, StartDropWeakEffect, ReturnDropEffect DEF DropStrongDec, Goto,
     CallFrames, DropFrames, JanitorFrames
<1>2. CASE ~LastStrong(item[t])
  BY <1>0, <1>2, StartEffect, StartDropWeakEffect, ReturnDropEffect DEF DropStrongDec, Goto,
     CallFrames, DropFrames, JanitorFrames
<1> QED BY <1>1, <1>2

(* Case by case, what the load of the weak word before the release of a    *)
(* weak reference changes and what it leaves alone.                        *)
LEMMA DropWeakLoadEffect ==
  ASSUME TypeOK, NEW t \in Threads, DropWeakLoad(t)
  PROVE
         /\ pc[t] = "dw_weak"
         /\ ReadOnly
         /\ UNCHANGED <<pd, op>>
         /\ \/ /\ jn[t].rerun
               /\ Starts(t, item[t], "weak", "jan_lock")
               /\ jn'[t] = [IdleJanitor EXCEPT !.ret = "dw_weak"]
               /\ UNCHANGED dr
            \/ /\ ~jn[t].rerun
               /\ pc'[t] = "dw_next"
               /\ dr'[t] = [dr[t] EXCEPT !.ww = weak[item[t]]]
               /\ UNCHANGED <<item, av, jn>>
<1>0. /\ pc \in [Threads -> Labels] /\ av \in [Threads -> AdvanceFrames] /\ jn \in [Threads -> JanitorFrames]
      /\ dr \in [Threads -> DropFrames] /\ op \in [Threads -> CallFrames] /\ item \in [Threads -> Nodes]
  BY DEF TypeOK
<1>1. CASE jn[t].rerun
  BY <1>0, <1>1, StartEffect, StartDropWeakEffect, ReturnDropEffect DEF DropWeakLoad,
     DropWeakRound, Goto, CallFrames, DropFrames, JanitorFrames
<1>2. CASE ~jn[t].rerun
  BY <1>0, <1>2, StartEffect, StartDropWeakEffect, ReturnDropEffect DEF DropWeakLoad,
     DropWeakRound, Goto, CallFrames, DropFrames, JanitorFrames
<1> QED BY <1>1, <1>2

(* Case by case, what the look at the successor before the last weak       *)
(* reference goes changes and what it leaves alone.                        *)
LEMMA DropWeakNextEffect ==
  ASSUME TypeOK, NEW t \in Threads, DropWeakNext(t)
  PROVE
         /\ pc[t] = "dw_next"
         /\ ReadOnly
         /\ UNCHANGED <<pd, op>>
         /\ \/ /\ HasNext(item[t])
               /\ Starts(t, item[t], "weak", "jan_lock")
               /\ jn'[t] = [IdleJanitor EXCEPT !.ret = "dw_weak"]
               /\ dr'[t] = [IdleDrop EXCEPT !.ret = dr[t].ret]
            \/ /\ ~HasNext(item[t])
               /\ pc'[t] = IF jn[t].status = "NoStrongRefsExist" THEN "dw_claim" ELSE "dw_cas"
               /\ UNCHANGED <<item, av, jn, dr>>
<1>0. /\ pc \in [Threads -> Labels] /\ av \in [Threads -> AdvanceFrames] /\ jn \in [Threads -> JanitorFrames]
      /\ dr \in [Threads -> DropFrames] /\ op \in [Threads -> CallFrames] /\ item \in [Threads -> Nodes]
  BY DEF TypeOK
<1>1. CASE HasNext(item[t])
  BY <1>0, <1>1, StartEffect, StartDropWeakEffect, ReturnDropEffect DEF DropWeakNext, Goto,
     CallFrames, DropFrames, JanitorFrames
<1>2. CASE ~HasNext(item[t])
  BY <1>0, <1>2, StartEffect, StartDropWeakEffect, ReturnDropEffect DEF DropWeakNext, Goto,
     CallFrames, DropFrames, JanitorFrames
<1> QED BY <1>1, <1>2

(* Case by case, what the release of a weak reference by compare-and-swap  *)
(* changes and what it leaves alone.                                       *)
LEMMA DropWeakCasEffect ==
  ASSUME TypeOK, NEW t \in Threads, DropWeakCas(t)
  PROVE
         /\ pc[t] = "dw_cas"
         /\ OnlyWeak
         /\ UNCHANGED <<pd, op>>
         /\ \/ /\ ~SameWeakWord(item[t], dr[t].ww)
               /\ Starts(t, item[t], "weak", "jan_lock")
               /\ jn'[t] = [IdleJanitor EXCEPT !.ret = "dw_weak"]
               /\ dr'[t] = [IdleDrop EXCEPT !.ret = dr[t].ret]
               /\ UNCHANGED weak
            \/ /\ SameWeakWord(item[t], dr[t].ww) /\ SoleUser(dr[t].ww)
               /\ SubWeak(item[t])
               /\ pc'[t] = "dw_free"
               /\ UNCHANGED <<item, av, jn, dr>>
            \/ /\ SameWeakWord(item[t], dr[t].ww) /\ ~SoleUser(dr[t].ww)
               /\ SubWeak(item[t])
               /\ pc'[t] = dr[t].ret
               /\ dr'[t] = IdleDrop
               /\ jn'[t] = IdleJanitor
               /\ UNCHANGED <<item, av>>
<1>0. /\ pc \in [Threads -> Labels] /\ av \in [Threads -> AdvanceFrames] /\ jn \in [Threads -> JanitorFrames]
      /\ dr \in [Threads -> DropFrames] /\ op \in [Threads -> CallFrames] /\ item \in [Threads -> Nodes]
  BY DEF TypeOK
<1>1. CASE ~SameWeakWord(item[t], dr[t].ww)
  BY <1>0, <1>1, StartEffect, StartDropWeakEffect, ReturnDropEffect DEF DropWeakCas, Goto,
     CallFrames, DropFrames, JanitorFrames
<1>2. CASE SameWeakWord(item[t], dr[t].ww) /\ SoleUser(dr[t].ww)
  BY <1>0, <1>2, StartEffect, StartDropWeakEffect, ReturnDropEffect DEF DropWeakCas, Goto,
     CallFrames, DropFrames, JanitorFrames
<1>3. CASE SameWeakWord(item[t], dr[t].ww) /\ ~SoleUser(dr[t].ww)
  BY <1>0, <1>3, StartEffect, StartDropWeakEffect, ReturnDropEffect DEF DropWeakCas, Goto,
     CallFrames, DropFrames, JanitorFrames
<1> QED BY <1>1, <1>2, <1>3

(* Case by case, what the free of a node after its last weak reference     *)
(* changes and what it leaves alone.                                       *)
LEMMA DropWeakFreeEffect ==
  ASSUME TypeOK, NEW t \in Threads, DropWeakFree(t)
  PROVE
         /\ pc[t] = "dw_free"
         /\ mem' = [mem EXCEPT ![item[t]] = "freed"]
         /\ drops' = IF next[item[t]].dropped THEN drops ELSE [drops EXCEPT ![item[t]] = @ + 1]
         /\ UNCHANGED <<next, prev, strong, weak, adv, client, pd>>
         /\ op'[t].f = op[t].f /\ op'[t].ok = op[t].ok /\ op'[t].guard = op[t].guard /\ op'[t].hnd = op[t].hnd /\ op'[t].out = op[t].out
         /\ pc'[t] = dr[t].ret
         /\ dr'[t] = IdleDrop
         /\ jn'[t] = IdleJanitor
         /\ UNCHANGED <<item, av>>
<1>0. /\ pc \in [Threads -> Labels] /\ av \in [Threads -> AdvanceFrames] /\ jn \in [Threads -> JanitorFrames]
      /\ dr \in [Threads -> DropFrames] /\ op \in [Threads -> CallFrames] /\ item \in [Threads -> Nodes]
  BY DEF TypeOK
<1> QED BY <1>0, StartEffect, StartDropWeakEffect, ReturnDropEffect DEF DropWeakFree, Goto,
     CallFrames, DropFrames, JanitorFrames

(* Case by case, what the search for the newest node before an update      *)
(* changes and what it leaves alone.                                       *)
LEMMA UpdateNextEffect ==
  ASSUME TypeOK, NEW t \in Threads, UpdateNext(t)
  PROVE
         /\ pc[t] = "upd_next"
         /\ UNCHANGED <<client, pd, jn, dr>>
         /\ UNCHANGED <<next, adv, drops>>
         /\ \/ /\ HasNext(item[t])
               /\ Starts(t, item[t], "strong", "upd_next")
               /\ UNCHANGED <<heap, op>>
            \/ /\ ~HasNext(item[t]) /\ op[t].val # Null
               /\ pc'[t] = "upd_weak"
               /\ op'[t] = [op[t] EXCEPT !.nw = next[item[t]]]
               /\ prev' = [prev EXCEPT ![op[t].val] = item[t]]
               /\ UNCHANGED <<strong, weak, mem, item, av>>
            \/ /\ ~HasNext(item[t]) /\ op[t].val = Null
               /\ Unused # {}
               /\ pc'[t] = "upd_weak"
               /\ op'[t] = [op[t] EXCEPT !.val = FreshNode, !.nw = next[item[t]]]
               /\ NewHolder(FreshNode, item[t])
               /\ UNCHANGED <<item, av>>
<1>0. /\ pc \in [Threads -> Labels] /\ av \in [Threads -> AdvanceFrames] /\ jn \in [Threads -> JanitorFrames]
      /\ dr \in [Threads -> DropFrames] /\ op \in [Threads -> CallFrames] /\ item \in [Threads -> Nodes]
  BY DEF TypeOK
<1>1. CASE HasNext(item[t])
  BY <1>0, <1>1, StartEffect, StartDropWeakEffect, ReturnDropEffect DEF UpdateNext, UpdateAgain,
     PrepareLink, Goto, heap, CallFrames, DropFrames, JanitorFrames
<1>2. CASE ~HasNext(item[t]) /\ op[t].val # Null
  BY <1>0, <1>2, StartEffect, StartDropWeakEffect, ReturnDropEffect DEF UpdateNext, UpdateAgain,
     PrepareLink, Goto, heap, CallFrames, DropFrames, JanitorFrames
<1>3. CASE ~HasNext(item[t]) /\ op[t].val = Null
  BY <1>0, <1>3, StartEffect, StartDropWeakEffect, ReturnDropEffect DEF UpdateNext, UpdateAgain,
     PrepareLink, Goto, heap, CallFrames, DropFrames, JanitorFrames
<1> QED BY <1>1, <1>2, <1>3

(* Case by case, what an update that lost the race to link its node        *)
(* changes and what it leaves alone.                                       *)
LEMMA UpdateFailEffect ==
  ASSUME TypeOK, NEW t \in Threads, UpdateFail(t)
  PROVE
         /\ pc[t] = "upd_fail"
         /\ SubWeak(item[t])
         /\ OnlyWeak
         /\ UNCHANGED <<pd, jn, dr, op>>
         /\ Starts(t, item[t], "strong", "upd_next")
<1>0. /\ pc \in [Threads -> Labels] /\ av \in [Threads -> AdvanceFrames] /\ jn \in [Threads -> JanitorFrames]
      /\ dr \in [Threads -> DropFrames] /\ op \in [Threads -> CallFrames] /\ item \in [Threads -> Nodes]
  BY DEF TypeOK
<1> QED BY <1>0, StartEffect, StartDropWeakEffect, ReturnDropEffect DEF UpdateFail, UpdateAgain,
     Goto, CallFrames, DropFrames, JanitorFrames

(* Case by case, what an update after its node is linked and the old       *)
(* reference released changes and what it leaves alone.                    *)
LEMMA UpdateDoneEffect ==
  ASSUME TypeOK, NEW t \in Threads, UpdateDone(t)
  PROVE
         /\ pc[t] = "upd_done"
         /\ ReadOnly
         /\ UNCHANGED <<pd, jn, dr, op>>
         /\ \/ /\ jn[t].rerun
               /\ Starts(t, item[t], "strong", "jan_lock")
            \/ /\ ~jn[t].rerun
               /\ pc'[t] = "ret"
               /\ UNCHANGED <<item, av>>
<1>0. /\ pc \in [Threads -> Labels] /\ av \in [Threads -> AdvanceFrames] /\ jn \in [Threads -> JanitorFrames]
      /\ dr \in [Threads -> DropFrames] /\ op \in [Threads -> CallFrames] /\ item \in [Threads -> Nodes]
  BY DEF TypeOK
<1>1. CASE jn[t].rerun
  BY <1>0, <1>1, StartEffect, StartDropWeakEffect, ReturnDropEffect DEF UpdateDone, Goto,
     CallFrames, DropFrames, JanitorFrames
<1>2. CASE ~jn[t].rerun
  BY <1>0, <1>2, StartEffect, StartDropWeakEffect, ReturnDropEffect DEF UpdateDone, Goto,
     CallFrames, DropFrames, JanitorFrames
<1> QED BY <1>1, <1>2

(* Case by case, what the look at the successor in an upgrade changes and  *)
(* what it leaves alone.                                                   *)
LEMMA UpgradeLoadNextEffect ==
  ASSUME TypeOK, NEW t \in Threads, UpgradeLoadNext(t)
  PROVE
         /\ pc[t] = "upg_next"
         /\ ReadOnly
         /\ UNCHANGED pd
         /\ \/ /\ HasNext(item[t])
               /\ Starts(t, item[t], "weak", "upg_strong")
               /\ UNCHANGED <<jn, dr, op>>
            \/ /\ ~HasNext(item[t]) /\ ValueIsGone(item[t], op[t].cs)
               /\ Starts(t, item[t], "weak", "jan_lock")
               /\ jn'[t] = [IdleJanitor EXCEPT !.ret = "dw_weak"]
               /\ dr'[t] = [IdleDrop EXCEPT !.ret = "ret"]
               /\ op'[t] = [op[t] EXCEPT !.ok = FALSE]
            \/ /\ ~HasNext(item[t]) /\ ~ValueIsGone(item[t], op[t].cs)
               /\ pc'[t] = IF op[t].cs = 0 THEN "upg_incw" ELSE "upg_cas"
               /\ UNCHANGED <<item, av, jn, dr, op>>
<1>0. /\ pc \in [Threads -> Labels] /\ av \in [Threads -> AdvanceFrames] /\ jn \in [Threads -> JanitorFrames]
      /\ dr \in [Threads -> DropFrames] /\ op \in [Threads -> CallFrames] /\ item \in [Threads -> Nodes]
  BY DEF TypeOK
<1>1. CASE HasNext(item[t])
  BY <1>0, <1>1, StartEffect, StartDropWeakEffect, ReturnDropEffect DEF UpgradeLoadNext,
     UpgradeAgain, Goto, CallFrames, DropFrames, JanitorFrames
<1>2. CASE ~HasNext(item[t]) /\ ValueIsGone(item[t], op[t].cs)
  <2>1. op' = [op EXCEPT ![t].ok = FALSE] /\ StartDropWeak(t, item[t], "ret") /\ pc[t] = "upg_next" /\ ReadOnly /\ UNCHANGED pd
    BY <1>2 DEF UpgradeLoadNext
  <2>2. op'[t] = [op[t] EXCEPT !.ok = FALSE]
    BY <1>0, <2>1 DEF CallFrames
  <2> QED BY <1>2, <2>1, <2>2, StartDropWeakEffect
<1>3. CASE ~HasNext(item[t]) /\ ~ValueIsGone(item[t], op[t].cs)
  BY <1>0, <1>3, StartEffect, StartDropWeakEffect, ReturnDropEffect DEF UpgradeLoadNext,
     UpgradeAgain, Goto, CallFrames, DropFrames, JanitorFrames
<1> QED BY <1>1, <1>2, <1>3

(* Case by case, what the compare-and-swap of an upgrade changes and what  *)
(* it leaves alone.                                                        *)
LEMMA UpgradeCasEffect ==
  ASSUME TypeOK, NEW t \in Threads, UpgradeCas(t)
  PROVE
         /\ pc[t] = "upg_cas"
         /\ OnlyStrong
         /\ UNCHANGED <<pd, jn, dr, op>>
         /\ \/ /\ strong[item[t]] = op[t].cs
               /\ AddStrong(item[t])
               /\ pc'[t] = "upg_check"
               /\ UNCHANGED <<item, av>>
            \/ /\ strong[item[t]] # op[t].cs /\ op[t].cs = 0
               /\ pc'[t] = "upg_race"
               /\ UNCHANGED <<strong, item, av>>
            \/ /\ strong[item[t]] # op[t].cs /\ op[t].cs # 0
               /\ Starts(t, item[t], "weak", "upg_strong")
               /\ UNCHANGED strong
<1>0. /\ pc \in [Threads -> Labels] /\ av \in [Threads -> AdvanceFrames] /\ jn \in [Threads -> JanitorFrames]
      /\ dr \in [Threads -> DropFrames] /\ op \in [Threads -> CallFrames] /\ item \in [Threads -> Nodes]
  BY DEF TypeOK
<1>1. CASE strong[item[t]] = op[t].cs
  BY <1>0, <1>1, StartEffect, StartDropWeakEffect, ReturnDropEffect DEF UpgradeCas, Goto,
     UpgradeAgain, CallFrames, DropFrames, JanitorFrames
<1>2. CASE strong[item[t]] # op[t].cs /\ op[t].cs = 0
  BY <1>0, <1>2, StartEffect, StartDropWeakEffect, ReturnDropEffect DEF UpgradeCas, Goto,
     UpgradeAgain, CallFrames, DropFrames, JanitorFrames
<1>3. CASE strong[item[t]] # op[t].cs /\ op[t].cs # 0
  BY <1>0, <1>3, StartEffect, StartDropWeakEffect, ReturnDropEffect DEF UpgradeCas, Goto,
     UpgradeAgain, CallFrames, DropFrames, JanitorFrames
<1> QED BY <1>1, <1>2, <1>3

(* Case by case, what the weak reference given back by an upgrade that     *)
(* raced changes and what it leaves alone.                                 *)
LEMMA UpgradeRaceDecWeakEffect ==
  ASSUME TypeOK, NEW t \in Threads, UpgradeRaceDecWeak(t)
  PROVE
         /\ pc[t] = "upg_race"
         /\ SubWeak(item[t])
         /\ OnlyWeak
         /\ UNCHANGED <<pd, jn, dr, op>>
         /\ Starts(t, item[t], "weak", "upg_strong")
<1>0. /\ pc \in [Threads -> Labels] /\ av \in [Threads -> AdvanceFrames] /\ jn \in [Threads -> JanitorFrames]
      /\ dr \in [Threads -> DropFrames] /\ op \in [Threads -> CallFrames] /\ item \in [Threads -> Nodes]
  BY DEF TypeOK
<1> QED BY <1>0, StartEffect, StartDropWeakEffect, ReturnDropEffect DEF UpgradeRaceDecWeak,
     UpgradeAgain, Goto, CallFrames, DropFrames, JanitorFrames

(* Case by case, what the strong reference given back by an upgrade whose  *)
(* node is no longer the newest changes and what it leaves alone.          *)
LEMMA UpgradeUndoEffect ==
  ASSUME TypeOK, NEW t \in Threads, UpgradeUndo(t)
  PROVE
         /\ pc[t] = "upg_undo"
         /\ SubStrong(item[t])
         /\ OnlyStrong
         /\ UNCHANGED <<pd, jn, dr, op>>
         /\ \/ /\ LastStrong(item[t])
               /\ pc'[t] = "upg_undo_decw"
               /\ UNCHANGED <<item, av>>
            \/ /\ ~LastStrong(item[t])
               /\ Starts(t, item[t], "weak", "upg_strong")
<1>0. /\ pc \in [Threads -> Labels] /\ av \in [Threads -> AdvanceFrames] /\ jn \in [Threads -> JanitorFrames]
      /\ dr \in [Threads -> DropFrames] /\ op \in [Threads -> CallFrames] /\ item \in [Threads -> Nodes]
  BY DEF TypeOK
<1>1. CASE LastStrong(item[t])
  BY <1>0, <1>1, StartEffect, StartDropWeakEffect, ReturnDropEffect DEF UpgradeUndo, Goto,
     UpgradeAgain, CallFrames, DropFrames, JanitorFrames
<1>2. CASE ~LastStrong(item[t])
  BY <1>0, <1>2, StartEffect, StartDropWeakEffect, ReturnDropEffect DEF UpgradeUndo, Goto,
     UpgradeAgain, CallFrames, DropFrames, JanitorFrames
<1> QED BY <1>1, <1>2

(* Case by case, what the weak reference given back after that changes and *)
(* what it leaves alone.                                                   *)
LEMMA UpgradeUndoDecWeakEffect ==
  ASSUME TypeOK, NEW t \in Threads, UpgradeUndoDecWeak(t)
  PROVE
         /\ pc[t] = "upg_undo_decw"
         /\ SubWeak(item[t])
         /\ OnlyWeak
         /\ UNCHANGED <<pd, jn, dr, op>>
         /\ Starts(t, item[t], "weak", "upg_strong")
<1>0. /\ pc \in [Threads -> Labels] /\ av \in [Threads -> AdvanceFrames] /\ jn \in [Threads -> JanitorFrames]
      /\ dr \in [Threads -> DropFrames] /\ op \in [Threads -> CallFrames] /\ item \in [Threads -> Nodes]
  BY DEF TypeOK
<1> QED BY <1>0, StartEffect, StartDropWeakEffect, ReturnDropEffect DEF UpgradeUndoDecWeak,
     UpgradeAgain, Goto, CallFrames, DropFrames, JanitorFrames

(* Case by case, what the load of the successor in get changes and what it *)
(* leaves alone.                                                           *)
LEMMA GetLoadEffect ==
  ASSUME TypeOK, NEW t \in Threads, GetLoad(t)
  PROVE
         /\ pc[t] = "get_load"
         /\ ReadOnly
         /\ UNCHANGED <<pd, dr, op>>
         /\ \/ /\ NeedsReload(op[t].f, item[t])
               /\ Starts(t, item[t], "strong", "jan_lock")
               /\ jn'[t].ret = "get_done"
            \/ /\ ~NeedsReload(op[t].f, item[t])
               /\ pc'[t] = AfterReload(op[t].f)
               /\ UNCHANGED <<item, av, jn>>
<1>0. /\ pc \in [Threads -> Labels] /\ av \in [Threads -> AdvanceFrames] /\ jn \in [Threads -> JanitorFrames]
      /\ dr \in [Threads -> DropFrames] /\ op \in [Threads -> CallFrames] /\ item \in [Threads -> Nodes]
  BY DEF TypeOK
<1>1. CASE NeedsReload(op[t].f, item[t])
  BY <1>0, <1>1, StartEffect, StartDropWeakEffect, ReturnDropEffect DEF GetLoad, ReloadAgain,
     Goto, CallFrames, DropFrames, JanitorFrames
<1>2. CASE ~NeedsReload(op[t].f, item[t])
  BY <1>0, <1>2, StartEffect, StartDropWeakEffect, ReturnDropEffect DEF GetLoad, ReloadAgain,
     Goto, CallFrames, DropFrames, JanitorFrames
<1> QED BY <1>1, <1>2

(* Case by case, what the end of get changes and what it leaves alone.     *)
LEMMA GetDoneEffect ==
  ASSUME TypeOK, NEW t \in Threads, GetDone(t)
  PROVE
         /\ pc[t] = "get_done"
         /\ ReadOnly
         /\ UNCHANGED <<pd, jn, dr, op>>
         /\ \/ /\ jn[t].rerun
               /\ Starts(t, item[t], "strong", "jan_lock")
            \/ /\ ~jn[t].rerun
               /\ pc'[t] = AfterReload(op[t].f)
               /\ UNCHANGED <<item, av>>
<1>0. /\ pc \in [Threads -> Labels] /\ av \in [Threads -> AdvanceFrames] /\ jn \in [Threads -> JanitorFrames]
      /\ dr \in [Threads -> DropFrames] /\ op \in [Threads -> CallFrames] /\ item \in [Threads -> Nodes]
  BY DEF TypeOK
<1>1. CASE jn[t].rerun
  BY <1>0, <1>1, StartEffect, StartDropWeakEffect, ReturnDropEffect DEF GetDone, ReloadAgain,
     Goto, CallFrames, DropFrames, JanitorFrames
<1>2. CASE ~jn[t].rerun
  BY <1>0, <1>2, StartEffect, StartDropWeakEffect, ReturnDropEffect DEF GetDone, ReloadAgain,
     Goto, CallFrames, DropFrames, JanitorFrames
<1> QED BY <1>1, <1>2

(* Case by case, what the second look at the successor in shared_get       *)
(* changes and what it leaves alone.                                       *)
LEMMA SharedGetRecheckEffect ==
  ASSUME TypeOK, NEW t \in Threads, SharedGetRecheck(t)
  PROVE
         /\ pc[t] = "sg_recheck"
         /\ ReadOnly
         /\ UNCHANGED <<pd, jn, op>>
         /\ \/ /\ HasNext(op[t].nxt)
               /\ Starts(t, op[t].nxt, "strong", "ds_dec")
               /\ dr'[t] = [IdleDrop EXCEPT !.ret = "sg_dec"]
            \/ /\ ~HasNext(op[t].nxt)
               /\ pc'[t] = "sg_light"
               /\ UNCHANGED <<item, av, dr>>
<1>0. /\ pc \in [Threads -> Labels] /\ av \in [Threads -> AdvanceFrames] /\ jn \in [Threads -> JanitorFrames]
      /\ dr \in [Threads -> DropFrames] /\ op \in [Threads -> CallFrames] /\ item \in [Threads -> Nodes]
  BY DEF TypeOK
<1>1. CASE HasNext(op[t].nxt)
  BY <1>0, <1>1, StartEffect, StartDropWeakEffect, ReturnDropEffect DEF SharedGetRecheck,
     StartDropStrong, Goto, CallFrames, DropFrames, JanitorFrames
<1>2. CASE ~HasNext(op[t].nxt)
  BY <1>0, <1>2, StartEffect, StartDropWeakEffect, ReturnDropEffect DEF SharedGetRecheck,
     StartDropStrong, Goto, CallFrames, DropFrames, JanitorFrames
<1> QED BY <1>1, <1>2

(* Case by case, what the strong reference that shared_get takes on its    *)
(* base node changes and what it leaves alone.                             *)
LEMMA SharedGetCloneEffect ==
  ASSUME TypeOK, NEW t \in Threads, SharedGetClone(t)
  PROVE
         /\ pc[t] = "sg_clone"
         /\ AddStrong(Base(t))
         /\ OnlyStrong
         /\ UNCHANGED <<pd, jn, dr>>
         /\ Starts(t, Base(t), "strong", "reading")
         /\ op'[t] = [op[t] EXCEPT !.guard = "full"]
<1>0. /\ pc \in [Threads -> Labels] /\ av \in [Threads -> AdvanceFrames] /\ jn \in [Threads -> JanitorFrames]
      /\ dr \in [Threads -> DropFrames] /\ op \in [Threads -> CallFrames] /\ item \in [Threads -> Nodes]
  BY DEF TypeOK
<1> QED BY <1>0, StartEffect, StartDropWeakEffect, ReturnDropEffect DEF SharedGetClone, Goto,
     CallFrames, DropFrames, JanitorFrames

(* Case by case, what the end of a read changes and what it leaves alone.  *)
LEMMA FinishReadingEffect ==
  ASSUME TypeOK, NEW t \in Threads, FinishReading(t)
  PROVE
         /\ pc[t] \in {"reading", "mutref"}
         /\ ReadOnly
         /\ UNCHANGED <<pd, jn, op>>
         /\ \/ /\ op[t].guard \in {"light", "full"}
               /\ Starts(t, item[t], "strong", "ds_dec")
               /\ dr'[t] = [IdleDrop EXCEPT !.ret = "ret"]
            \/ /\ op[t].guard \notin {"light", "full"}
               /\ pc'[t] = "ret"
               /\ UNCHANGED <<item, av, dr>>
<1>0. /\ pc \in [Threads -> Labels] /\ av \in [Threads -> AdvanceFrames] /\ jn \in [Threads -> JanitorFrames]
      /\ dr \in [Threads -> DropFrames] /\ op \in [Threads -> CallFrames] /\ item \in [Threads -> Nodes]
  BY DEF TypeOK
<1>1. CASE op[t].guard \in {"light", "full"}
  BY <1>0, <1>1, StartEffect, StartDropWeakEffect, ReturnDropEffect DEF FinishReading,
     StartDropStrong, Goto, CallFrames, DropFrames, JanitorFrames
<1>2. CASE op[t].guard \notin {"light", "full"}
  BY <1>0, <1>2, StartEffect, StartDropWeakEffect, ReturnDropEffect DEF FinishReading,
     StartDropStrong, Goto, CallFrames, DropFrames, JanitorFrames
<1> QED BY <1>1, <1>2

(* ---- calls ---- *)
(* What every call that enters a function sets. *)
Entered(t, f, h, o, v) ==
  /\ pc[t] = "idle" /\ UNCHANGED <<stamp, count, pd>>
  /\ op'[t].f = f /\ op'[t].hnd = h /\ op'[t].out = o /\ op'[t].val = v /\ op'[t].nxt = IdleNode
  /\ op'[t].ok /\ op'[t].guard = "none" /\ op'[t].cs = 0

(* Case by case, what the entry of a call changes and what it leaves       *)
(* alone.                                                                  *)
LEMMA EnterEffect ==
  ASSUME TypeOK, NEW t \in Threads, NEW f, NEW h, NEW o, NEW v, Enter(t, f, h, o, v)
  PROVE  Entered(t, f, h, o, v)
  BY DEF TypeOK, Enter, Admitted, IdleOp, Entered

(* Case by case, what clone of a strong handle changes and what it leaves  *)
(* alone.                                                                  *)
LEMMA CloneEffect ==
  ASSUME TypeOK, NEW t \in Threads, NEW h \in Handles, NEW o \in Handles, Clone(t, h, o)
  PROVE
         /\ Entered(t, "clone", h, o, Null)
         /\ handle[h].kind = "strong"
         /\ handle[o].kind = "none"
         /\ handle' = [handle EXCEPT ![o] = Busy]
         /\ AddStrong(handle[h].node)
         /\ Starts(t, handle[h].node, "strong", "ret")
         /\ UNCHANGED <<next, prev, weak, adv, mem, drops, jn, dr>>
<1> QED BY EnterEffect, StartEffect, StartDropWeakEffect DEF Clone, Borrow, Reserve, Goto,
     TypeOK

(* Case by case, what clone of a weak handle changes and what it leaves    *)
(* alone.                                                                  *)
LEMMA CloneWeakEffect ==
  ASSUME TypeOK, NEW t \in Threads, NEW f, NEW h \in Handles, NEW o \in Handles, CloneWeak(t, f, h, o)
  PROVE
         /\ pc[t] = "idle"
         /\ handle[h].kind = IF f = "downgrade" THEN "strong" ELSE "weak"
         /\ handle[o].kind = "none"
         /\ handle' = [handle EXCEPT ![o] = [kind |-> "weak", node |-> handle[h].node]]
         /\ AddWeak(handle[h].node)
         /\ UNCHANGED <<next, prev, strong, adv, mem, drops, stamp, count, pc, locals>>
<1> QED BY EnterEffect, StartEffect, StartDropWeakEffect DEF CloneWeak, Borrow, Goto, Admitted,
     locals, TypeOK

(* Case by case, what the entry of upgrade changes and what it leaves      *)
(* alone.                                                                  *)
LEMMA UpgradeEffect ==
  ASSUME TypeOK, NEW t \in Threads, NEW h \in Handles, NEW o \in Handles, Upgrade(t, h, o)
  PROVE
         /\ Entered(t, "upgrade", h, o, Null)
         /\ handle[h].kind = "weak"
         /\ handle[o].kind = "none"
         /\ handle' = [handle EXCEPT ![o] = Busy]
         /\ AddWeak(handle[h].node)
         /\ Starts(t, handle[h].node, "weak", "upg_strong")
         /\ UNCHANGED <<next, prev, strong, adv, mem, drops, jn, dr>>
<1> QED BY EnterEffect, StartEffect, StartDropWeakEffect DEF Upgrade, Borrow, Reserve, Goto,
     TypeOK

(* Case by case, what the entry of update changes and what it leaves       *)
(* alone.                                                                  *)
LEMMA UpdateEffect ==
  ASSUME TypeOK, NEW t \in Threads, NEW h \in Handles, Update(t, h)
  PROVE
         /\ Unused # {}
         /\ Entered(t, "update", h, h, FreshNode)
         /\ handle[h].kind = "strong"
         /\ \A u \in Threads : pc[u] # "idle" => op[u].hnd # h
         /\ handle' = [handle EXCEPT ![h] = Busy]
         /\ NewHolder(FreshNode, handle[h].node)
         /\ Starts(t, handle[h].node, "strong", "upd_next")
         /\ UNCHANGED <<next, adv, drops, jn, dr>>
<1> QED BY EnterEffect, StartEffect, StartDropWeakEffect DEF Update, Take, Goto, TypeOK

(* Case by case, what the entry of rcu changes and what it leaves alone.   *)
LEMMA RcuEffect ==
  ASSUME TypeOK, NEW t \in Threads, NEW h \in Handles, Rcu(t, h)
  PROVE
         /\ Entered(t, "rcu", h, h, Null)
         /\ handle[h].kind = "strong"
         /\ \A u \in Threads : pc[u] # "idle" => op[u].hnd # h
         /\ handle' = [handle EXCEPT ![h] = Busy]
         /\ Starts(t, handle[h].node, "strong", "upd_next")
         /\ UNCHANGED <<heap, jn, dr>>
<1> QED BY EnterEffect, StartEffect, StartDropWeakEffect DEF Rcu, Take, Goto, heap, TypeOK

(* Case by case, what the drop of a strong handle changes and what it      *)
(* leaves alone.                                                           *)
LEMMA DropShiftEffect ==
  ASSUME TypeOK, NEW t \in Threads, NEW f, NEW h \in Handles, DropShift(t, f, h)
  PROVE
         /\ f \in {"drop", "intoInner"}
         /\ Entered(t, f, h, h, Null)
         /\ handle[h].kind = "strong"
         /\ \A u \in Threads : pc[u] # "idle" => op[u].hnd # h
         /\ handle' = [handle EXCEPT ![h] = Busy]
         /\ Starts(t, handle[h].node, "strong", "ds_dec")
         /\ dr'[t] = [IdleDrop EXCEPT !.ret = "ret"]
         /\ UNCHANGED <<heap, jn>>
<1> QED BY EnterEffect, StartEffect, StartDropWeakEffect DEF DropShift, Take, StartDropStrong,
     Goto, heap, TypeOK

(* Case by case, what the drop of a weak handle changes and what it leaves *)
(* alone.                                                                  *)
LEMMA DropShiftWeakEffect ==
  ASSUME TypeOK, NEW t \in Threads, NEW h \in Handles, DropShiftWeak(t, h)
  PROVE
         /\ Entered(t, "dropWeak", h, h, Null)
         /\ handle[h].kind = "weak"
         /\ \A u \in Threads : pc[u] # "idle" => op[u].hnd # h
         /\ handle' = [handle EXCEPT ![h] = Busy]
         /\ Starts(t, handle[h].node, "weak", "jan_lock")
         /\ jn'[t] = [IdleJanitor EXCEPT !.ret = "dw_weak"]
         /\ dr'[t] = [IdleDrop EXCEPT !.ret = "ret"]
         /\ UNCHANGED heap
<1> QED BY EnterEffect, StartEffect, StartDropWeakEffect DEF DropShiftWeak, Take, Goto, heap,
     TypeOK

(* Case by case, what the entry of reload changes and what it leaves       *)
(* alone.                                                                  *)
LEMMA ReloadEffect ==
  ASSUME TypeOK, NEW t \in Threads, NEW f, NEW h \in Handles, Reload(t, f, h)
  PROVE
         /\ f \in {"get", "reload", "tryGetMut"}
         /\ Entered(t, f, h, h, Null)
         /\ handle[h].kind = "strong"
         /\ \A u \in Threads : pc[u] # "idle" => op[u].hnd # h
         /\ handle' = [handle EXCEPT ![h] = Busy]
         /\ item'[t] = handle[h].node
         /\ pc'[t] = "get_load"
         /\ UNCHANGED <<heap, av, jn, dr>>
<1> QED BY EnterEffect, StartEffect, StartDropWeakEffect DEF Reload, Take, Goto, heap, TypeOK

(* Case by case, what the entry of shared_get changes and what it leaves   *)
(* alone.                                                                  *)
LEMMA SharedGetEffect ==
  ASSUME TypeOK, NEW t \in Threads, NEW h \in Handles, SharedGet(t, h)
  PROVE
         /\ Entered(t, "sharedGet", h, h, Null)
         /\ handle[h].kind = "strong"
         /\ pc'[t] = "sg_load"
         /\ UNCHANGED <<heap, handle, item, av, jn, dr>>
<1> QED BY EnterEffect, StartEffect, StartDropWeakEffect DEF SharedGet, Borrow, Goto, heap,
     TypeOK

-----------------------------------------------------------------------------
(* What each step of a janitor does, field by field.                       *)

(* What a step does to the words next. *)
KeepsLocks == \A n \in Nodes : next'[n].locked = next[n].locked
KeepsPtrs == \A n \in Nodes : next'[n].ptr = next[n].ptr
KeepsNext == KeepsLocks /\ KeepsPtrs
Locks(m) == KeepsPtrs /\ \A n \in Nodes : next'[n].locked = (next[n].locked \/ n = m)
Unlocks(m) == KeepsPtrs /\ \A n \in Nodes : next'[n].locked = (next[n].locked /\ n # m)
Redirects(m, k) == \A n \in Nodes : next'[n].ptr = IF n = m THEN k ELSE next[n].ptr

(* The flags of a word are set and cleared apart from its pointer. *)
LEMMA WordMoves ==
  ASSUME next \in [Nodes -> NextWords], NEW m \in Nodes
  PROVE  /\ Lock(m) => Locks(m)
         /\ Unlock(m) => Unlocks(m)
         /\ Disturb(m) => KeepsNext
         /\ UNCHANGED next => KeepsNext
<1>1. ASSUME NEW n \in Nodes
      PROVE  next[n] \in NextWords /\ next[n].locked \in BOOLEAN
  BY DEF NextWords
<1>2. ASSUME Lock(m), NEW n \in Nodes
      PROVE  next'[n].ptr = next[n].ptr /\ next'[n].locked = (next[n].locked \/ n = m)
  <2>1. CASE n = m
    BY <1>1, <1>2, <2>1 DEF Lock, NextWords
  <2>2. CASE n # m
    BY <1>1, <1>2, <2>2 DEF Lock
  <2> QED BY <2>1, <2>2
<1>3. ASSUME Unlock(m), NEW n \in Nodes
      PROVE  next'[n].ptr = next[n].ptr /\ next'[n].locked = (next[n].locked /\ n # m)
  <2>1. CASE n = m
    BY <1>1, <1>3, <2>1 DEF Unlock, NextWords
  <2>2. CASE n # m
    BY <1>1, <1>3, <2>2 DEF Unlock
  <2> QED BY <2>1, <2>2
<1>4. ASSUME Disturb(m), NEW n \in Nodes
      PROVE  next'[n].ptr = next[n].ptr /\ next'[n].locked = next[n].locked
  <2>1. CASE n = m
    BY <1>1, <1>4, <2>1 DEF Disturb, NextWords
  <2>2. CASE n # m
    BY <1>1, <1>4, <2>2 DEF Disturb
  <2> QED BY <2>1, <2>2
<1> QED BY <1>2, <1>3, <1>4 DEF Locks, Unlocks, KeepsNext, KeepsLocks, KeepsPtrs

(* The effect of JanitorLockStart. *)
LEMMA JanitorLockStartMoves ==
  ASSUME TypeOK, NEW t \in Threads, JanitorLockStart(t)
  PROVE
         /\ pc[t] = "jan_lock"
         /\ UNCHANGED <<stamp, count, handle, item, av, pd, dr>>
         /\ UNCHANGED <<mem, prev>>
         /\ \/ /\ next[item[t]].locked
               /\ KeepsNext
               /\ pc'[t] = jn[t].ret
            \/ /\ ~next[item[t]].locked
               /\ Locks(item[t])
               /\ pc'[t] = IF prev[item[t]] = Null THEN "jan_unlock" ELSE "jan_sweep"
               /\ jn'[t].cur = prev[item[t]] /\ jn'[t].cand = prev[item[t]] /\ jn'[t].prv = jn'[t].prv
               /\ jn'[t].fail = Null /\ jn'[t].rdel = Null /\ jn'[t].right = Null /\ jn'[t].carry = Null
               /\ jn'[t].del = Null /\ jn'[t].seen = FALSE /\ jn'[t].ret = jn[t].ret
<1>0. /\ pc \in [Threads -> Labels] /\ jn \in [Threads -> JanitorFrames] /\ next \in [Nodes -> NextWords]
      /\ prev \in [Nodes -> Ptrs] /\ weak \in [Nodes -> WeakWords]
  BY DEF TypeOK
<1>1. item[t] \in Nodes
  BY DEF TypeOK
<1>2. /\ (Lock(item[t]) => Locks(item[t])) /\ (Unlock(item[t]) => Unlocks(item[t])) /\ (Disturb(item[t]) => KeepsNext)
      /\ UNCHANGED next => KeepsNext
  <2>1. UNCHANGED next => KeepsNext
    BY DEF KeepsNext, KeepsLocks, KeepsPtrs
  <2> QED BY <1>0, <1>1, <2>1, WordMoves
<1> QED BY <1>1, <1>2, JanitorLockStartEffect DEF OnlyNext, client

(* The effect of JanitorSweep. *)
LEMMA JanitorSweepMoves ==
  ASSUME TypeOK, NEW t \in Threads, jn[t].cur \in Nodes, JanitorSweep(t)
  PROVE
         /\ pc[t] = "jan_sweep"
         /\ UNCHANGED <<stamp, count, handle, item, av, pd, dr>>
         /\ UNCHANGED <<mem, prev>>
         /\ \/ /\ next[jn[t].cur].locked
               /\ KeepsNext
               /\ pc'[t] = "jan_clean"
               /\ jn'[t].cur = jn[t].cand /\ jn'[t].cand = jn[t].cand /\ jn'[t].prv = jn[t].prv
               /\ jn'[t].fail = jn[t].cur /\ jn'[t].rdel = jn[t].rdel /\ jn'[t].right = jn[t].right
               /\ jn'[t].carry = jn[t].carry /\ jn'[t].del = jn[t].del /\ jn'[t].seen = jn[t].seen
               /\ jn'[t].ret = jn[t].ret
            \/ /\ ~next[jn[t].cur].locked
               /\ prev[jn[t].cur] = Null
               /\ Locks(jn[t].cur)
               /\ pc'[t] = "jan_strong"
               /\ jn'[t].cur = jn[t].cand /\ jn'[t].cand = jn[t].cand /\ jn'[t].prv = jn[t].prv
               /\ jn'[t].fail = jn[t].fail /\ jn'[t].rdel = jn[t].rdel /\ jn'[t].right = jn[t].right
               /\ jn'[t].carry = jn[t].carry /\ jn'[t].del = jn[t].del /\ jn'[t].seen = jn[t].seen
               /\ jn'[t].ret = jn[t].ret
            \/ /\ ~next[jn[t].cur].locked
               /\ prev[jn[t].cur] # Null
               /\ Locks(jn[t].cur)
               /\ pc'[t] = "jan_sweep"
               /\ jn'[t].cur = prev[jn[t].cur] /\ jn'[t].cand = jn[t].cand /\ jn'[t].prv = jn[t].prv
               /\ jn'[t].fail = jn[t].fail /\ jn'[t].rdel = jn[t].rdel /\ jn'[t].right = jn[t].right
               /\ jn'[t].carry = jn[t].carry /\ jn'[t].del = jn[t].del /\ jn'[t].seen = jn[t].seen
               /\ jn'[t].ret = jn[t].ret
<1>0. /\ pc \in [Threads -> Labels] /\ jn \in [Threads -> JanitorFrames] /\ next \in [Nodes -> NextWords]
      /\ prev \in [Nodes -> Ptrs] /\ weak \in [Nodes -> WeakWords]
  BY DEF TypeOK
<1>1. jn[t].cur \in Nodes
  BY DEF TypeOK
<1>2. /\ (Lock(jn[t].cur) => Locks(jn[t].cur)) /\ (Unlock(jn[t].cur) => Unlocks(jn[t].cur)) /\ (Disturb(jn[t].cur) => KeepsNext)
      /\ UNCHANGED next => KeepsNext
  <2>1. UNCHANGED next => KeepsNext
    BY DEF KeepsNext, KeepsLocks, KeepsPtrs
  <2> QED BY <1>0, <1>1, <2>1, WordMoves
<1> QED BY SMTT(60), <1>0, <1>1, <1>2 DEF JanitorSweep, Janitor, Goto, OnlyNext, JanitorFrames,
     NextWords, client, heap, IdleJanitor, WeakWords, OnlyPrev, OnlyWeak, ReadOnly,
     ReturnJanitor, AdvanceInProgress, Deletable

(* The effect of JanitorCleanup. *)
LEMMA JanitorCleanupMoves ==
  ASSUME TypeOK, NEW t \in Threads, JanitorCleanup(t)
  PROVE
         /\ pc[t] = "jan_clean"
         /\ UNCHANGED <<stamp, count, handle, item, av, pd, dr>>
         /\ UNCHANGED <<mem, prev>>
         /\ \/ /\ jn[t].cur # jn[t].fail
               /\ jn[t].cur # Null
               /\ Unlocks(jn[t].cur)
               /\ pc'[t] = "jan_clean"
               /\ jn'[t].cur = prev[jn[t].cur] /\ jn'[t].cand = jn[t].cand /\ jn'[t].prv = jn[t].prv
               /\ jn'[t].fail = jn[t].fail /\ jn'[t].rdel = jn[t].rdel /\ jn'[t].right = jn[t].right
               /\ jn'[t].carry = jn[t].carry /\ jn'[t].del = jn[t].del /\ jn'[t].seen = jn[t].seen
               /\ jn'[t].ret = jn[t].ret
            \/ /\ jn[t].cur \in {jn[t].fail, Null}
               /\ KeepsNext
               /\ pc'[t] = "jan_unlock"
               /\ jn'[t].cur = Null /\ jn'[t].cand = jn[t].cand /\ jn'[t].prv = jn[t].prv /\ jn'[t].fail = jn[t].fail
               /\ jn'[t].rdel = jn[t].rdel /\ jn'[t].right = jn[t].right /\ jn'[t].carry = jn[t].carry
               /\ jn'[t].del = jn[t].del /\ jn'[t].seen = jn[t].seen /\ jn'[t].ret = jn[t].ret
<1>0. /\ pc \in [Threads -> Labels] /\ jn \in [Threads -> JanitorFrames] /\ next \in [Nodes -> NextWords]
      /\ prev \in [Nodes -> Ptrs] /\ weak \in [Nodes -> WeakWords]
  BY DEF TypeOK
<1>1. jn[t].cur # Null => jn[t].cur \in Nodes
  BY <1>0 DEF JanitorFrames, Ptrs
<1>2. /\ jn[t].cur # Null => (Lock(jn[t].cur) => Locks(jn[t].cur)) /\ (Unlock(jn[t].cur) => Unlocks(jn[t].cur)) /\ (Disturb(jn[t].cur) => KeepsNext)
      /\ UNCHANGED next => KeepsNext
  <2>1. UNCHANGED next => KeepsNext
    BY DEF KeepsNext, KeepsLocks, KeepsPtrs
  <2> QED BY <1>0, <1>1, <2>1, WordMoves
<1> QED BY SMTT(60), <1>0, <1>1, <1>2 DEF JanitorCleanup, Janitor, Goto, OnlyNext,
     JanitorFrames, NextWords, client, heap, IdleJanitor, WeakWords, OnlyPrev, OnlyWeak,
     ReadOnly, ReturnJanitor, AdvanceInProgress, Deletable

(* The effect of JanitorUnlockStart. *)
LEMMA JanitorUnlockStartMoves ==
  ASSUME TypeOK, NEW t \in Threads, JanitorUnlockStart(t)
  PROVE
         /\ pc[t] = "jan_unlock"
         /\ UNCHANGED <<stamp, count, handle, item, av, pd, dr>>
         /\ UNCHANGED <<mem, prev>>
         /\ Unlocks(item[t])
         /\ pc'[t] = jn[t].ret
<1>0. /\ pc \in [Threads -> Labels] /\ jn \in [Threads -> JanitorFrames] /\ next \in [Nodes -> NextWords]
      /\ prev \in [Nodes -> Ptrs] /\ weak \in [Nodes -> WeakWords]
  BY DEF TypeOK
<1>1. item[t] \in Nodes
  BY DEF TypeOK
<1>2. /\ (Lock(item[t]) => Locks(item[t])) /\ (Unlock(item[t]) => Unlocks(item[t])) /\ (Disturb(item[t]) => KeepsNext)
      /\ UNCHANGED next => KeepsNext
  <2>1. UNCHANGED next => KeepsNext
    BY DEF KeepsNext, KeepsLocks, KeepsPtrs
  <2> QED BY <1>0, <1>1, <2>1, WordMoves
<1> QED BY SMTT(60), <1>0, <1>1, <1>2 DEF JanitorUnlockStart, Janitor, ReturnJanitor, OnlyNext,
     Goto, JanitorFrames, NextWords, client, heap, IdleJanitor, WeakWords, OnlyPrev, OnlyWeak,
     ReadOnly, AdvanceInProgress, Deletable

(* The effect of JanitorStrong. *)
LEMMA JanitorStrongMoves ==
  ASSUME TypeOK, NEW t \in Threads, JanitorStrong(t)
  PROVE
         /\ pc[t] = "jan_strong"
         /\ UNCHANGED <<stamp, count, handle, item, av, pd, dr>>
         /\ UNCHANGED <<mem, prev>>
         /\ KeepsNext
         /\ UNCHANGED <<next, strong, weak, adv>>
         /\ \/ /\ prev[jn[t].cur] # Null
               /\ pc'[t] = "jan_setnext"
               /\ jn'[t].cur = jn[t].cur /\ jn'[t].cand = jn[t].cand /\ jn'[t].prv = prev[jn[t].cur]
               /\ jn'[t].fail = jn[t].fail /\ jn'[t].rdel = jn[t].rdel /\ jn'[t].right = jn[t].right
               /\ jn'[t].carry = jn[t].carry /\ jn'[t].del = jn[t].del
               /\ jn'[t].seen = (jn[t].seen \/ LiveStrong(strong[jn[t].cur]) > 0) /\ jn'[t].ret = jn[t].ret
            \/ /\ prev[jn[t].cur] = Null
               /\ pc'[t] = "jan_final"
               /\ jn'[t].cur = jn[t].cand /\ jn'[t].cand = jn[t].cand /\ jn'[t].prv = jn[t].prv
               /\ jn'[t].fail = jn[t].fail /\ jn'[t].rdel = jn[t].rdel /\ jn'[t].right = item[t]
               /\ jn'[t].carry = jn[t].carry /\ jn'[t].del = jn[t].del
               /\ jn'[t].seen = (jn[t].seen \/ LiveStrong(strong[jn[t].cur]) > 0) /\ jn'[t].ret = jn[t].ret
<1>0. /\ pc \in [Threads -> Labels] /\ jn \in [Threads -> JanitorFrames] /\ next \in [Nodes -> NextWords]
      /\ prev \in [Nodes -> Ptrs] /\ weak \in [Nodes -> WeakWords]
  BY DEF TypeOK
<1> QED BY SMTT(60), <1>0 DEF JanitorStrong, Janitor, Goto, ReadOnly, KeepsLocks, KeepsPtrs,
     KeepsNext, Redirects, JanitorFrames, NextWords, client, heap, IdleJanitor, WeakWords,
     OnlyNext, OnlyPrev, OnlyWeak, SetNext, ReturnJanitor, AdvanceInProgress, Deletable

(* The effect of JanitorSetNext. *)
LEMMA JanitorSetNextMoves ==
  ASSUME TypeOK, NEW t \in Threads, JanitorSetNext(t)
  PROVE
         /\ pc[t] = "jan_setnext"
         /\ UNCHANGED <<stamp, count, handle, item, av, pd, dr>>
         /\ UNCHANGED <<mem, prev>>
         /\ KeepsLocks
         /\ Redirects(jn[t].prv, item[t])
         /\ pc'[t] = "jan_adv"
         /\ jn'[t].cur = jn[t].cur /\ jn'[t].cand = jn[t].cand /\ jn'[t].prv = jn[t].prv
         /\ jn'[t].fail = jn[t].fail /\ jn'[t].rdel = jn[t].rdel /\ jn'[t].right = jn[t].right
         /\ jn'[t].carry = jn[t].carry /\ jn'[t].del = jn[t].del /\ jn'[t].seen = jn[t].seen
         /\ jn'[t].ret = jn[t].ret
<1>0. /\ pc \in [Threads -> Labels] /\ jn \in [Threads -> JanitorFrames] /\ next \in [Nodes -> NextWords]
      /\ prev \in [Nodes -> Ptrs] /\ weak \in [Nodes -> WeakWords]
  BY DEF TypeOK
<1> QED BY SMTT(60), <1>0 DEF JanitorSetNext, Janitor, SetNext, Goto, OnlyNext, KeepsLocks,
     KeepsPtrs, KeepsNext, Redirects, JanitorFrames, NextWords, client, heap, IdleJanitor,
     WeakWords, OnlyPrev, OnlyWeak, ReadOnly, ReturnJanitor, AdvanceInProgress, Deletable

(* The effect of JanitorCheckAdvance. *)
LEMMA JanitorCheckAdvanceMoves ==
  ASSUME TypeOK, NEW t \in Threads, JanitorCheckAdvance(t)
  PROVE
         /\ pc[t] = "jan_adv"
         /\ UNCHANGED <<stamp, count, handle, item, av, pd, dr>>
         /\ UNCHANGED <<mem, prev>>
         /\ KeepsNext
         /\ pc'[t] = "jan_strong"
         /\ jn'[t].cur = jn[t].prv /\ jn'[t].cand = jn[t].cand /\ jn'[t].prv = jn[t].prv
         /\ jn'[t].fail = jn[t].fail /\ jn'[t].rdel = (IF adv[jn[t].prv] > 0 THEN jn[t].cur ELSE jn[t].rdel)
         /\ jn'[t].right = jn[t].right /\ jn'[t].carry = jn[t].carry /\ jn'[t].del = jn[t].del
         /\ jn'[t].seen = jn[t].seen /\ jn'[t].ret = jn[t].ret
<1>0. /\ pc \in [Threads -> Labels] /\ jn \in [Threads -> JanitorFrames] /\ next \in [Nodes -> NextWords]
      /\ prev \in [Nodes -> Ptrs] /\ weak \in [Nodes -> WeakWords]
  BY DEF TypeOK
<1> QED BY SMTT(60), <1>0 DEF JanitorCheckAdvance, Janitor, Goto, ReadOnly, KeepsLocks,
     KeepsPtrs, KeepsNext, Redirects, JanitorFrames, NextWords, client, heap, IdleJanitor,
     WeakWords, OnlyNext, OnlyPrev, OnlyWeak, SetNext, ReturnJanitor, AdvanceInProgress,
     Deletable

(* The effect of JanitorFinal. *)
LEMMA JanitorFinalMoves ==
  ASSUME TypeOK, NEW t \in Threads, JanitorFinal(t)
  PROVE
         /\ pc[t] = "jan_final"
         /\ UNCHANGED <<stamp, count, handle, item, av, pd, dr>>
         /\ UNCHANGED <<mem, prev>>
         /\ KeepsNext
         /\ \/ /\ jn[t].rdel = Null
               /\ pc'[t] = "jan_del"
               /\ jn'[t].cur = jn[t].cur /\ jn'[t].cand = jn[t].cand /\ jn'[t].prv = jn[t].prv
               /\ jn'[t].fail = jn[t].fail /\ jn'[t].rdel = jn[t].rdel /\ jn'[t].right = jn[t].right
               /\ jn'[t].carry = jn[t].carry /\ jn'[t].del = jn[t].cur /\ jn'[t].seen = jn[t].seen
               /\ jn'[t].ret = jn[t].ret
            \/ /\ jn[t].rdel # Null
               /\ pc'[t] = "jan_carry"
               /\ jn'[t].cur = jn[t].cur /\ jn'[t].cand = jn[t].cand /\ jn'[t].prv = jn[t].prv
               /\ jn'[t].fail = jn[t].fail /\ jn'[t].rdel = (IF jn[t].rdel = jn[t].cur THEN Null ELSE jn[t].rdel)
               /\ jn'[t].right = jn[t].cur /\ jn'[t].carry = jn[t].carry /\ jn'[t].del = jn[t].del
               /\ jn'[t].seen = jn[t].seen /\ jn'[t].ret = jn[t].ret
<1>0. /\ pc \in [Threads -> Labels] /\ jn \in [Threads -> JanitorFrames] /\ next \in [Nodes -> NextWords]
      /\ prev \in [Nodes -> Ptrs] /\ weak \in [Nodes -> WeakWords]
  BY DEF TypeOK
<1> QED BY SMTT(60), <1>0 DEF JanitorFinal, Janitor, Goto, ReadOnly, KeepsLocks, KeepsPtrs,
     KeepsNext, Redirects, JanitorFrames, NextWords, client, heap, IdleJanitor, WeakWords,
     OnlyNext, OnlyPrev, OnlyWeak, SetNext, ReturnJanitor, AdvanceInProgress, Deletable

(* The effect of JanitorDelete. *)
LEMMA JanitorDeleteMoves ==
  ASSUME TypeOK, NEW t \in Threads, JanitorDelete(t)
  PROVE
         /\ pc[t] = "jan_del"
         /\ UNCHANGED <<stamp, count, handle, item, av, pd, dr>>
         /\ UNCHANGED <<mem, prev>>
         /\ KeepsNext
         /\ UNCHANGED <<next, strong, weak, adv>>
         /\ \/ /\ weak[jn[t].del].count <= 1
               /\ pc'[t] = "jan_free"
               /\ jn'[t].cur = jn[t].cur /\ jn'[t].cand = jn[t].cand /\ jn'[t].prv = jn[t].prv
               /\ jn'[t].fail = jn[t].fail /\ jn'[t].rdel = jn[t].rdel /\ jn'[t].right = jn[t].right
               /\ jn'[t].carry = jn[t].carry /\ jn'[t].del = jn[t].del /\ jn'[t].seen = jn[t].seen
               /\ jn'[t].ret = jn[t].ret
            \/ /\ ~(weak[jn[t].del].count <= 1)
               /\ jn[t].del # jn[t].cur
               /\ pc'[t] = "jan_unlink"
               /\ jn'[t].cur = jn[t].cur /\ jn'[t].cand = jn[t].cand /\ jn'[t].prv = jn[t].prv
               /\ jn'[t].fail = jn[t].fail /\ jn'[t].rdel = jn[t].rdel /\ jn'[t].right = jn[t].right
               /\ jn'[t].carry = jn[t].carry /\ jn'[t].del = jn[t].del /\ jn'[t].seen = jn[t].seen
               /\ jn'[t].ret = jn[t].ret
            \/ /\ ~(weak[jn[t].del].count <= 1)
               /\ jn[t].del = jn[t].cur
               /\ pc'[t] = "jan_carry"
               /\ jn'[t].cur = jn[t].cur /\ jn'[t].cand = jn[t].cand /\ jn'[t].prv = jn[t].prv
               /\ jn'[t].fail = jn[t].fail /\ jn'[t].rdel = jn[t].rdel /\ jn'[t].right = jn[t].del
               /\ jn'[t].carry = jn[t].carry /\ jn'[t].del = jn[t].del /\ jn'[t].seen = jn[t].seen
               /\ jn'[t].ret = jn[t].ret
<1>0. /\ pc \in [Threads -> Labels] /\ jn \in [Threads -> JanitorFrames] /\ next \in [Nodes -> NextWords]
      /\ prev \in [Nodes -> Ptrs] /\ weak \in [Nodes -> WeakWords]
  BY DEF TypeOK
<1> QED BY SMTT(60), <1>0 DEF JanitorDelete, Janitor, Goto, ReadOnly, KeepsLocks, KeepsPtrs,
     KeepsNext, Redirects, JanitorFrames, NextWords, client, heap, IdleJanitor, WeakWords,
     OnlyNext, OnlyPrev, OnlyWeak, SetNext, ReturnJanitor, AdvanceInProgress, Deletable

(* The effect of JanitorFree. *)
LEMMA JanitorFreeMoves ==
  ASSUME TypeOK, NEW t \in Threads, JanitorFree(t)
  PROVE
         /\ pc[t] = "jan_free"
         /\ UNCHANGED <<stamp, count, handle, item, av, pd, dr>>
         /\ UNCHANGED <<next, prev, strong, weak, adv>>
         /\ KeepsNext
         /\ mem' = [mem EXCEPT ![jn[t].del] = "freed"]
         /\ pc'[t] = IF prev[jn[t].del] = Null THEN "jan_clearprev" ELSE "jan_del"
         /\ jn'[t].cur = jn[t].cur /\ jn'[t].cand = jn[t].cand /\ jn'[t].prv = jn[t].prv
         /\ jn'[t].fail = jn[t].fail /\ jn'[t].rdel = jn[t].rdel /\ jn'[t].right = jn[t].right
         /\ jn'[t].carry = jn[t].carry /\ jn'[t].del = prev[jn[t].del] /\ jn'[t].seen = jn[t].seen
         /\ jn'[t].ret = jn[t].ret
<1>0. /\ pc \in [Threads -> Labels] /\ jn \in [Threads -> JanitorFrames] /\ next \in [Nodes -> NextWords]
      /\ prev \in [Nodes -> Ptrs] /\ weak \in [Nodes -> WeakWords]
  BY DEF TypeOK
<1> QED BY SMTT(60), <1>0 DEF JanitorFree, Janitor, Deallocate, Goto, DropPayload, KeepsLocks,
     KeepsPtrs, KeepsNext, Redirects, JanitorFrames, NextWords, client, heap, IdleJanitor,
     WeakWords, OnlyNext, OnlyPrev, OnlyWeak, ReadOnly, SetNext, ReturnJanitor,
     AdvanceInProgress, Deletable

(* The effect of JanitorClearPrev. *)
LEMMA JanitorClearPrevMoves ==
  ASSUME TypeOK, NEW t \in Threads, JanitorClearPrev(t)
  PROVE
         /\ pc[t] = "jan_clearprev"
         /\ UNCHANGED <<stamp, count, handle, item, av, pd, dr>>
         /\ UNCHANGED <<mem, prev>>
         /\ KeepsNext
         /\ pc'[t] = "jan_unlink"
         /\ jn'[t].cur = jn[t].cur /\ jn'[t].cand = jn[t].cand /\ jn'[t].prv = jn[t].prv
         /\ jn'[t].fail = jn[t].fail /\ jn'[t].rdel = jn[t].rdel /\ jn'[t].right = jn[t].right
         /\ jn'[t].carry = jn[t].carry /\ jn'[t].del = jn[t].del /\ jn'[t].seen = jn[t].seen
         /\ jn'[t].ret = jn[t].ret
<1>0. /\ pc \in [Threads -> Labels] /\ jn \in [Threads -> JanitorFrames] /\ next \in [Nodes -> NextWords]
      /\ prev \in [Nodes -> Ptrs] /\ weak \in [Nodes -> WeakWords]
  BY DEF TypeOK
<1> QED BY SMTT(60), <1>0 DEF JanitorClearPrev, Janitor, Goto, OnlyWeak, KeepsLocks, KeepsPtrs,
     KeepsNext, Redirects, JanitorFrames, NextWords, client, heap, IdleJanitor, WeakWords,
     OnlyNext, OnlyPrev, ReadOnly, SetNext, ReturnJanitor, AdvanceInProgress, Deletable

(* The effect of JanitorUnlink. *)
LEMMA JanitorUnlinkMoves ==
  ASSUME TypeOK, NEW t \in Threads, JanitorUnlink(t)
  PROVE
         /\ pc[t] = "jan_unlink"
         /\ UNCHANGED <<stamp, count, handle, item, av, pd, dr>>
         /\ UNCHANGED <<next, mem, strong, weak, adv>>
         /\ KeepsNext
         /\ prev' = [prev EXCEPT ![jn[t].right] = jn[t].del]
         /\ \/ /\ jn[t].del = Null
               /\ pc'[t] = "jan_uncarry"
               /\ jn'[t].cur = jn[t].cur /\ jn'[t].cand = jn[t].cand /\ jn'[t].prv = jn[t].prv
               /\ jn'[t].fail = jn[t].fail /\ jn'[t].rdel = jn[t].rdel /\ jn'[t].right = jn[t].right
               /\ jn'[t].carry = jn[t].carry /\ jn'[t].del = jn[t].del /\ jn'[t].seen = jn[t].seen
               /\ jn'[t].ret = jn[t].ret
            \/ /\ jn[t].del # Null
               /\ pc'[t] = "jan_carry"
               /\ jn'[t].cur = jn[t].cur /\ jn'[t].cand = jn[t].cand /\ jn'[t].prv = jn[t].prv
               /\ jn'[t].fail = jn[t].fail /\ jn'[t].rdel = jn[t].rdel /\ jn'[t].right = jn[t].del
               /\ jn'[t].carry = jn[t].carry /\ jn'[t].del = jn[t].del /\ jn'[t].seen = jn[t].seen
               /\ jn'[t].ret = jn[t].ret
<1>0. /\ pc \in [Threads -> Labels] /\ jn \in [Threads -> JanitorFrames] /\ next \in [Nodes -> NextWords]
      /\ prev \in [Nodes -> Ptrs] /\ weak \in [Nodes -> WeakWords]
  BY DEF TypeOK
<1> QED BY SMTT(60), <1>0 DEF JanitorUnlink, Janitor, Goto, OnlyPrev, KeepsLocks, KeepsPtrs,
     KeepsNext, Redirects, JanitorFrames, NextWords, client, heap, IdleJanitor, WeakWords,
     OnlyNext, OnlyWeak, ReadOnly, SetNext, ReturnJanitor, AdvanceInProgress, Deletable

(* The effect of JanitorCarry. *)
LEMMA JanitorCarryMoves ==
  ASSUME TypeOK, NEW t \in Threads, JanitorCarry(t)
  PROVE
         /\ pc[t] = "jan_carry"
         /\ UNCHANGED <<stamp, count, handle, item, av, pd, dr>>
         /\ UNCHANGED <<mem, prev>>
         /\ IF jn[t].carry = Null THEN KeepsNext ELSE Unlocks(jn[t].carry)
         /\ pc'[t] = IF prev[jn[t].right] = Null THEN "jan_uncarry" ELSE "jan_final"
         /\ jn'[t].cur = prev[jn[t].right] /\ jn'[t].cand = jn[t].cand /\ jn'[t].prv = jn[t].prv
         /\ jn'[t].fail = jn[t].fail /\ jn'[t].rdel = jn[t].rdel /\ jn'[t].right = jn[t].right
         /\ jn'[t].carry = jn[t].right /\ jn'[t].del = Null /\ jn'[t].seen = jn[t].seen
         /\ jn'[t].ret = jn[t].ret
<1>0. /\ pc \in [Threads -> Labels] /\ jn \in [Threads -> JanitorFrames] /\ next \in [Nodes -> NextWords]
      /\ prev \in [Nodes -> Ptrs] /\ weak \in [Nodes -> WeakWords]
  BY DEF TypeOK
<1>1. jn[t].carry # Null => jn[t].carry \in Nodes
  BY <1>0 DEF JanitorFrames, Ptrs
<1>2. /\ jn[t].carry # Null => (Lock(jn[t].carry) => Locks(jn[t].carry)) /\ (Unlock(jn[t].carry) => Unlocks(jn[t].carry)) /\ (Disturb(jn[t].carry) => KeepsNext)
      /\ UNCHANGED next => KeepsNext
  <2>1. UNCHANGED next => KeepsNext
    BY DEF KeepsNext, KeepsLocks, KeepsPtrs
  <2> QED BY <1>0, <1>1, <2>1, WordMoves
<1> QED BY SMTT(60), <1>0, <1>1, <1>2 DEF JanitorCarry, Janitor, ReleaseCarry, Goto, OnlyNext,
     JanitorFrames, NextWords, client, heap, IdleJanitor, WeakWords, OnlyPrev, OnlyWeak,
     ReadOnly, ReturnJanitor, AdvanceInProgress, Deletable

(* The effect of JanitorUncarry. *)
LEMMA JanitorUncarryMoves ==
  ASSUME TypeOK, NEW t \in Threads, JanitorUncarry(t)
  PROVE
         /\ pc[t] = "jan_uncarry"
         /\ UNCHANGED <<stamp, count, handle, item, av, pd, dr>>
         /\ UNCHANGED <<mem, prev>>
         /\ IF jn[t].carry = Null THEN KeepsNext ELSE Unlocks(jn[t].carry)
         /\ pc'[t] = "jan_unlock"
         /\ jn'[t].cur = jn[t].cur /\ jn'[t].cand = jn[t].cand /\ jn'[t].prv = jn[t].prv
         /\ jn'[t].fail = jn[t].fail /\ jn'[t].rdel = jn[t].rdel /\ jn'[t].right = jn[t].right
         /\ jn'[t].carry = Null /\ jn'[t].del = jn[t].del /\ jn'[t].seen = jn[t].seen /\ jn'[t].ret = jn[t].ret
<1>0. /\ pc \in [Threads -> Labels] /\ jn \in [Threads -> JanitorFrames] /\ next \in [Nodes -> NextWords]
      /\ prev \in [Nodes -> Ptrs] /\ weak \in [Nodes -> WeakWords]
  BY DEF TypeOK
<1>1. jn[t].carry # Null => jn[t].carry \in Nodes
  BY <1>0 DEF JanitorFrames, Ptrs
<1>2. /\ jn[t].carry # Null => (Lock(jn[t].carry) => Locks(jn[t].carry)) /\ (Unlock(jn[t].carry) => Unlocks(jn[t].carry)) /\ (Disturb(jn[t].carry) => KeepsNext)
      /\ UNCHANGED next => KeepsNext
  <2>1. UNCHANGED next => KeepsNext
    BY DEF KeepsNext, KeepsLocks, KeepsPtrs
  <2> QED BY <1>0, <1>1, <2>1, WordMoves
<1> QED BY SMTT(60), <1>0, <1>1, <1>2 DEF JanitorUncarry, Janitor, ReleaseCarry, Goto, OnlyNext,
     JanitorFrames, NextWords, client, heap, IdleJanitor, WeakWords, OnlyPrev, OnlyWeak,
     ReadOnly, ReturnJanitor, AdvanceInProgress, Deletable

-----------------------------------------------------------------------------
(* Both reference counts are exact.                                        *)

Ind(b) == IF b THEN 1 ELSE 0

-----------------------------------------------------------------------------
(* Counting a set in which only a few known elements come or go.           *)

(* Taking one element out of a set counts one less, if it was there.       *)
LEMMA WithoutOne ==
  ASSUME NEW S, IsFiniteSet(S), NEW x
  PROVE  /\ IsFiniteSet(S \ {x}) /\ Cardinality(S) \in Nat /\ Cardinality(S \ {x}) \in Nat
         /\ Cardinality(S) = Cardinality(S \ {x}) + Ind(x \in S)
<1>1. IsFiniteSet(S \ {x}) /\ Cardinality(S \ {x}) = IF x \in S THEN Cardinality(S) - 1 ELSE Cardinality(S)
  BY FS_RemoveElement
<1>2. Cardinality(S) \in Nat /\ Cardinality(S \ {x}) \in Nat
  BY <1>1, FS_CardinalityType
<1> QED BY <1>1, <1>2 DEF Ind

(* Tagging the elements of a set adds none.                                *)
LEMMA TaggedSet ==
  ASSUME NEW S, IsFiniteSet(S), NEW r
  PROVE  IsFiniteSet({<<r, x>> : x \in S}) /\ Cardinality({<<r, x>> : x \in S}) <= Cardinality(S)
<1> DEFINE T == {<<r, x>> : x \in S}
           f == [x \in S |-> <<r, x>>]
<1>1. f \in Surjection(S, T)
  BY DEF Surjection
<1> HIDE DEF f, T
<1>2. IsFiniteSet(T) /\ Cardinality(T) <= Cardinality(S)
  BY <1>1, FS_Surjection
<1> QED BY <1>2 DEF T

(* A set is counted without five given elements, and those one by one.     *)
LEMMA WithoutFive ==
  ASSUME NEW S, IsFiniteSet(S), NEW a, NEW b, NEW c, NEW d, NEW e,
         a # b, a # c, a # d, a # e, b # c, b # d, b # e, c # d, c # e, d # e
  PROVE  /\ Cardinality(S) \in Nat /\ Cardinality(S \ {a, b, c, d, e}) \in Nat
         /\ Cardinality(S) = Cardinality(S \ {a, b, c, d, e}) + Ind(a \in S) + Ind(b \in S)
              + Ind(c \in S) + Ind(d \in S) + Ind(e \in S)
<1> DEFINE A == S \ {a}
           B == A \ {b}
           C == B \ {c}
           D == C \ {d}
           E == D \ {e}
<1>1. IsFiniteSet(A) /\ Cardinality(S) \in Nat /\ Cardinality(S) = Cardinality(A) + Ind(a \in S)
  BY WithoutOne
<1>2. IsFiniteSet(B) /\ Cardinality(A) \in Nat /\ Cardinality(A) = Cardinality(B) + Ind(b \in A)
  <2> HIDE DEF A
  <2> QED BY <1>1, WithoutOne
<1>3. IsFiniteSet(C) /\ Cardinality(B) \in Nat /\ Cardinality(B) = Cardinality(C) + Ind(c \in B)
  <2> HIDE DEF B
  <2> QED BY <1>2, WithoutOne
<1>4. IsFiniteSet(D) /\ Cardinality(C) \in Nat /\ Cardinality(C) = Cardinality(D) + Ind(d \in C)
  <2> HIDE DEF C
  <2> QED BY <1>3, WithoutOne
<1>5. /\ Cardinality(D) \in Nat /\ Cardinality(E) \in Nat
      /\ Cardinality(D) = Cardinality(E) + Ind(e \in D)
  <2> HIDE DEF D
  <2> QED BY <1>4, WithoutOne
<1>6. /\ Ind(b \in A) = Ind(b \in S) /\ Ind(c \in B) = Ind(c \in S)
      /\ Ind(d \in C) = Ind(d \in S) /\ Ind(e \in D) = Ind(e \in S)
  BY DEF Ind
<1>7. E = S \ {a, b, c, d, e}
  OBVIOUS
<1>8. /\ Ind(a \in S) \in Int /\ Ind(b \in S) \in Int /\ Ind(c \in S) \in Int
      /\ Ind(d \in S) \in Int /\ Ind(e \in S) \in Int
  BY DEF Ind
<1>9. Cardinality(S) \in Nat /\ Cardinality(E) \in Nat
  BY <1>1, <1>5
<1> HIDE DEF A, B, C, D, E
<1> QED BY <1>1, <1>2, <1>3, <1>4, <1>5, <1>6, <1>7, <1>8, <1>9

\* eight different things
Distinct(a, b, c, d, e, f, g, h) ==
  /\ a # b /\ a # c /\ a # d /\ a # e /\ b # c /\ b # d /\ b # e /\ c # d /\ c # e /\ d # e
  /\ f \notin {a, b, c, d, e} /\ g \notin {a, b, c, d, e, f} /\ h \notin {a, b, c, d, e, f, g}

Split(S, a, b, c, d, e, f, g, h) ==
  /\ Cardinality(S) \in Nat /\ Cardinality(S \ {a, b, c, d, e, f, g, h}) \in Nat
  /\ Cardinality(S) = Cardinality(S \ {a, b, c, d, e, f, g, h}) + Ind(a \in S) + Ind(b \in S)
       + Ind(c \in S) + Ind(d \in S) + Ind(e \in S) + Ind(f \in S) + Ind(g \in S) + Ind(h \in S)

(* A set is counted without eight given elements, and those one by one.    *)
LEMMA WithoutEight ==
  ASSUME NEW S, IsFiniteSet(S), NEW a, NEW b, NEW c, NEW d, NEW e, NEW f, NEW g, NEW h, Distinct(a, b, c, d, e, f, g, h)
  PROVE  Split(S, a, b, c, d, e, f, g, h)
<1> DEFINE T1 == S \ {a}
           T2 == T1 \ {b}
           T3 == T2 \ {c}
           T4 == T3 \ {d}
           T5 == T4 \ {e}
           T6 == T5 \ {f}
           T7 == T6 \ {g}
           T8 == T7 \ {h}
<1>1. IsFiniteSet(T1) /\ Cardinality(S) \in Nat /\ Cardinality(T1) \in Nat /\ Cardinality(S) = Cardinality(T1) + Ind(a \in S)
  BY WithoutOne
<1>2. IsFiniteSet(T2) /\ Cardinality(T1) \in Nat /\ Cardinality(T2) \in Nat /\ Cardinality(T1) = Cardinality(T2) + Ind(b \in T1)
  <2> HIDE DEF T1
  <2> QED BY <1>1, WithoutOne
<1>3. IsFiniteSet(T3) /\ Cardinality(T2) \in Nat /\ Cardinality(T3) \in Nat /\ Cardinality(T2) = Cardinality(T3) + Ind(c \in T2)
  <2> HIDE DEF T2
  <2> QED BY <1>2, WithoutOne
<1>4. IsFiniteSet(T4) /\ Cardinality(T3) \in Nat /\ Cardinality(T4) \in Nat /\ Cardinality(T3) = Cardinality(T4) + Ind(d \in T3)
  <2> HIDE DEF T3
  <2> QED BY <1>3, WithoutOne
<1>5. IsFiniteSet(T5) /\ Cardinality(T4) \in Nat /\ Cardinality(T5) \in Nat /\ Cardinality(T4) = Cardinality(T5) + Ind(e \in T4)
  <2> HIDE DEF T4
  <2> QED BY <1>4, WithoutOne
<1>6. IsFiniteSet(T6) /\ Cardinality(T5) \in Nat /\ Cardinality(T6) \in Nat /\ Cardinality(T5) = Cardinality(T6) + Ind(f \in T5)
  <2> HIDE DEF T5
  <2> QED BY <1>5, WithoutOne
<1>7. IsFiniteSet(T7) /\ Cardinality(T6) \in Nat /\ Cardinality(T7) \in Nat /\ Cardinality(T6) = Cardinality(T7) + Ind(g \in T6)
  <2> HIDE DEF T6
  <2> QED BY <1>6, WithoutOne
<1>8. IsFiniteSet(T8) /\ Cardinality(T7) \in Nat /\ Cardinality(T8) \in Nat /\ Cardinality(T7) = Cardinality(T8) + Ind(h \in T7)
  <2> HIDE DEF T7
  <2> QED BY <1>7, WithoutOne
<1>9. Ind(b \in T1) = Ind(b \in S)
  <2>1. b # a
    BY DEF Distinct
  <2>2. b \in T1 <=> b \in S
    BY <2>1
  <2> HIDE DEF T1, T2, T3, T4, T5, T6, T7, T8
  <2> QED BY <2>2 DEF Ind
<1>10. Ind(c \in T2) = Ind(c \in S)
  <2>1. c # a /\ c # b
    BY DEF Distinct
  <2>2. c \in T2 <=> c \in S
    BY <2>1
  <2> HIDE DEF T1, T2, T3, T4, T5, T6, T7, T8
  <2> QED BY <2>2 DEF Ind
<1>11. Ind(d \in T3) = Ind(d \in S)
  <2>1. d # a /\ d # b /\ d # c
    BY DEF Distinct
  <2>2. d \in T3 <=> d \in S
    BY <2>1
  <2> HIDE DEF T1, T2, T3, T4, T5, T6, T7, T8
  <2> QED BY <2>2 DEF Ind
<1>12. Ind(e \in T4) = Ind(e \in S)
  <2>1. e # a /\ e # b /\ e # c /\ e # d
    BY DEF Distinct
  <2>2. e \in T4 <=> e \in S
    BY <2>1
  <2> HIDE DEF T1, T2, T3, T4, T5, T6, T7, T8
  <2> QED BY <2>2 DEF Ind
<1>13. Ind(f \in T5) = Ind(f \in S)
  <2>1. f # a /\ f # b /\ f # c /\ f # d /\ f # e
    BY DEF Distinct
  <2>2. f \in T5 <=> f \in S
    BY <2>1
  <2> HIDE DEF T1, T2, T3, T4, T5, T6, T7, T8
  <2> QED BY <2>2 DEF Ind
<1>14. Ind(g \in T6) = Ind(g \in S)
  <2>1. g # a /\ g # b /\ g # c /\ g # d /\ g # e /\ g # f
    BY DEF Distinct
  <2>2. g \in T6 <=> g \in S
    BY <2>1
  <2> HIDE DEF T1, T2, T3, T4, T5, T6, T7, T8
  <2> QED BY <2>2 DEF Ind
<1>15. Ind(h \in T7) = Ind(h \in S)
  <2>1. h # a /\ h # b /\ h # c /\ h # d /\ h # e /\ h # f /\ h # g
    BY DEF Distinct
  <2>2. h \in T7 <=> h \in S
    BY <2>1
  <2> HIDE DEF T1, T2, T3, T4, T5, T6, T7, T8
  <2> QED BY <2>2 DEF Ind
<1>16. T8 = S \ {a, b, c, d, e, f, g, h}
  OBVIOUS
<1>17. /\ Ind(a \in S) \in Int /\ Ind(b \in S) \in Int /\ Ind(c \in S) \in Int
       /\ Ind(d \in S) \in Int /\ Ind(e \in S) \in Int
       /\ Ind(f \in S) \in Int /\ Ind(g \in S) \in Int /\ Ind(h \in S) \in Int
  BY DEF Ind
<1> HIDE DEF T1, T2, T3, T4, T5, T6, T7, T8
<1>18. Cardinality(S) = Cardinality(T8) + Ind(a \in S) + Ind(b \in S)
         + Ind(c \in S) + Ind(d \in S) + Ind(e \in S) + Ind(f \in S) + Ind(g \in S) + Ind(h \in S)
  BY <1>1, <1>2, <1>3, <1>4, <1>5, <1>6, <1>7, <1>8, <1>9, <1>10, <1>11, <1>12, <1>13, <1>14, <1>15, <1>17
<1> QED BY <1>1, <1>8, <1>16, <1>18 DEF Split

-----------------------------------------------------------------------------
(* The strong references to n that thread t and handle h can be.            *)

StrongOf(t, h, n) ==
  Ind(handle[h] = [kind |-> "strong", node |-> n])
  + Ind(StrongOnStart(t) /\ av[t].start = n)
  + Ind(StrongOnItem(t) /\ item[t] = n)
  + Ind(StrongOnNew(t) /\ op[t].val = n)
  + Ind(pc[t] \in {"sg_recheck", "sg_light"} /\ op[t].nxt = n)

(* The holders of a node are taken from a finite set.                      *)
Holders == {"handle", "start", "item", "new", "nxt", "link", "group", "extra", "gap"}
             \X (Handles \cup Threads \cup Nodes)

(* Only finitely many places can have a reference.                         *)
LEMMA HoldersFinite == IsFiniteSet(Holders)
<1>1. IsFiniteSet(Handles) /\ IsFiniteSet(Threads) /\ IsFiniteSet(Nodes)
  <2>1. MaxNodes \in Int /\ 1 \in Int
    BY HeapAssumption
  <2> QED BY <2>1, FS_Interval, HeapAssumption DEF Nodes
<1>2. IsFiniteSet(Handles \cup Threads)
  BY <1>1, FS_Union
<1>3. IsFiniteSet(Handles \cup Threads \cup Nodes)
  BY <1>1, <1>2, FS_Union
<1> DEFINE R == {"handle", "start", "item", "new", "nxt", "link", "group", "extra", "gap"}
<1>4. IsFiniteSet(R)
  <2>1. IsFiniteSet({"handle"} \cup {"start"})
    BY FS_Singleton, FS_AddElement
  <2>2. IsFiniteSet(({"handle"} \cup {"start"}) \cup {"item"})
    BY <2>1, FS_AddElement
  <2>3. IsFiniteSet(({"handle"} \cup {"start"} \cup {"item"}) \cup {"new"})
    BY <2>2, FS_AddElement
  <2>4. IsFiniteSet(({"handle"} \cup {"start"} \cup {"item"} \cup {"new"}) \cup {"nxt"})
    BY <2>3, FS_AddElement
  <2> DEFINE T == {"handle"} \cup {"start"} \cup {"item"} \cup {"new"} \cup {"nxt"}
  <2>5. IsFiniteSet(T)
    BY <2>4
  <2>6. R = (((T \cup {"link"}) \cup {"group"}) \cup {"extra"}) \cup {"gap"}
    OBVIOUS
  <2> HIDE DEF T, R
  <2>7. IsFiniteSet(T \cup {"link"})
    BY <2>5, FS_AddElement
  <2>8. IsFiniteSet((T \cup {"link"}) \cup {"group"})
    BY <2>7, FS_AddElement
  <2>9. IsFiniteSet(((T \cup {"link"}) \cup {"group"}) \cup {"extra"})
    BY <2>8, FS_AddElement
  <2>10. IsFiniteSet((((T \cup {"link"}) \cup {"group"}) \cup {"extra"}) \cup {"gap"})
    BY <2>9, FS_AddElement
  <2> QED BY <2>6, <2>10
<1> HIDE DEF R
<1>5. IsFiniteSet(R \X (Handles \cup Threads \cup Nodes))
  BY <1>3, <1>4, FS_Product
<1> QED BY <1>5 DEF R, Holders

(* A step of thread t that changes at most what handle h holds changes the *)
(* number of strong references by what t and h gain and lose.              *)
LEMMA StrongChange ==
  ASSUME NEW t \in Threads, NEW h \in Handles, NEW n,
         \A u \in Threads \ {t} : Still(u), \A g \in Handles \ {h} : handle'[g] = handle[g]
  PROVE  /\ Cardinality(StrongHolders(n)) \in Nat /\ Cardinality(StrongHolders(n)') \in Nat
         /\ Cardinality(StrongHolders(n)') - StrongOf(t, h, n)' = Cardinality(StrongHolders(n)) - StrongOf(t, h, n)
<1> DEFINE S == StrongHolders(n)
           P == StrongHolders(n)'
           a == <<"handle", h>>
           b == <<"start", t>>
           c == <<"item", t>>
           d == <<"new", t>>
           e == <<"nxt", t>>
<1>1. IsFiniteSet(S) /\ IsFiniteSet(P)
  <2>1. S \in SUBSET Holders /\ P \in SUBSET Holders
    BY DEF StrongHolders, Holders
  <2> HIDE DEF S, P
  <2> QED BY <2>1, HoldersFinite, FS_Subset
<1>2. /\ a # b /\ a # c /\ a # d /\ a # e /\ b # c /\ b # d /\ b # e /\ c # d /\ c # e /\ d # e
  OBVIOUS
<1>3. StrongOf(t, h, n) = Ind(a \in S) + Ind(b \in S) + Ind(c \in S) + Ind(d \in S) + Ind(e \in S)
  BY DEF StrongOf, StrongHolders
<1>4. StrongOf(t, h, n)' = Ind(a \in P) + Ind(b \in P) + Ind(c \in P) + Ind(d \in P) + Ind(e \in P)
  BY DEF StrongOf, StrongHolders
<1>5. S \ {a, b, c, d, e} = P \ {a, b, c, d, e}
  <2>1. \A u \in Threads \ {t} :
           /\ StrongOnStart(u)' <=> StrongOnStart(u)
           /\ StrongOnItem(u)' <=> StrongOnItem(u)
           /\ StrongOnNew(u)' <=> StrongOnNew(u)
           /\ av'[u] = av[u] /\ item'[u] = item[u] /\ op'[u] = op[u] /\ pc'[u] = pc[u]
    BY DEF Still, StrongOnStart, StrongOnItem, StrongOnNew, At
  <2>2. ASSUME NEW g \in Handles \ {h}
        PROVE  handle'[g] = [kind |-> "strong", node |-> n] <=> handle[g] = [kind |-> "strong", node |-> n]
    OBVIOUS
  <2> QED BY <2>1, <2>2 DEF StrongHolders
<1>6. /\ Ind(a \in S) \in Int /\ Ind(b \in S) \in Int /\ Ind(c \in S) \in Int
      /\ Ind(d \in S) \in Int /\ Ind(e \in S) \in Int
      /\ Ind(a \in P) \in Int /\ Ind(b \in P) \in Int /\ Ind(c \in P) \in Int
      /\ Ind(d \in P) \in Int /\ Ind(e \in P) \in Int
  BY DEF Ind
<1> HIDE DEF S, P, a, b, c, d, e
<1>7. /\ Cardinality(S) \in Nat /\ Cardinality(S \ {a, b, c, d, e}) \in Nat
      /\ Cardinality(S) = Cardinality(S \ {a, b, c, d, e}) + Ind(a \in S) + Ind(b \in S)
           + Ind(c \in S) + Ind(d \in S) + Ind(e \in S)
  BY <1>1, <1>2, WithoutFive
<1>8. /\ Cardinality(P) \in Nat /\ Cardinality(P \ {a, b, c, d, e}) \in Nat
      /\ Cardinality(P) = Cardinality(P \ {a, b, c, d, e}) + Ind(a \in P) + Ind(b \in P)
           + Ind(c \in P) + Ind(d \in P) + Ind(e \in P)
  BY <1>1, <1>2, WithoutFive
<1>9. Cardinality(P) - StrongOf(t, h, n)' = Cardinality(S) - StrongOf(t, h, n)
  <2> DEFINE r == Cardinality(S \ {a, b, c, d, e})
  <2>1. r \in Nat /\ r = Cardinality(P \ {a, b, c, d, e})
    BY <1>5, <1>7
  <2> HIDE DEF r
  <2>2. Cardinality(S) = r + StrongOf(t, h, n)
    BY <1>3, <1>6, <1>7, <2>1 DEF r
  <2>3. Cardinality(P) = r + StrongOf(t, h, n)'
    BY <1>4, <1>6, <1>8, <2>1 DEF r
  <2>4. StrongOf(t, h, n) \in Int /\ StrongOf(t, h, n)' \in Int
    BY <1>3, <1>4, <1>6
  <2> QED BY <2>1, <2>2, <2>3, <2>4
<1> QED BY <1>7, <1>8, <1>9 DEF S, P

(* A call has at most two strong references, so the counts stay far from   *)
(* the sentinel.                                                           *)
LEMMA StrongBound ==
  ASSUME NEW n
  PROVE  Cardinality(StrongHolders(n)) + 1 < UsizeMax
<1> DEFINE Hs == {h \in Handles : handle[h] = [kind |-> "strong", node |-> n]}
           Is == {t \in Threads : StrongOnItem(t) /\ item[t] = n}
           Os == {t \in Threads :
                    \/ StrongOnStart(t) /\ av[t].start = n
                    \/ StrongOnNew(t) /\ op[t].val = n
                    \/ pc[t] \in {"sg_recheck", "sg_light"} /\ op[t].nxt = n}
           role(t) == IF pc[t] \in Swapping \cup SwappedIn \cup Walking THEN "start"
                      ELSE IF pc[t] \in {"sg_recheck", "sg_light"} THEN "nxt" ELSE "new"
           f == [t \in Os |-> <<role(t), t>>]
           A == {<<"handle", h>> : h \in Hs}
           B == {<<"item", t>> : t \in Is}
           C == {<<role(t), t>> : t \in Os}
<1>1. IsFiniteSet(Threads) /\ IsFiniteSet(Handles) /\ Cardinality(Handles) + 2 * Cardinality(Threads) + 1 < UsizeMax
  BY HeapAssumption
<1>2. IsFiniteSet(Hs) /\ Cardinality(Hs) <= Cardinality(Handles)
  BY <1>1, FS_Subset
<1>3. IsFiniteSet(Is) /\ Cardinality(Is) <= Cardinality(Threads)
  BY <1>1, FS_Subset
<1>4. IsFiniteSet(Os) /\ Cardinality(Os) <= Cardinality(Threads)
  BY <1>1, FS_Subset
<1>5. StrongHolders(n) = A \cup B \cup C
  <2>1. \A t \in Threads :
          /\ StrongOnStart(t) => pc[t] \in Swapping \cup SwappedIn \cup Walking
          /\ StrongOnNew(t) => pc[t] \notin Swapping \cup SwappedIn \cup Walking \cup {"sg_recheck", "sg_light"}
          /\ pc[t] \in {"sg_recheck", "sg_light"} => pc[t] \notin Swapping \cup SwappedIn \cup Walking
    BY DEF StrongOnStart, StrongOnNew, At, Janitoring
  <2> DEFINE T1 == {t \in Threads : StrongOnStart(t) /\ av[t].start = n}
             T2 == {t \in Threads : StrongOnNew(t) /\ op[t].val = n}
             T3 == {t \in Threads : pc[t] \in {"sg_recheck", "sg_light"} /\ op[t].nxt = n}
             X1 == {<<"start", t>> : t \in T1}
             X2 == {<<"new", t>> : t \in T2}
             X3 == {<<"nxt", t>> : t \in T3}
  <2>2. C = X1 \cup X2 \cup X3
    <3>1. \A t \in Os : \/ t \in T1 /\ role(t) = "start"
                        \/ t \in T2 /\ role(t) = "new"
                        \/ t \in T3 /\ role(t) = "nxt"
      BY <2>1
    <3>2. /\ \A t \in T1 : t \in Os /\ role(t) = "start"
          /\ \A t \in T2 : t \in Os /\ role(t) = "new"
          /\ \A t \in T3 : t \in Os /\ role(t) = "nxt"
      <4>1. ASSUME NEW t \in T1 PROVE t \in Os /\ role(t) = "start"
        <5>1. t \in Threads /\ StrongOnStart(t) /\ av[t].start = n
          BY <4>1
        <5>2. t \in Os
          BY <5>1
        <5>3. role(t) = "start"
          BY <2>1, <5>1
        <5> QED BY <5>2, <5>3
      <4>2. ASSUME NEW t \in T2 PROVE t \in Os /\ role(t) = "new"
        <5>1. t \in Threads /\ StrongOnNew(t) /\ op[t].val = n
          BY <4>2
        <5>2. t \in Os
          BY <5>1
        <5>3. role(t) = "new"
          BY <2>1, <5>1
        <5> QED BY <5>2, <5>3
      <4>3. ASSUME NEW t \in T3 PROVE t \in Os /\ role(t) = "nxt"
        BY <2>1, <4>3
      <4> QED BY <4>1, <4>2, <4>3
    <3> HIDE DEF Os, role, T1, T2, T3
    <3> QED BY <3>1, <3>2
  <2> QED BY <2>2 DEF StrongHolders
<1>6. f \in Surjection(Os, C)
  BY DEF Surjection
<1> HIDE DEF Hs, Is, Os, f, role
<1>7. IsFiniteSet(A) /\ Cardinality(A) <= Cardinality(Hs)
  BY <1>2, TaggedSet
<1>8. IsFiniteSet(B) /\ Cardinality(B) <= Cardinality(Is)
  BY <1>3, TaggedSet
<1> HIDE DEF A, B, C
<1>9. IsFiniteSet(C) /\ Cardinality(C) <= Cardinality(Os)
  BY <1>4, <1>6, FS_Surjection
<1>10. IsFiniteSet(A \cup B) /\ Cardinality(A \cup B) = Cardinality(A) + Cardinality(B) - Cardinality(A \cap B)
  BY <1>7, <1>8, FS_Union
<1>11. IsFiniteSet(A \cap B) /\ IsFiniteSet((A \cup B) \cap C)
  BY <1>7, <1>10, FS_Subset
<1> DEFINE AB == A \cup B
<1>12. Cardinality(AB \cup C) = Cardinality(AB) + Cardinality(C) - Cardinality(AB \cap C)
  <2> HIDE DEF AB
  <2>1. IsFiniteSet(AB)
    BY <1>10 DEF AB
  <2> QED BY <2>1, <1>9, FS_Union
<1>13. Cardinality(A \cap B) >= 0 /\ Cardinality(AB \cap C) >= 0 /\ Cardinality(A \cap B) \in Nat /\ Cardinality(AB \cap C) \in Nat
  BY <1>11, FS_CardinalityType
<1>14. /\ Cardinality(A) \in Nat /\ Cardinality(B) \in Nat /\ Cardinality(C) \in Nat
       /\ Cardinality(Hs) \in Nat /\ Cardinality(Is) \in Nat /\ Cardinality(Os) \in Nat
       /\ Cardinality(Threads) \in Nat /\ Cardinality(Handles) \in Nat /\ UsizeMax \in Nat
  BY <1>1, <1>2, <1>3, <1>4, <1>7, <1>8, <1>9, FS_CardinalityType, HeapAssumption
<1> HIDE DEF AB
<1>15. Cardinality(AB) <= Cardinality(A) + Cardinality(B) /\ Cardinality(AB) \in Int
  BY <1>10, <1>13, <1>14 DEF AB
<1>16. Cardinality(AB \cup C) <= Cardinality(A) + Cardinality(B) + Cardinality(C)
  BY <1>12, <1>13, <1>14, <1>15
<1>17. Cardinality(AB \cup C) <= Cardinality(Handles) + Cardinality(Threads) + Cardinality(Threads)
  BY <1>2, <1>3, <1>4, <1>7, <1>8, <1>9, <1>14, <1>16, <1>12, <1>13, <1>15
<1>18. Cardinality(AB \cup C) + 1 < UsizeMax
  BY <1>1, <1>12, <1>13, <1>14, <1>15, <1>17
<1> QED BY <1>5, <1>18 DEF AB

(* What a step of t does to the count of strong references it has.          *)
StrongStep(t, h) ==
  \A n \in Nodes : Live(n) =>
    LiveStrong(strong[n])' - StrongOf(t, h, n)' = LiveStrong(strong[n]) - StrongOf(t, h, n)

\* what the count of a live node is known to be
StrongRoom(t, h) ==
  /\ Shape(t) /\ HeldLive(t)
  /\ \A n \in Nodes : Live(n) =>
       LiveStrong(strong[n]) + 1 < UsizeMax /\ StrongOf(t, h, n) <= LiveStrong(strong[n])
  /\ pc[t] = "advs_cas" => strong[item[t]] # STRONG_DROPPED
  /\ pc[t] = "upg_cas" => op[t].cs # STRONG_DROPPED
  /\ pc[t] = "sg_cas" => strong[op[t].nxt] # STRONG_DROPPED
  /\ pc[t] = "sg_clone" => Live(Base(t)) /\ strong[Base(t)] # STRONG_DROPPED

(* A step of an advance changes a strong count by as much as it changes    *)
(* its own strong references.                                              *)
LEMMA AdvanceStrongCount ==
  ASSUME OrderInv, TypeOK', NEW t \in Threads, NEW h \in Handles, StrongRoom(t, h), AdvanceStep(t)
  PROVE  StrongStep(t, h)
<1> USE DEF Continues, DropShape
<1>k. Knows(pc[t], item[t], av[t], pd[t], jn[t], op[t]) /\ TypeOK
  BY RegistersTyped DEF OrderInv
<1>r. /\ pc \in [Threads -> Labels] /\ item \in [Threads -> Nodes] /\ av \in [Threads -> AdvanceFrames]
      /\ pd \in [Threads -> PayloadFrames] /\ jn \in [Threads -> JanitorFrames]
      /\ dr \in [Threads -> DropFrames] /\ op \in [Threads -> CallFrames]
      /\ strong \in [Nodes -> 0..UsizeMax] /\ UsizeMax \in Nat /\ mem \in [Nodes -> {"unused", "private", "live", "freed"}]
  BY HeapAssumption DEF OrderInv, TypeOK
<1>f. StrongRoom(t, h)
  OBVIOUS
<1>1. CASE AdvanceLoad(t)
  BY <1>k, <1>r, <1>f, <1>1, SMTT(30) DEF AdvanceLoad, Goto, ReturnAdvance, ReadOnly, locals,
     client, heap, StrongStep, StrongRoom, Shape, Knows, Frames, HeldLive, Inc, Dec, LiveStrong,
     LastStrong, STRONG_DROPPED, StrongOf, StrongOnStart, StrongOnItem, StrongOnNew, At,
     HoldsValue, Ind, Janitoring, Updating, Upgrading, Dying, Live
<1>2. CASE AdvanceInc(t)
  BY <1>k, <1>r, <1>f, <1>2, SMTT(30) DEF AdvanceInc, Goto, OnlyAdv, locals, client, heap,
     StrongStep, StrongRoom, Shape, Knows, Frames, HeldLive, Inc, Dec, LiveStrong, LastStrong,
     STRONG_DROPPED, StrongOf, StrongOnStart, StrongOnItem, StrongOnNew, At, HoldsValue, Ind,
     Janitoring, Updating, Upgrading, Dying, Live
<1>3. CASE AdvanceReload(t)
  BY <1>k, <1>r, <1>f, <1>3, SMTT(30) DEF AdvanceReload, Goto, ReadOnly, locals, client, heap,
     StrongStep, StrongRoom, Shape, Knows, Frames, HeldLive, Inc, Dec, LiveStrong, LastStrong,
     STRONG_DROPPED, StrongOf, StrongOnStart, StrongOnItem, StrongOnNew, At, HoldsValue, Ind,
     Janitoring, Updating, Upgrading, Dying, Live
<1>4. CASE AdvanceWeakInc(t)
  BY <1>k, <1>r, <1>f, <1>4, SMTT(30) DEF AdvanceWeakInc, AddWeak, Goto, OnlyWeak, locals,
     client, heap, StrongStep, StrongRoom, Shape, Knows, Frames, HeldLive, Inc, Dec, LiveStrong,
     LastStrong, STRONG_DROPPED, StrongOf, StrongOnStart, StrongOnItem, StrongOnNew, At,
     HoldsValue, Ind, Janitoring, Updating, Upgrading, Dying, Live
<1>5. CASE AdvanceDec(t)
  BY <1>k, <1>r, <1>f, <1>5, SMTT(30) DEF AdvanceDec, Goto, OnlyAdv, locals, client, heap,
     StrongStep, StrongRoom, Shape, Knows, Frames, HeldLive, Inc, Dec, LiveStrong, LastStrong,
     STRONG_DROPPED, StrongOf, StrongOnStart, StrongOnItem, StrongOnNew, At, HoldsValue, Ind,
     Janitoring, Updating, Upgrading, Dying, Live
<1>6. CASE AdvanceWeakDec(t)
  BY <1>k, <1>r, <1>f, <1>6, SMTT(30) DEF AdvanceWeakDec, SubWeak, Goto, OnlyWeak, locals,
     client, heap, StrongStep, StrongRoom, Shape, Knows, Frames, HeldLive, Inc, Dec, LiveStrong,
     LastStrong, STRONG_DROPPED, StrongOf, StrongOnStart, StrongOnItem, StrongOnNew, At,
     HoldsValue, Ind, Janitoring, Updating, Upgrading, Dying, Live
<1>7. CASE WeakLeaveStart(t)
  BY <1>k, <1>r, <1>f, <1>7, SMTT(30) DEF WeakLeaveStart, SubWeak, ReturnAdvance, OnlyWeak,
     Goto, locals, client, heap, StrongStep, StrongRoom, Shape, Knows, Frames, HeldLive, Inc,
     Dec, LiveStrong, LastStrong, STRONG_DROPPED, StrongOf, StrongOnStart, StrongOnItem,
     StrongOnNew, At, HoldsValue, Ind, Janitoring, Updating, Upgrading, Dying, Live
<1>8. CASE PayloadMark(t)
  <2>1. CASE pd[t].ret = "advs_a_decw"
    BY <1>k, <1>r, <1>f, <1>8, <2>1, SMTT(30) DEF PayloadMark, Goto, OnlyNext, IdlePayload,
     locals, client, heap, StrongStep, StrongRoom, Shape, Knows, Frames, HeldLive, Inc, Dec,
     LiveStrong, LastStrong, STRONG_DROPPED, StrongOf, StrongOnStart, StrongOnItem, StrongOnNew,
     At, HoldsValue, Ind, Janitoring, Updating, Upgrading, Dying, Live
  <2>2. CASE pd[t].ret = "dw_cas"
    BY <1>k, <1>r, <1>f, <1>8, <2>2, SMTT(30) DEF PayloadMark, Goto, OnlyNext, IdlePayload,
     locals, client, heap, StrongStep, StrongRoom, Shape, Knows, Frames, HeldLive, Inc, Dec,
     LiveStrong, LastStrong, STRONG_DROPPED, StrongOf, StrongOnStart, StrongOnItem, StrongOnNew,
     At, HoldsValue, Ind, Janitoring, Updating, Upgrading, Dying, Live
  <2>3. CASE pd[t].ret = "upd_decw"
    BY <1>k, <1>r, <1>f, <1>8, <2>3, SMTT(30) DEF PayloadMark, Goto, OnlyNext, IdlePayload,
     locals, client, heap, StrongStep, StrongRoom, Shape, Knows, Frames, HeldLive, Inc, Dec,
     LiveStrong, LastStrong, STRONG_DROPPED, StrongOf, StrongOnStart, StrongOnItem, StrongOnNew,
     At, HoldsValue, Ind, Janitoring, Updating, Upgrading, Dying, Live
  <2>r. pd[t].ret \in {"advs_a_decw", "dw_cas", "upd_decw"}
    BY <1>k, <1>r, <1>f, <1>8 DEF
     PayloadFrames, Shape, PayloadMark, StrongRoom
  <2> QED BY <2>1, <2>2, <2>3, <2>r
<1>9. CASE PayloadDrop(t)
  <2>1. CASE pd[t].ret = "advs_a_decw"
    BY <1>k, <1>r, <1>f, <1>9, <2>1, SMTT(30) DEF PayloadDrop, DropPayload, Goto, IdlePayload,
     locals, client, heap, StrongStep, StrongRoom, Shape, Knows, Frames, HeldLive, Inc, Dec,
     LiveStrong, LastStrong, STRONG_DROPPED, StrongOf, StrongOnStart, StrongOnItem, StrongOnNew,
     At, HoldsValue, Ind, Janitoring, Updating, Upgrading, Dying, Live
  <2>2. CASE pd[t].ret = "dw_cas"
    BY <1>k, <1>r, <1>f, <1>9, <2>2, SMTT(30) DEF PayloadDrop, DropPayload, Goto, IdlePayload,
     locals, client, heap, StrongStep, StrongRoom, Shape, Knows, Frames, HeldLive, Inc, Dec,
     LiveStrong, LastStrong, STRONG_DROPPED, StrongOf, StrongOnStart, StrongOnItem, StrongOnNew,
     At, HoldsValue, Ind, Janitoring, Updating, Upgrading, Dying, Live
  <2>3. CASE pd[t].ret = "upd_decw"
    BY <1>k, <1>r, <1>f, <1>9, <2>3, SMTT(30) DEF PayloadDrop, DropPayload, Goto, IdlePayload,
     locals, client, heap, StrongStep, StrongRoom, Shape, Knows, Frames, HeldLive, Inc, Dec,
     LiveStrong, LastStrong, STRONG_DROPPED, StrongOf, StrongOnStart, StrongOnItem, StrongOnNew,
     At, HoldsValue, Ind, Janitoring, Updating, Upgrading, Dying, Live
  <2>r. pd[t].ret \in {"advs_a_decw", "dw_cas", "upd_decw"}
    BY <1>k, <1>r, <1>f, <1>9 DEF
     PayloadFrames, Shape, PayloadDrop, StrongRoom
  <2> QED BY <2>1, <2>2, <2>3, <2>r
<1>10. CASE StrongLoad(t)
  BY <1>k, <1>r, <1>f, <1>10, SMTT(30) DEF StrongLoad, TryStrong, ReadOnly, Goto, IdleAdvance,
     AdvanceFrames, locals, client, heap, StrongStep, StrongRoom, Shape, Knows, Frames,
     HeldLive, Inc, Dec, LiveStrong, LastStrong, STRONG_DROPPED, StrongOf, StrongOnStart,
     StrongOnItem, StrongOnNew, At, HoldsValue, Ind, Janitoring, Updating, Upgrading, Dying,
     Live
<1>11. CASE StrongIncWeak(t)
  BY <1>k, <1>r, <1>f, <1>11, SMTT(30) DEF StrongIncWeak, AddWeak, Goto, OnlyWeak, locals,
     client, heap, StrongStep, StrongRoom, Shape, Knows, Frames, HeldLive, Inc, Dec, LiveStrong,
     LastStrong, STRONG_DROPPED, StrongOf, StrongOnStart, StrongOnItem, StrongOnNew, At,
     HoldsValue, Ind, Janitoring, Updating, Upgrading, Dying, Live
<1>12. CASE StrongCas(t)
  <2>1. CASE strong[item[t]] = av[t].cs
    BY <1>k, <1>r, <1>f, <1>12, <2>1, SMTT(30) DEF StrongCas, AddStrong, Goto, TryStrong,
     OnlyStrong, IdleAdvance, AdvanceFrames, locals, client, heap, StrongStep, StrongRoom,
     Shape, Knows, Frames, HeldLive, Inc, Dec, LiveStrong, LastStrong, STRONG_DROPPED, StrongOf,
     StrongOnStart, StrongOnItem, StrongOnNew, At, HoldsValue, Ind, Janitoring, Updating,
     Upgrading, Dying, Live
  <2>2. CASE strong[item[t]] # av[t].cs /\ av[t].cs = 0
    BY <1>k, <1>r, <1>f, <1>12, <2>2, SMTT(30) DEF StrongCas, AddStrong, Goto, TryStrong,
     OnlyStrong, IdleAdvance, AdvanceFrames, locals, client, heap, StrongStep, StrongRoom,
     Shape, Knows, Frames, HeldLive, Inc, Dec, LiveStrong, LastStrong, STRONG_DROPPED, StrongOf,
     StrongOnStart, StrongOnItem, StrongOnNew, At, HoldsValue, Ind, Janitoring, Updating,
     Upgrading, Dying, Live
  <2>3. CASE strong[item[t]] # av[t].cs /\ av[t].cs # 0
    BY <1>k, <1>r, <1>f, <1>12, <2>3, SMTT(30) DEF StrongCas, AddStrong, Goto, TryStrong,
     OnlyStrong, IdleAdvance, AdvanceFrames, locals, client, heap, StrongStep, StrongRoom,
     Shape, Knows, Frames, HeldLive, Inc, Dec, LiveStrong, LastStrong, STRONG_DROPPED, StrongOf,
     StrongOnStart, StrongOnItem, StrongOnNew, At, HoldsValue, Ind, Janitoring, Updating,
     Upgrading, Dying, Live
  <2> QED BY <2>1, <2>2, <2>3
<1>13. CASE StrongRaceDecWeak(t)
  BY <1>k, <1>r, <1>f, <1>13, SMTT(30) DEF StrongRaceDecWeak, SubWeak, TryStrong, OnlyWeak,
     Goto, IdleAdvance, AdvanceFrames, locals, client, heap, StrongStep, StrongRoom, Shape,
     Knows, Frames, HeldLive, Inc, Dec, LiveStrong, LastStrong, STRONG_DROPPED, StrongOf,
     StrongOnStart, StrongOnItem, StrongOnNew, At, HoldsValue, Ind, Janitoring, Updating,
     Upgrading, Dying, Live
<1>14. CASE StrongRecheck(t)
  BY <1>k, <1>r, <1>f, <1>14, SMTT(30) DEF StrongRecheck, Goto, ReadOnly, locals, client, heap,
     StrongStep, StrongRoom, Shape, Knows, Frames, HeldLive, Inc, Dec, LiveStrong, LastStrong,
     STRONG_DROPPED, StrongOf, StrongOnStart, StrongOnItem, StrongOnNew, At, HoldsValue, Ind,
     Janitoring, Updating, Upgrading, Dying, Live
<1>15. CASE StrongUndo(t)
  <2>1. CASE LastStrong(item[t])
    BY <1>k, <1>r, <1>f, <1>15, <2>1, SMTT(30) DEF StrongUndo, SubStrong, Goto, RetryAdvance,
     OnlyStrong, IdleAdvance, AdvanceFrames, locals, client, heap, StrongStep, StrongRoom,
     Shape, Knows, Frames, HeldLive, Inc, Dec, LiveStrong, LastStrong, STRONG_DROPPED, StrongOf,
     StrongOnStart, StrongOnItem, StrongOnNew, At, HoldsValue, Ind, Janitoring, Updating,
     Upgrading, Dying, Live
  <2>2. CASE ~LastStrong(item[t])
    BY <1>k, <1>r, <1>f, <1>15, <2>2, SMTT(30) DEF StrongUndo, SubStrong, Goto, RetryAdvance,
     OnlyStrong, IdleAdvance, AdvanceFrames, locals, client, heap, StrongStep, StrongRoom,
     Shape, Knows, Frames, HeldLive, Inc, Dec, LiveStrong, LastStrong, STRONG_DROPPED, StrongOf,
     StrongOnStart, StrongOnItem, StrongOnNew, At, HoldsValue, Ind, Janitoring, Updating,
     Upgrading, Dying, Live
  <2> QED BY <2>1, <2>2
<1>16. CASE StrongUndoDecWeak(t)
  BY <1>k, <1>r, <1>f, <1>16, SMTT(30) DEF StrongUndoDecWeak, SubWeak, RetryAdvance, OnlyWeak,
     Goto, IdleAdvance, AdvanceFrames, locals, client, heap, StrongStep, StrongRoom, Shape,
     Knows, Frames, HeldLive, Inc, Dec, LiveStrong, LastStrong, STRONG_DROPPED, StrongOf,
     StrongOnStart, StrongOnItem, StrongOnNew, At, HoldsValue, Ind, Janitoring, Updating,
     Upgrading, Dying, Live
<1>17. CASE StrongDecWeakB(t)
  BY <1>k, <1>r, <1>f, <1>17, SMTT(30) DEF StrongDecWeakB, SubWeak, Goto, OnlyWeak, locals,
     client, heap, StrongStep, StrongRoom, Shape, Knows, Frames, HeldLive, Inc, Dec, LiveStrong,
     LastStrong, STRONG_DROPPED, StrongOf, StrongOnStart, StrongOnItem, StrongOnNew, At,
     HoldsValue, Ind, Janitoring, Updating, Upgrading, Dying, Live
<1>18. CASE StrongLeaveStart(t)
  <2>1. CASE LastStrong(av[t].start)
    BY <1>k, <1>r, <1>f, <1>18, <2>1, SMTT(30) DEF StrongLeaveStart, SubStrong,
     StartPayloadDrop, ReturnAdvance, OnlyStrong, Goto, locals, client, heap, StrongStep,
     StrongRoom, Shape, Knows, Frames, HeldLive, Inc, Dec, LiveStrong, LastStrong,
     STRONG_DROPPED, StrongOf, StrongOnStart, StrongOnItem, StrongOnNew, At, HoldsValue, Ind,
     Janitoring, Updating, Upgrading, Dying, Live
  <2>2. CASE ~LastStrong(av[t].start)
    BY <1>k, <1>r, <1>f, <1>18, <2>2, SMTT(30) DEF StrongLeaveStart, SubStrong,
     StartPayloadDrop, ReturnAdvance, OnlyStrong, Goto, locals, client, heap, StrongStep,
     StrongRoom, Shape, Knows, Frames, HeldLive, Inc, Dec, LiveStrong, LastStrong,
     STRONG_DROPPED, StrongOf, StrongOnStart, StrongOnItem, StrongOnNew, At, HoldsValue, Ind,
     Janitoring, Updating, Upgrading, Dying, Live
  <2> QED BY <2>1, <2>2
<1>19. CASE StrongDecWeakA(t)
  BY <1>k, <1>r, <1>f, <1>19, SMTT(30) DEF StrongDecWeakA, SubWeak, ReturnAdvance, OnlyWeak,
     Goto, locals, client, heap, StrongStep, StrongRoom, Shape, Knows, Frames, HeldLive, Inc,
     Dec, LiveStrong, LastStrong, STRONG_DROPPED, StrongOf, StrongOnStart, StrongOnItem,
     StrongOnNew, At, HoldsValue, Ind, Janitoring, Updating, Upgrading, Dying, Live
<1> QED BY <1>1, <1>2, <1>3, <1>4, <1>5, <1>6, <1>7, <1>8, <1>9, <1>10, <1>11, <1>12, <1>13,
  <1>14, <1>15, <1>16, <1>17, <1>18, <1>19 DEF AdvanceStep

(* A janitor takes and gives back no strong reference.                      *)
LEMMA JanitorStays ==
  ASSUME TypeOK, NEW t \in Threads, JanitorStep(t)
  PROVE  /\ pc[t] \in Janitoring /\ (pc'[t] \in Janitoring \/ pc'[t] = jn[t].ret) /\ jn'[t].ret = jn[t].ret
         /\ UNCHANGED <<strong, handle, item, av, pd, dr>>
         /\ op'[t].f = op[t].f /\ op'[t].ok = op[t].ok /\ op'[t].guard = op[t].guard
         /\ op'[t].val = op[t].val /\ op'[t].nxt = op[t].nxt
         /\ \A n \in Nodes : Live(n)' => Live(n)
<1>r. pc \in [Threads -> Labels] /\ jn \in [Threads -> JanitorFrames] /\ op \in [Threads -> CallFrames]
      /\ mem \in [Nodes -> {"unused", "private", "live", "freed"}]
  BY DEF TypeOK
<1>1. CASE JanitorLockStart(t)
  <2>1. /\ pc[t] = "jan_lock" /\ OnlyNext /\ UNCHANGED <<item, av, pd, dr, op>> /\ jn'[t].ret = jn[t].ret
        /\ pc'[t] \in {jn[t].ret, "jan_unlock", "jan_sweep"}
    BY <1>1, JanitorLockStartEffect
  <2> QED BY <2>1 DEF OnlyNext, client, Janitoring, Live
<1>2. CASE JanitorSweep(t)
  BY <1>r, <1>2 DEF JanitorSweep, Janitor, Goto, OnlyNext, client,
     heap, Janitoring, JanitorFrames, IdleJanitor, Live
<1>3. CASE JanitorCleanup(t)
  BY <1>r, <1>3 DEF JanitorCleanup, Janitor, Goto, OnlyNext,
     client, heap, Janitoring, JanitorFrames, IdleJanitor, Live
<1>4. CASE JanitorUnlockStart(t)
  BY <1>r, <1>4 DEF JanitorUnlockStart, Janitor, ReturnJanitor,
     Goto, OnlyNext, client, heap, Janitoring, JanitorFrames, IdleJanitor, Live
<1>5. CASE JanitorStrong(t)
  BY <1>r, <1>5 DEF JanitorStrong, Janitor, Goto, ReadOnly, client,
     heap, Janitoring, JanitorFrames, IdleJanitor, Live
<1>6. CASE JanitorSetNext(t)
  BY <1>r, <1>6 DEF JanitorSetNext, Janitor, Goto, OnlyNext,
     client, heap, Janitoring, JanitorFrames, IdleJanitor, Live
<1>7. CASE JanitorCheckAdvance(t)
  BY <1>r, <1>7 DEF JanitorCheckAdvance, Janitor, Goto,
     ReadOnly, client, heap, Janitoring, JanitorFrames, IdleJanitor, Live
<1>8. CASE JanitorFinal(t)
  BY <1>r, <1>8 DEF JanitorFinal, Janitor, Goto, ReadOnly, client,
     heap, Janitoring, JanitorFrames, IdleJanitor, Live
<1>9. CASE JanitorDelete(t)
  BY <1>r, <1>9 DEF JanitorDelete, Janitor, Goto, ReadOnly, client,
     heap, Janitoring, JanitorFrames, IdleJanitor, Live
<1>10. CASE JanitorFree(t)
  BY <1>r, <1>10 DEF JanitorFree, Janitor, Deallocate, Goto,
     DropPayload, client, heap, Janitoring, JanitorFrames, IdleJanitor, Live, CallFrames
<1>11. CASE JanitorClearPrev(t)
  BY <1>r, <1>11 DEF JanitorClearPrev, Janitor, Goto, OnlyWeak,
     client, heap, Janitoring, JanitorFrames, IdleJanitor, Live
<1>12. CASE JanitorUnlink(t)
  BY <1>r, <1>12 DEF JanitorUnlink, Janitor, Goto, OnlyPrev,
     client, heap, Janitoring, JanitorFrames, IdleJanitor, Live
<1>13. CASE JanitorCarry(t)
  BY <1>r, <1>13 DEF JanitorCarry, Janitor, ReleaseCarry, Goto,
     OnlyNext, client, heap, Janitoring, JanitorFrames, IdleJanitor, Live
<1>14. CASE JanitorUncarry(t)
  BY <1>r, <1>14 DEF JanitorUncarry, Janitor, ReleaseCarry, Goto,
     OnlyNext, client, heap, Janitoring, JanitorFrames, IdleJanitor, Live
<1> QED BY <1>1, <1>2, <1>3, <1>4, <1>5, <1>6, <1>7, <1>8, <1>9, <1>10, <1>11, <1>12, <1>13,
  <1>14 DEF JanitorStep

(* Strong references in a step of a janitor.                                *)
LEMMA JanitorStrongCount ==
  ASSUME OrderInv, TypeOK', NEW t \in Threads, NEW h \in Handles, StrongRoom(t, h), JanitorStep(t)
  PROVE  StrongStep(t, h)
<1>k. Knows(pc[t], item[t], av[t], pd[t], jn[t], op[t]) /\ TypeOK
  BY RegistersTyped DEF OrderInv
<1>1. /\ pc[t] \in Janitoring /\ (pc'[t] \in Janitoring \/ pc'[t] = jn[t].ret) /\ jn'[t].ret = jn[t].ret
      /\ UNCHANGED <<strong, handle, item, av, pd, dr>>
      /\ op'[t].f = op[t].f /\ op'[t].ok = op[t].ok /\ op'[t].guard = op[t].guard
      /\ op'[t].val = op[t].val /\ op'[t].nxt = op[t].nxt
      /\ \A n \in Nodes : Live(n)' => Live(n)
  BY <1>k, JanitorStays
<1>2. jn[t].ret \in {"dw_weak", "upd_done", "get_done"}
  BY <1>1 DEF StrongRoom, Shape, Continues
<1>3. ASSUME NEW n PROVE StrongOf(t, h, n)' = StrongOf(t, h, n)
  <2>1. /\ ~StrongOnStart(t) /\ ~StrongOnStart(t)' /\ ~StrongOnNew(t) /\ ~StrongOnNew(t)'
        /\ StrongOnItem(t)' <=> StrongOnItem(t)
        /\ pc[t] \notin {"sg_recheck", "sg_light"} /\ pc'[t] \notin {"sg_recheck", "sg_light"}
    BY <1>1, <1>2 DEF StrongOnStart, StrongOnItem, StrongOnNew, At, Janitoring
  <2> QED BY <1>1, <2>1 DEF StrongOf, Ind
<1> QED BY <1>1, <1>3 DEF StrongStep

(* A step of the drop of a reference changes a strong count by as much as  *)
(* it changes its own strong references.                                   *)
LEMMA DropStrongCount ==
  ASSUME OrderInv, TypeOK', NEW t \in Threads, NEW h \in Handles, StrongRoom(t, h), DropStep(t)
  PROVE  StrongStep(t, h)
<1> USE DEF Continues, DropShape
<1>k. Knows(pc[t], item[t], av[t], pd[t], jn[t], op[t]) /\ TypeOK
  BY RegistersTyped DEF OrderInv
<1>r. /\ pc \in [Threads -> Labels] /\ item \in [Threads -> Nodes] /\ av \in [Threads -> AdvanceFrames]
      /\ pd \in [Threads -> PayloadFrames] /\ jn \in [Threads -> JanitorFrames]
      /\ dr \in [Threads -> DropFrames] /\ op \in [Threads -> CallFrames]
      /\ strong \in [Nodes -> 0..UsizeMax] /\ UsizeMax \in Nat /\ mem \in [Nodes -> {"unused", "private", "live", "freed"}]
  BY HeapAssumption DEF OrderInv, TypeOK
<1>f. StrongRoom(t, h)
  OBVIOUS
<1>1. CASE DropStrongDec(t)
  <2>1. CASE LastStrong(item[t])
    <3>1. /\ pc[t] = "ds_dec"
          /\ SubStrong(item[t])
          /\ OnlyStrong
          /\ UNCHANGED <<pd, op>>
          /\ Starts(t, item[t], "weak", "jan_lock")
          /\ jn'[t] = [IdleJanitor EXCEPT !.ret = "dw_weak"]
          /\ dr'[t] = [IdleDrop EXCEPT !.ret = dr[t].ret]
      BY <1>k, <1>1, <2>1, DropStrongDecEffect
    <3> QED BY <1>k, <1>r, <1>f, <2>1, <3>1, SMTT(30) DEF Starts, SubStrong, OnlyStrong,
     IdleJanitor, IdleDrop, locals, client, heap, StrongStep, StrongRoom, Shape, Knows, Frames,
     HeldLive, Inc, Dec, LiveStrong, LastStrong, STRONG_DROPPED, StrongOf, StrongOnStart,
     StrongOnItem, StrongOnNew, At, HoldsValue, Ind, Janitoring, Updating, Upgrading, Dying,
     Live
  <2>2. CASE ~LastStrong(item[t])
    <3>1. /\ pc[t] = "ds_dec"
          /\ SubStrong(item[t])
          /\ OnlyStrong
          /\ UNCHANGED <<pd, op>>
          /\ pc'[t] = dr[t].ret
          /\ dr'[t] = IdleDrop
          /\ jn'[t] = IdleJanitor
          /\ UNCHANGED <<item, av>>
      BY <1>k, <1>1, <2>2, DropStrongDecEffect
    <3>2. CASE dr[t].ret = "ret"
      BY <1>k, <1>r, <1>f, <2>2, <3>1, <3>2, SMTT(30) DEF Starts, SubStrong, OnlyStrong,
     IdleJanitor, IdleDrop, locals, client, heap, StrongStep, StrongRoom, Shape, Knows, Frames,
     HeldLive, Inc, Dec, LiveStrong, LastStrong, STRONG_DROPPED, StrongOf, StrongOnStart,
     StrongOnItem, StrongOnNew, At, HoldsValue, Ind, Janitoring, Updating, Upgrading, Dying,
     Live
    <3>3. CASE dr[t].ret = "sg_dec"
      BY <1>k, <1>r, <1>f, <2>2, <3>1, <3>3, SMTT(30) DEF Starts, SubStrong, OnlyStrong,
     IdleJanitor, IdleDrop, locals, client, heap, StrongStep, StrongRoom, Shape, Knows, Frames,
     HeldLive, Inc, Dec, LiveStrong, LastStrong, STRONG_DROPPED, StrongOf, StrongOnStart,
     StrongOnItem, StrongOnNew, At, HoldsValue, Ind, Janitoring, Updating, Upgrading, Dying,
     Live
    <3>4. dr[t].ret \in {"ret", "sg_dec"}
      BY <1>k, <1>r, <1>f, <3>1 DEF DropFrames, StrongRoom, Shape, Dying
    <3> QED BY <3>2, <3>3, <3>4
  <2> QED BY <2>1, <2>2
<1>2. CASE DropWeakLoad(t)
  <2>1. CASE jn[t].rerun
    <3>1. /\ pc[t] = "dw_weak"
          /\ ReadOnly
          /\ UNCHANGED <<pd, op>>
          /\ Starts(t, item[t], "weak", "jan_lock")
          /\ jn'[t] = [IdleJanitor EXCEPT !.ret = "dw_weak"]
          /\ UNCHANGED dr
      BY <1>k, <1>2, <2>1, DropWeakLoadEffect
    <3> QED BY <1>k, <1>r, <1>f, <2>1, <3>1, SMTT(30) DEF Starts, ReadOnly, IdleJanitor, locals,
     client, heap, StrongStep, StrongRoom, Shape, Knows, Frames, HeldLive, Inc, Dec, LiveStrong,
     LastStrong, STRONG_DROPPED, StrongOf, StrongOnStart, StrongOnItem, StrongOnNew, At,
     HoldsValue, Ind, Janitoring, Updating, Upgrading, Dying, Live
  <2>2. CASE ~jn[t].rerun
    <3>1. /\ pc[t] = "dw_weak"
          /\ ReadOnly
          /\ UNCHANGED <<pd, op>>
          /\ pc'[t] = "dw_next"
          /\ dr'[t] = [dr[t] EXCEPT !.ww = weak[item[t]]]
          /\ UNCHANGED <<item, av, jn>>
      BY <1>k, <1>2, <2>2, DropWeakLoadEffect
    <3> QED BY <1>k, <1>r, <1>f, <2>2, <3>1, SMTT(30) DEF Starts, ReadOnly, IdleJanitor, locals,
     client, heap, StrongStep, StrongRoom, Shape, Knows, Frames, HeldLive, Inc, Dec, LiveStrong,
     LastStrong, STRONG_DROPPED, StrongOf, StrongOnStart, StrongOnItem, StrongOnNew, At,
     HoldsValue, Ind, Janitoring, Updating, Upgrading, Dying, Live
  <2> QED BY <2>1, <2>2
<1>3. CASE DropWeakNext(t)
  <2>1. CASE HasNext(item[t])
    <3>1. /\ pc[t] = "dw_next"
          /\ ReadOnly
          /\ UNCHANGED <<pd, op>>
          /\ Starts(t, item[t], "weak", "jan_lock")
          /\ jn'[t] = [IdleJanitor EXCEPT !.ret = "dw_weak"]
          /\ dr'[t] = [IdleDrop EXCEPT !.ret = dr[t].ret]
      BY <1>k, <1>3, <2>1, DropWeakNextEffect
    <3> QED BY <1>k, <1>r, <1>f, <2>1, <3>1, SMTT(30) DEF Starts, ReadOnly, IdleJanitor,
     IdleDrop, locals, client, heap, StrongStep, StrongRoom, Shape, Knows, Frames, HeldLive,
     Inc, Dec, LiveStrong, LastStrong, STRONG_DROPPED, StrongOf, StrongOnStart, StrongOnItem,
     StrongOnNew, At, HoldsValue, Ind, Janitoring, Updating, Upgrading, Dying, Live
  <2>2. CASE ~HasNext(item[t])
    <3>1. /\ pc[t] = "dw_next"
          /\ ReadOnly
          /\ UNCHANGED <<pd, op>>
          /\ pc'[t] = IF jn[t].status = "NoStrongRefsExist" THEN "dw_claim" ELSE "dw_cas"
          /\ UNCHANGED <<item, av, jn, dr>>
      BY <1>k, <1>3, <2>2, DropWeakNextEffect
    <3> QED BY <1>k, <1>r, <1>f, <2>2, <3>1, SMTT(30) DEF Starts, ReadOnly, IdleJanitor,
     IdleDrop, locals, client, heap, StrongStep, StrongRoom, Shape, Knows, Frames, HeldLive,
     Inc, Dec, LiveStrong, LastStrong, STRONG_DROPPED, StrongOf, StrongOnStart, StrongOnItem,
     StrongOnNew, At, HoldsValue, Ind, Janitoring, Updating, Upgrading, Dying, Live
  <2> QED BY <2>1, <2>2
<1>4. CASE ClaimTeardown(t)
  BY <1>k, <1>r, <1>f, <1>4, SMTT(30) DEF ClaimTeardown, StartPayloadDrop, Goto, OnlyStrong,
     locals, client, heap, StrongStep, StrongRoom, Shape, Knows, Frames, HeldLive, Inc, Dec,
     LiveStrong, LastStrong, STRONG_DROPPED, StrongOf, StrongOnStart, StrongOnItem, StrongOnNew,
     At, HoldsValue, Ind, Janitoring, Updating, Upgrading, Dying, Live
<1>5. CASE DropWeakCas(t)
  <2>1. CASE ~SameWeakWord(item[t], dr[t].ww)
    <3>1. /\ pc[t] = "dw_cas"
          /\ OnlyWeak
          /\ UNCHANGED <<pd, op>>
          /\ Starts(t, item[t], "weak", "jan_lock")
          /\ jn'[t] = [IdleJanitor EXCEPT !.ret = "dw_weak"]
          /\ dr'[t] = [IdleDrop EXCEPT !.ret = dr[t].ret]
          /\ UNCHANGED weak
      BY <1>k, <1>5, <2>1, DropWeakCasEffect
    <3> QED BY <1>k, <1>r, <1>f, <2>1, <3>1, SMTT(30) DEF Starts, OnlyWeak, SameWeakWord,
     IdleJanitor, IdleDrop, SoleUser, SubWeak, locals, client, heap, StrongStep, StrongRoom,
     Shape, Knows, Frames, HeldLive, Inc, Dec, LiveStrong, LastStrong, STRONG_DROPPED, StrongOf,
     StrongOnStart, StrongOnItem, StrongOnNew, At, HoldsValue, Ind, Janitoring, Updating,
     Upgrading, Dying, Live
  <2>2. CASE SameWeakWord(item[t], dr[t].ww) /\ SoleUser(dr[t].ww)
    <3>1. /\ pc[t] = "dw_cas"
          /\ OnlyWeak
          /\ UNCHANGED <<pd, op>>
          /\ SubWeak(item[t])
          /\ pc'[t] = "dw_free"
          /\ UNCHANGED <<item, av, jn, dr>>
      BY <1>k, <1>5, <2>2, DropWeakCasEffect
    <3> QED BY <1>k, <1>r, <1>f, <2>2, <3>1, SMTT(30) DEF Starts, OnlyWeak, SameWeakWord,
     IdleJanitor, IdleDrop, SoleUser, SubWeak, locals, client, heap, StrongStep, StrongRoom,
     Shape, Knows, Frames, HeldLive, Inc, Dec, LiveStrong, LastStrong, STRONG_DROPPED, StrongOf,
     StrongOnStart, StrongOnItem, StrongOnNew, At, HoldsValue, Ind, Janitoring, Updating,
     Upgrading, Dying, Live
  <2>3. CASE SameWeakWord(item[t], dr[t].ww) /\ ~SoleUser(dr[t].ww)
    <3>1. /\ pc[t] = "dw_cas"
          /\ OnlyWeak
          /\ UNCHANGED <<pd, op>>
          /\ SubWeak(item[t])
          /\ pc'[t] = dr[t].ret
          /\ dr'[t] = IdleDrop
          /\ jn'[t] = IdleJanitor
          /\ UNCHANGED <<item, av>>
      BY <1>k, <1>5, <2>3, DropWeakCasEffect
    <3>2. CASE dr[t].ret = "ret"
      BY <1>k, <1>r, <1>f, <2>3, <3>1, <3>2, SMTT(30) DEF Starts, OnlyWeak, SameWeakWord,
     IdleJanitor, IdleDrop, SoleUser, SubWeak, locals, client, heap, StrongStep, StrongRoom,
     Shape, Knows, Frames, HeldLive, Inc, Dec, LiveStrong, LastStrong, STRONG_DROPPED, StrongOf,
     StrongOnStart, StrongOnItem, StrongOnNew, At, HoldsValue, Ind, Janitoring, Updating,
     Upgrading, Dying, Live
    <3>3. CASE dr[t].ret = "sg_dec"
      BY <1>k, <1>r, <1>f, <2>3, <3>1, <3>3, SMTT(30) DEF Starts, OnlyWeak, SameWeakWord,
     IdleJanitor, IdleDrop, SoleUser, SubWeak, locals, client, heap, StrongStep, StrongRoom,
     Shape, Knows, Frames, HeldLive, Inc, Dec, LiveStrong, LastStrong, STRONG_DROPPED, StrongOf,
     StrongOnStart, StrongOnItem, StrongOnNew, At, HoldsValue, Ind, Janitoring, Updating,
     Upgrading, Dying, Live
    <3>4. dr[t].ret \in {"ret", "sg_dec"}
      BY <1>k, <1>r, <1>f, <3>1 DEF DropFrames, StrongRoom, Shape, Dying
    <3> QED BY <3>2, <3>3, <3>4
  <2> QED BY <2>1, <2>2, <2>3
<1>6. CASE DropWeakFree(t)
  <2>1. /\ pc[t] = "dw_free"
        /\ mem' = [mem EXCEPT ![item[t]] = "freed"]
        /\ drops' = IF next[item[t]].dropped THEN drops ELSE [drops EXCEPT ![item[t]] = @ + 1]
        /\ UNCHANGED <<next, prev, strong, weak, adv, client, pd>>
        /\ op'[t].f = op[t].f /\ op'[t].ok = op[t].ok /\ op'[t].guard = op[t].guard /\ op'[t].hnd = op[t].hnd /\ op'[t].out = op[t].out
        /\ pc'[t] = dr[t].ret
        /\ dr'[t] = IdleDrop
        /\ jn'[t] = IdleJanitor
        /\ UNCHANGED <<item, av>>
    BY <1>k, <1>6, DropWeakFreeEffect
  <2>2. CASE dr[t].ret = "ret"
    BY <1>k, <1>r, <1>f, <2>1, <2>2, SMTT(30) DEF Starts, IdleDrop, IdleJanitor, CallFrames,
     locals, client, heap, StrongStep, StrongRoom, Shape, Knows, Frames, HeldLive, Inc, Dec,
     LiveStrong, LastStrong, STRONG_DROPPED, StrongOf, StrongOnStart, StrongOnItem, StrongOnNew,
     At, HoldsValue, Ind, Janitoring, Updating, Upgrading, Dying, Live
  <2>3. CASE dr[t].ret = "sg_dec"
    BY <1>k, <1>r, <1>f, <2>1, <2>3, SMTT(30) DEF Starts, IdleDrop, IdleJanitor, CallFrames,
     locals, client, heap, StrongStep, StrongRoom, Shape, Knows, Frames, HeldLive, Inc, Dec,
     LiveStrong, LastStrong, STRONG_DROPPED, StrongOf, StrongOnStart, StrongOnItem, StrongOnNew,
     At, HoldsValue, Ind, Janitoring, Updating, Upgrading, Dying, Live
  <2>4. dr[t].ret \in {"ret", "sg_dec"}
    BY <1>k, <1>r, <1>f, <2>1 DEF DropFrames, StrongRoom, Shape, Dying
  <2> QED BY <2>2, <2>3, <2>4
<1> QED BY <1>1, <1>2, <1>3, <1>4, <1>5, <1>6 DEF DropStep

(* A step of an update changes a strong count by as much as it changes its *)
(* own strong references.                                                  *)
LEMMA UpdateStrongCount ==
  ASSUME OrderInv, TypeOK', NEW t \in Threads, NEW h \in Handles, StrongRoom(t, h), UpdateStep(t)
  PROVE  StrongStep(t, h)
<1> USE DEF Continues, DropShape
<1>k. Knows(pc[t], item[t], av[t], pd[t], jn[t], op[t]) /\ TypeOK
  BY RegistersTyped DEF OrderInv
<1>r. /\ pc \in [Threads -> Labels] /\ item \in [Threads -> Nodes] /\ av \in [Threads -> AdvanceFrames]
      /\ pd \in [Threads -> PayloadFrames] /\ jn \in [Threads -> JanitorFrames]
      /\ dr \in [Threads -> DropFrames] /\ op \in [Threads -> CallFrames]
      /\ strong \in [Nodes -> 0..UsizeMax] /\ UsizeMax \in Nat /\ mem \in [Nodes -> {"unused", "private", "live", "freed"}]
  BY HeapAssumption DEF OrderInv, TypeOK
<1>f. StrongRoom(t, h)
  OBVIOUS
<1>1. CASE UpdateNext(t)
  <2>1. CASE HasNext(item[t])
    <3>1. /\ pc[t] = "upd_next"
          /\ UNCHANGED <<client, pd, jn, dr>>
          /\ UNCHANGED <<next, adv, drops>>
          /\ Starts(t, item[t], "strong", "upd_next")
          /\ UNCHANGED <<heap, op>>
      BY <1>k, <1>1, <2>1, UpdateNextEffect
    <3> QED BY <1>k, <1>r, <1>f, FreshIsUnused, <2>1, <3>1, SMTT(30) DEF Starts, FreshNode,
     NewHolder, CallFrames, locals, client, heap, StrongStep, StrongRoom, Shape, Knows, Frames,
     HeldLive, Inc, Dec, LiveStrong, LastStrong, STRONG_DROPPED, StrongOf, StrongOnStart,
     StrongOnItem, StrongOnNew, At, HoldsValue, Ind, Janitoring, Updating, Upgrading, Dying,
     Live
  <2>2. CASE ~HasNext(item[t]) /\ op[t].val # Null
    <3>1. /\ pc[t] = "upd_next"
          /\ UNCHANGED <<client, pd, jn, dr>>
          /\ UNCHANGED <<next, adv, drops>>
          /\ pc'[t] = "upd_weak"
          /\ op'[t] = [op[t] EXCEPT !.nw = next[item[t]]]
          /\ prev' = [prev EXCEPT ![op[t].val] = item[t]]
          /\ UNCHANGED <<strong, weak, mem, item, av>>
      BY <1>k, <1>1, <2>2, UpdateNextEffect
    <3> QED BY <1>k, <1>r, <1>f, FreshIsUnused, <2>2, <3>1, SMTT(30) DEF Starts, FreshNode,
     NewHolder, CallFrames, locals, client, heap, StrongStep, StrongRoom, Shape, Knows, Frames,
     HeldLive, Inc, Dec, LiveStrong, LastStrong, STRONG_DROPPED, StrongOf, StrongOnStart,
     StrongOnItem, StrongOnNew, At, HoldsValue, Ind, Janitoring, Updating, Upgrading, Dying,
     Live
  <2>3. CASE ~HasNext(item[t]) /\ op[t].val = Null
    <3>1. /\ pc[t] = "upd_next"
          /\ UNCHANGED <<client, pd, jn, dr>>
          /\ UNCHANGED <<next, adv, drops>>
          /\ Unused # {}
          /\ pc'[t] = "upd_weak"
          /\ op'[t] = [op[t] EXCEPT !.val = FreshNode, !.nw = next[item[t]]]
          /\ NewHolder(FreshNode, item[t])
          /\ UNCHANGED <<item, av>>
      BY <1>k, <1>1, <2>3, UpdateNextEffect
    <3>2. FreshNode \in Nodes /\ mem[FreshNode] = "unused"
      BY <3>1, FreshIsUnused
    <3> QED BY <1>k, <1>r, <1>f, <2>3, <3>1, <3>2, SMTT(30) DEF Starts, NewHolder, CallFrames,
     locals, client, heap, StrongStep, StrongRoom, Shape, Knows, Frames, HeldLive, Inc, Dec,
     LiveStrong, LastStrong, STRONG_DROPPED, StrongOf, StrongOnStart, StrongOnItem, StrongOnNew,
     At, HoldsValue, Ind, Janitoring, Updating, Upgrading, Dying, Live
  <2> QED BY <2>1, <2>2, <2>3
<1>2. CASE RcuCancel(t)
  BY <1>k, <1>r, <1>f, <1>2, SMTT(30) DEF RcuCancel, Goto, locals, client, heap, StrongStep,
     StrongRoom, Shape, Knows, Frames, HeldLive, Inc, Dec, LiveStrong, LastStrong,
     STRONG_DROPPED, StrongOf, StrongOnStart, StrongOnItem, StrongOnNew, At, HoldsValue, Ind,
     Janitoring, Updating, Upgrading, Dying, Live
<1>3. CASE UpdateWeakInc(t)
  BY <1>k, <1>r, <1>f, <1>3, SMTT(30) DEF UpdateWeakInc, AddWeak, Goto, OnlyWeak, locals,
     client, heap, StrongStep, StrongRoom, Shape, Knows, Frames, HeldLive, Inc, Dec, LiveStrong,
     LastStrong, STRONG_DROPPED, StrongOf, StrongOnStart, StrongOnItem, StrongOnNew, At,
     HoldsValue, Ind, Janitoring, Updating, Upgrading, Dying, Live
<1>4. CASE UpdateCas(t)
  <2>1. CASE CanLink(item[t], op[t].nw)
    BY <1>k, <1>r, <1>f, <1>4, <2>1, SMTT(30) DEF UpdateCas, SetNext, Publish, Goto, NewNode,
     Linking, locals, client, heap, StrongStep, StrongRoom, Shape, Knows, Frames, HeldLive, Inc,
     Dec, LiveStrong, LastStrong, STRONG_DROPPED, StrongOf, StrongOnStart, StrongOnItem,
     StrongOnNew, At, HoldsValue, Ind, Janitoring, Updating, Upgrading, Dying, Live
  <2>2. CASE ~CanLink(item[t], op[t].nw)
    BY <1>k, <1>r, <1>f, <1>4, <2>2, SMTT(30) DEF UpdateCas, SetNext, Publish, Goto, NewNode,
     Linking, locals, client, heap, StrongStep, StrongRoom, Shape, Knows, Frames, HeldLive, Inc,
     Dec, LiveStrong, LastStrong, STRONG_DROPPED, StrongOf, StrongOnStart, StrongOnItem,
     StrongOnNew, At, HoldsValue, Ind, Janitoring, Updating, Upgrading, Dying, Live
  <2> QED BY <2>1, <2>2
<1>5. CASE UpdateFail(t)
  <2>1. /\ pc[t] = "upd_fail"
        /\ SubWeak(item[t])
        /\ OnlyWeak
        /\ UNCHANGED <<pd, jn, dr, op>>
        /\ Starts(t, item[t], "strong", "upd_next")
    BY <1>k, <1>5, UpdateFailEffect
  <2> QED BY <1>k, <1>r, <1>f, <2>1, SMTT(30) DEF Starts, SubWeak, OnlyWeak, locals, client,
     heap, StrongStep, StrongRoom, Shape, Knows, Frames, HeldLive, Inc, Dec, LiveStrong,
     LastStrong, STRONG_DROPPED, StrongOf, StrongOnStart, StrongOnItem, StrongOnNew, At,
     HoldsValue, Ind, Janitoring, Updating, Upgrading, Dying, Live
<1>6. CASE UpdateMark(t)
  BY <1>k, <1>r, <1>f, <1>6, SMTT(30) DEF UpdateMark, Goto, OnlyWeak, locals, client, heap,
     StrongStep, StrongRoom, Shape, Knows, Frames, HeldLive, Inc, Dec, LiveStrong, LastStrong,
     STRONG_DROPPED, StrongOf, StrongOnStart, StrongOnItem, StrongOnNew, At, HoldsValue, Ind,
     Janitoring, Updating, Upgrading, Dying, Live
<1>7. CASE UpdateDec(t)
  <2>1. CASE LastStrong(item[t])
    BY <1>k, <1>r, <1>f, <1>7, <2>1, SMTT(30) DEF UpdateDec, SubStrong, StartPayloadDrop, Goto,
     OnlyStrong, locals, client, heap, StrongStep, StrongRoom, Shape, Knows, Frames, HeldLive,
     Inc, Dec, LiveStrong, LastStrong, STRONG_DROPPED, StrongOf, StrongOnStart, StrongOnItem,
     StrongOnNew, At, HoldsValue, Ind, Janitoring, Updating, Upgrading, Dying, Live
  <2>2. CASE ~LastStrong(item[t])
    BY <1>k, <1>r, <1>f, <1>7, <2>2, SMTT(30) DEF UpdateDec, SubStrong, StartPayloadDrop, Goto,
     OnlyStrong, locals, client, heap, StrongStep, StrongRoom, Shape, Knows, Frames, HeldLive,
     Inc, Dec, LiveStrong, LastStrong, STRONG_DROPPED, StrongOf, StrongOnStart, StrongOnItem,
     StrongOnNew, At, HoldsValue, Ind, Janitoring, Updating, Upgrading, Dying, Live
  <2> QED BY <2>1, <2>2
<1>8. CASE UpdateDecWeak(t)
  BY <1>k, <1>r, <1>f, <1>8, SMTT(30) DEF UpdateDecWeak, SubWeak, Goto, OnlyWeak, locals,
     client, heap, StrongStep, StrongRoom, Shape, Knows, Frames, HeldLive, Inc, Dec, LiveStrong,
     LastStrong, STRONG_DROPPED, StrongOf, StrongOnStart, StrongOnItem, StrongOnNew, At,
     HoldsValue, Ind, Janitoring, Updating, Upgrading, Dying, Live
<1>9. CASE UpdateDone(t)
  <2>1. CASE jn[t].rerun
    <3>1. /\ pc[t] = "upd_done"
          /\ ReadOnly
          /\ UNCHANGED <<pd, jn, dr, op>>
          /\ Starts(t, item[t], "strong", "jan_lock")
      BY <1>k, <1>9, <2>1, UpdateDoneEffect
    <3> QED BY <1>k, <1>r, <1>f, <2>1, <3>1, SMTT(30) DEF Starts, ReadOnly, locals, client,
     heap, StrongStep, StrongRoom, Shape, Knows, Frames, HeldLive, Inc, Dec, LiveStrong,
     LastStrong, STRONG_DROPPED, StrongOf, StrongOnStart, StrongOnItem, StrongOnNew, At,
     HoldsValue, Ind, Janitoring, Updating, Upgrading, Dying, Live
  <2>2. CASE ~jn[t].rerun
    <3>1. /\ pc[t] = "upd_done"
          /\ ReadOnly
          /\ UNCHANGED <<pd, jn, dr, op>>
          /\ pc'[t] = "ret"
          /\ UNCHANGED <<item, av>>
      BY <1>k, <1>9, <2>2, UpdateDoneEffect
    <3> QED BY <1>k, <1>r, <1>f, <2>2, <3>1, SMTT(30) DEF Starts, ReadOnly, locals, client,
     heap, StrongStep, StrongRoom, Shape, Knows, Frames, HeldLive, Inc, Dec, LiveStrong,
     LastStrong, STRONG_DROPPED, StrongOf, StrongOnStart, StrongOnItem, StrongOnNew, At,
     HoldsValue, Ind, Janitoring, Updating, Upgrading, Dying, Live
  <2> QED BY <2>1, <2>2
<1> QED BY <1>1, <1>2, <1>3, <1>4, <1>5, <1>6, <1>7, <1>8, <1>9 DEF UpdateStep

(* A step of an upgrade changes a strong count by as much as it changes    *)
(* its own strong references.                                              *)
LEMMA UpgradeStrongCount ==
  ASSUME OrderInv, TypeOK', NEW t \in Threads, NEW h \in Handles, StrongRoom(t, h), UpgradeStep(t)
  PROVE  StrongStep(t, h)
<1> USE DEF Continues, DropShape
<1>k. Knows(pc[t], item[t], av[t], pd[t], jn[t], op[t]) /\ TypeOK
  BY RegistersTyped DEF OrderInv
<1>r. /\ pc \in [Threads -> Labels] /\ item \in [Threads -> Nodes] /\ av \in [Threads -> AdvanceFrames]
      /\ pd \in [Threads -> PayloadFrames] /\ jn \in [Threads -> JanitorFrames]
      /\ dr \in [Threads -> DropFrames] /\ op \in [Threads -> CallFrames]
      /\ strong \in [Nodes -> 0..UsizeMax] /\ UsizeMax \in Nat /\ mem \in [Nodes -> {"unused", "private", "live", "freed"}]
  BY HeapAssumption DEF OrderInv, TypeOK
<1>f. StrongRoom(t, h)
  OBVIOUS
<1>1. CASE UpgradeLoadStrong(t)
  BY <1>k, <1>r, <1>f, <1>1, SMTT(30) DEF UpgradeLoadStrong, Goto, ReadOnly, locals, client,
     heap, StrongStep, StrongRoom, Shape, Knows, Frames, HeldLive, Inc, Dec, LiveStrong,
     LastStrong, STRONG_DROPPED, StrongOf, StrongOnStart, StrongOnItem, StrongOnNew, At,
     HoldsValue, Ind, Janitoring, Updating, Upgrading, Dying, Live
<1>2. CASE UpgradeLoadNext(t)
  <2>1. CASE HasNext(item[t])
    <3>1. /\ pc[t] = "upg_next"
          /\ ReadOnly
          /\ UNCHANGED pd
          /\ Starts(t, item[t], "weak", "upg_strong")
          /\ UNCHANGED <<jn, dr, op>>
      BY <1>k, <1>2, <2>1, UpgradeLoadNextEffect
    <3> QED BY <1>k, <1>r, <1>f, <2>1, <3>1, SMTT(30) DEF Starts, ReadOnly, IdleJanitor,
     IdleDrop, locals, client, heap, StrongStep, StrongRoom, Shape, Knows, Frames, HeldLive,
     Inc, Dec, LiveStrong, LastStrong, STRONG_DROPPED, StrongOf, StrongOnStart, StrongOnItem,
     StrongOnNew, At, HoldsValue, Ind, Janitoring, Updating, Upgrading, Dying, Live
  <2>2. CASE ~HasNext(item[t]) /\ ValueIsGone(item[t], op[t].cs)
    <3>1. /\ pc[t] = "upg_next"
          /\ ReadOnly
          /\ UNCHANGED pd
          /\ Starts(t, item[t], "weak", "jan_lock")
          /\ jn'[t] = [IdleJanitor EXCEPT !.ret = "dw_weak"]
          /\ dr'[t] = [IdleDrop EXCEPT !.ret = "ret"]
          /\ op'[t] = [op[t] EXCEPT !.ok = FALSE]
      BY <1>k, <1>2, <2>2, UpgradeLoadNextEffect
    <3> QED BY <1>k, <1>r, <1>f, <2>2, <3>1, SMTT(30) DEF Starts, ReadOnly, IdleJanitor,
     IdleDrop, locals, client, heap, StrongStep, StrongRoom, Shape, Knows, Frames, HeldLive,
     Inc, Dec, LiveStrong, LastStrong, STRONG_DROPPED, StrongOf, StrongOnStart, StrongOnItem,
     StrongOnNew, At, HoldsValue, Ind, Janitoring, Updating, Upgrading, Dying, Live
  <2>3. CASE ~HasNext(item[t]) /\ ~ValueIsGone(item[t], op[t].cs)
    <3>1. /\ pc[t] = "upg_next"
          /\ ReadOnly
          /\ UNCHANGED pd
          /\ pc'[t] = IF op[t].cs = 0 THEN "upg_incw" ELSE "upg_cas"
          /\ UNCHANGED <<item, av, jn, dr, op>>
      BY <1>k, <1>2, <2>3, UpgradeLoadNextEffect
    <3> QED BY <1>k, <1>r, <1>f, <2>3, <3>1, SMTT(30) DEF Starts, ReadOnly, IdleJanitor,
     IdleDrop, locals, client, heap, StrongStep, StrongRoom, Shape, Knows, Frames, HeldLive,
     Inc, Dec, LiveStrong, LastStrong, STRONG_DROPPED, StrongOf, StrongOnStart, StrongOnItem,
     StrongOnNew, At, HoldsValue, Ind, Janitoring, Updating, Upgrading, Dying, Live
  <2> QED BY <2>1, <2>2, <2>3
<1>3. CASE UpgradeIncWeak(t)
  BY <1>k, <1>r, <1>f, <1>3, SMTT(30) DEF UpgradeIncWeak, AddWeak, Goto, OnlyWeak, locals,
     client, heap, StrongStep, StrongRoom, Shape, Knows, Frames, HeldLive, Inc, Dec, LiveStrong,
     LastStrong, STRONG_DROPPED, StrongOf, StrongOnStart, StrongOnItem, StrongOnNew, At,
     HoldsValue, Ind, Janitoring, Updating, Upgrading, Dying, Live
<1>4. CASE UpgradeCas(t)
  <2>1. CASE strong[item[t]] = op[t].cs
    <3>1. /\ pc[t] = "upg_cas"
          /\ OnlyStrong
          /\ UNCHANGED <<pd, jn, dr, op>>
          /\ AddStrong(item[t])
          /\ pc'[t] = "upg_check"
          /\ UNCHANGED <<item, av>>
      BY <1>k, <1>4, <2>1, UpgradeCasEffect
    <3> QED BY <1>k, <1>r, <1>f, <2>1, <3>1, SMTT(30) DEF Starts, OnlyStrong, AddStrong, locals,
     client, heap, StrongStep, StrongRoom, Shape, Knows, Frames, HeldLive, Inc, Dec, LiveStrong,
     LastStrong, STRONG_DROPPED, StrongOf, StrongOnStart, StrongOnItem, StrongOnNew, At,
     HoldsValue, Ind, Janitoring, Updating, Upgrading, Dying, Live
  <2>2. CASE strong[item[t]] # op[t].cs /\ op[t].cs = 0
    <3>1. /\ pc[t] = "upg_cas"
          /\ OnlyStrong
          /\ UNCHANGED <<pd, jn, dr, op>>
          /\ pc'[t] = "upg_race"
          /\ UNCHANGED <<strong, item, av>>
      BY <1>k, <1>4, <2>2, UpgradeCasEffect
    <3> QED BY <1>k, <1>r, <1>f, <2>2, <3>1, SMTT(30) DEF Starts, OnlyStrong, AddStrong, locals,
     client, heap, StrongStep, StrongRoom, Shape, Knows, Frames, HeldLive, Inc, Dec, LiveStrong,
     LastStrong, STRONG_DROPPED, StrongOf, StrongOnStart, StrongOnItem, StrongOnNew, At,
     HoldsValue, Ind, Janitoring, Updating, Upgrading, Dying, Live
  <2>3. CASE strong[item[t]] # op[t].cs /\ op[t].cs # 0
    <3>1. /\ pc[t] = "upg_cas"
          /\ OnlyStrong
          /\ UNCHANGED <<pd, jn, dr, op>>
          /\ Starts(t, item[t], "weak", "upg_strong")
          /\ UNCHANGED strong
      BY <1>k, <1>4, <2>3, UpgradeCasEffect
    <3> QED BY <1>k, <1>r, <1>f, <2>3, <3>1, SMTT(30) DEF Starts, OnlyStrong, AddStrong, locals,
     client, heap, StrongStep, StrongRoom, Shape, Knows, Frames, HeldLive, Inc, Dec, LiveStrong,
     LastStrong, STRONG_DROPPED, StrongOf, StrongOnStart, StrongOnItem, StrongOnNew, At,
     HoldsValue, Ind, Janitoring, Updating, Upgrading, Dying, Live
  <2> QED BY <2>1, <2>2, <2>3
<1>5. CASE UpgradeRaceDecWeak(t)
  <2>1. /\ pc[t] = "upg_race"
        /\ SubWeak(item[t])
        /\ OnlyWeak
        /\ UNCHANGED <<pd, jn, dr, op>>
        /\ Starts(t, item[t], "weak", "upg_strong")
    BY <1>k, <1>5, UpgradeRaceDecWeakEffect
  <2> QED BY <1>k, <1>r, <1>f, <2>1, SMTT(30) DEF Starts, SubWeak, OnlyWeak, locals, client,
     heap, StrongStep, StrongRoom, Shape, Knows, Frames, HeldLive, Inc, Dec, LiveStrong,
     LastStrong, STRONG_DROPPED, StrongOf, StrongOnStart, StrongOnItem, StrongOnNew, At,
     HoldsValue, Ind, Janitoring, Updating, Upgrading, Dying, Live
<1>6. CASE UpgradeCheck(t)
  BY <1>k, <1>r, <1>f, <1>6, SMTT(30) DEF UpgradeCheck, Goto, ReadOnly, locals, client, heap,
     StrongStep, StrongRoom, Shape, Knows, Frames, HeldLive, Inc, Dec, LiveStrong, LastStrong,
     STRONG_DROPPED, StrongOf, StrongOnStart, StrongOnItem, StrongOnNew, At, HoldsValue, Ind,
     Janitoring, Updating, Upgrading, Dying, Live
<1>7. CASE UpgradeUndo(t)
  <2>1. CASE LastStrong(item[t])
    <3>1. /\ pc[t] = "upg_undo"
          /\ SubStrong(item[t])
          /\ OnlyStrong
          /\ UNCHANGED <<pd, jn, dr, op>>
          /\ pc'[t] = "upg_undo_decw"
          /\ UNCHANGED <<item, av>>
      BY <1>k, <1>7, <2>1, UpgradeUndoEffect
    <3> QED BY <1>k, <1>r, <1>f, <2>1, <3>1, SMTT(30) DEF Starts, SubStrong, OnlyStrong, locals,
     client, heap, StrongStep, StrongRoom, Shape, Knows, Frames, HeldLive, Inc, Dec, LiveStrong,
     LastStrong, STRONG_DROPPED, StrongOf, StrongOnStart, StrongOnItem, StrongOnNew, At,
     HoldsValue, Ind, Janitoring, Updating, Upgrading, Dying, Live
  <2>2. CASE ~LastStrong(item[t])
    <3>1. /\ pc[t] = "upg_undo"
          /\ SubStrong(item[t])
          /\ OnlyStrong
          /\ UNCHANGED <<pd, jn, dr, op>>
          /\ Starts(t, item[t], "weak", "upg_strong")
      BY <1>k, <1>7, <2>2, UpgradeUndoEffect
    <3> QED BY <1>k, <1>r, <1>f, <2>2, <3>1, SMTT(30) DEF Starts, SubStrong, OnlyStrong, locals,
     client, heap, StrongStep, StrongRoom, Shape, Knows, Frames, HeldLive, Inc, Dec, LiveStrong,
     LastStrong, STRONG_DROPPED, StrongOf, StrongOnStart, StrongOnItem, StrongOnNew, At,
     HoldsValue, Ind, Janitoring, Updating, Upgrading, Dying, Live
  <2> QED BY <2>1, <2>2
<1>8. CASE UpgradeUndoDecWeak(t)
  <2>1. /\ pc[t] = "upg_undo_decw"
        /\ SubWeak(item[t])
        /\ OnlyWeak
        /\ UNCHANGED <<pd, jn, dr, op>>
        /\ Starts(t, item[t], "weak", "upg_strong")
    BY <1>k, <1>8, UpgradeUndoDecWeakEffect
  <2> QED BY <1>k, <1>r, <1>f, <2>1, SMTT(30) DEF Starts, SubWeak, OnlyWeak, locals, client,
     heap, StrongStep, StrongRoom, Shape, Knows, Frames, HeldLive, Inc, Dec, LiveStrong,
     LastStrong, STRONG_DROPPED, StrongOf, StrongOnStart, StrongOnItem, StrongOnNew, At,
     HoldsValue, Ind, Janitoring, Updating, Upgrading, Dying, Live
<1>9. CASE UpgradeDone(t)
  BY <1>k, <1>r, <1>f, <1>9, SMTT(30) DEF UpgradeDone, SubWeak, Goto, OnlyWeak, locals, client,
     heap, StrongStep, StrongRoom, Shape, Knows, Frames, HeldLive, Inc, Dec, LiveStrong,
     LastStrong, STRONG_DROPPED, StrongOf, StrongOnStart, StrongOnItem, StrongOnNew, At,
     HoldsValue, Ind, Janitoring, Updating, Upgrading, Dying, Live
<1> QED BY <1>1, <1>2, <1>3, <1>4, <1>5, <1>6, <1>7, <1>8, <1>9 DEF UpgradeStep

(* A step of the remaining code of the public calls changes a strong count *)
(* by as much as it changes its own strong references.                     *)
LEMMA ApiStrongCount ==
  ASSUME OrderInv, TypeOK', NEW t \in Threads, NEW h \in Handles, StrongRoom(t, h), ApiStep(t),
         ~Return(t)
  PROVE  StrongStep(t, h)
<1> USE DEF Continues, DropShape
<1>k. Knows(pc[t], item[t], av[t], pd[t], jn[t], op[t]) /\ TypeOK
  BY RegistersTyped DEF OrderInv
<1>r. /\ pc \in [Threads -> Labels] /\ item \in [Threads -> Nodes] /\ av \in [Threads -> AdvanceFrames]
      /\ pd \in [Threads -> PayloadFrames] /\ jn \in [Threads -> JanitorFrames]
      /\ dr \in [Threads -> DropFrames] /\ op \in [Threads -> CallFrames]
      /\ strong \in [Nodes -> 0..UsizeMax] /\ UsizeMax \in Nat /\ mem \in [Nodes -> {"unused", "private", "live", "freed"}]
  BY HeapAssumption DEF OrderInv, TypeOK
<1>f. StrongRoom(t, h)
  OBVIOUS
<1>1. CASE GetLoad(t)
  <2>1. CASE NeedsReload(op[t].f, item[t])
    <3>1. /\ pc[t] = "get_load"
          /\ ReadOnly
          /\ UNCHANGED <<pd, dr, op>>
          /\ Starts(t, item[t], "strong", "jan_lock")
          /\ jn'[t].ret = "get_done"
      BY <1>k, <1>1, <2>1, GetLoadEffect
    <3> QED BY <1>k, <1>r, <1>f, <2>1, <3>1, SMTT(30) DEF Starts, ReadOnly, NeedsReload,
     AfterReload, locals, client, heap, StrongStep, StrongRoom, Shape, Knows, Frames, HeldLive,
     Inc, Dec, LiveStrong, LastStrong, STRONG_DROPPED, StrongOf, StrongOnStart, StrongOnItem,
     StrongOnNew, At, HoldsValue, Ind, Janitoring, Updating, Upgrading, Dying, Live
  <2>2. CASE ~NeedsReload(op[t].f, item[t])
    <3>1. /\ pc[t] = "get_load"
          /\ ReadOnly
          /\ UNCHANGED <<pd, dr, op>>
          /\ pc'[t] = AfterReload(op[t].f)
          /\ UNCHANGED <<item, av, jn>>
      BY <1>k, <1>1, <2>2, GetLoadEffect
    <3> QED BY <1>k, <1>r, <1>f, <2>2, <3>1, SMTT(30) DEF Starts, ReadOnly, NeedsReload,
     AfterReload, locals, client, heap, StrongStep, StrongRoom, Shape, Knows, Frames, HeldLive,
     Inc, Dec, LiveStrong, LastStrong, STRONG_DROPPED, StrongOf, StrongOnStart, StrongOnItem,
     StrongOnNew, At, HoldsValue, Ind, Janitoring, Updating, Upgrading, Dying, Live
  <2> QED BY <2>1, <2>2
<1>2. CASE GetDone(t)
  <2>1. CASE jn[t].rerun
    <3>1. /\ pc[t] = "get_done"
          /\ ReadOnly
          /\ UNCHANGED <<pd, jn, dr, op>>
          /\ Starts(t, item[t], "strong", "jan_lock")
      BY <1>k, <1>2, <2>1, GetDoneEffect
    <3> QED BY <1>k, <1>r, <1>f, <2>1, <3>1, SMTT(30) DEF Starts, ReadOnly, AfterReload, locals,
     client, heap, StrongStep, StrongRoom, Shape, Knows, Frames, HeldLive, Inc, Dec, LiveStrong,
     LastStrong, STRONG_DROPPED, StrongOf, StrongOnStart, StrongOnItem, StrongOnNew, At,
     HoldsValue, Ind, Janitoring, Updating, Upgrading, Dying, Live
  <2>2. CASE ~jn[t].rerun
    <3>1. /\ pc[t] = "get_done"
          /\ ReadOnly
          /\ UNCHANGED <<pd, jn, dr, op>>
          /\ pc'[t] = AfterReload(op[t].f)
          /\ UNCHANGED <<item, av>>
      BY <1>k, <1>2, <2>2, GetDoneEffect
    <3> QED BY <1>k, <1>r, <1>f, <2>2, <3>1, SMTT(30) DEF Starts, ReadOnly, AfterReload, locals,
     client, heap, StrongStep, StrongRoom, Shape, Knows, Frames, HeldLive, Inc, Dec, LiveStrong,
     LastStrong, STRONG_DROPPED, StrongOf, StrongOnStart, StrongOnItem, StrongOnNew, At,
     HoldsValue, Ind, Janitoring, Updating, Upgrading, Dying, Live
  <2> QED BY <2>1, <2>2
<1>3. CASE TryGetMutWeak(t)
  BY <1>k, <1>r, <1>f, <1>3, SMTT(30) DEF TryGetMutWeak, Goto, ReadOnly, locals, client, heap,
     StrongStep, StrongRoom, Shape, Knows, Frames, HeldLive, Inc, Dec, LiveStrong, LastStrong,
     STRONG_DROPPED, StrongOf, StrongOnStart, StrongOnItem, StrongOnNew, At, HoldsValue, Ind,
     Janitoring, Updating, Upgrading, Dying, Live
<1>4. CASE TryGetMutStrong(t)
  BY <1>k, <1>r, <1>f, <1>4, SMTT(30) DEF TryGetMutStrong, Goto, ReadOnly, locals, client, heap,
     StrongStep, StrongRoom, Shape, Knows, Frames, HeldLive, Inc, Dec, LiveStrong, LastStrong,
     STRONG_DROPPED, StrongOf, StrongOnStart, StrongOnItem, StrongOnNew, At, HoldsValue, Ind,
     Janitoring, Updating, Upgrading, Dying, Live
<1>5. CASE TryGetMutAgain(t)
  BY <1>k, <1>r, <1>f, <1>5, SMTT(30) DEF TryGetMutAgain, Goto, ReadOnly, locals, client, heap,
     StrongStep, StrongRoom, Shape, Knows, Frames, HeldLive, Inc, Dec, LiveStrong, LastStrong,
     STRONG_DROPPED, StrongOf, StrongOnStart, StrongOnItem, StrongOnNew, At, HoldsValue, Ind,
     Janitoring, Updating, Upgrading, Dying, Live
<1>6. CASE SharedGetLoad(t)
  <2>1. CASE HasNext(Base(t))
    BY <1>k, <1>r, <1>f, <1>6, <2>1, SMTT(30) DEF SharedGetLoad, Goto, ReadOnly, CallFrames,
     locals, client, heap, StrongStep, StrongRoom, Shape, Knows, Frames, HeldLive, Inc, Dec,
     LiveStrong, LastStrong, STRONG_DROPPED, StrongOf, StrongOnStart, StrongOnItem, StrongOnNew,
     At, HoldsValue, Ind, Janitoring, Updating, Upgrading, Dying, Live
  <2>2. CASE ~HasNext(Base(t))
    BY <1>k, <1>r, <1>f, <1>6, <2>2, SMTT(30) DEF SharedGetLoad, Goto, ReadOnly, CallFrames,
     locals, client, heap, StrongStep, StrongRoom, Shape, Knows, Frames, HeldLive, Inc, Dec,
     LiveStrong, LastStrong, STRONG_DROPPED, StrongOf, StrongOnStart, StrongOnItem, StrongOnNew,
     At, HoldsValue, Ind, Janitoring, Updating, Upgrading, Dying, Live
  <2> QED BY <2>1, <2>2
<1>7. CASE SharedGetInc(t)
  BY <1>k, <1>r, <1>f, <1>7, SMTT(30) DEF SharedGetInc, Goto, OnlyAdv, locals, client, heap,
     StrongStep, StrongRoom, Shape, Knows, Frames, HeldLive, Inc, Dec, LiveStrong, LastStrong,
     STRONG_DROPPED, StrongOf, StrongOnStart, StrongOnItem, StrongOnNew, At, HoldsValue, Ind,
     Janitoring, Updating, Upgrading, Dying, Live
<1>8. CASE SharedGetNext(t)
  BY <1>k, <1>r, <1>f, <1>8, SMTT(30) DEF SharedGetNext, Goto, ReadOnly, locals, client, heap,
     StrongStep, StrongRoom, Shape, Knows, Frames, HeldLive, Inc, Dec, LiveStrong, LastStrong,
     STRONG_DROPPED, StrongOf, StrongOnStart, StrongOnItem, StrongOnNew, At, HoldsValue, Ind,
     Janitoring, Updating, Upgrading, Dying, Live
<1>9. CASE SharedGetStrong(t)
  BY <1>k, <1>r, <1>f, <1>9, SMTT(30) DEF SharedGetStrong, Goto, ReadOnly, locals, client, heap,
     StrongStep, StrongRoom, Shape, Knows, Frames, HeldLive, Inc, Dec, LiveStrong, LastStrong,
     STRONG_DROPPED, StrongOf, StrongOnStart, StrongOnItem, StrongOnNew, At, HoldsValue, Ind,
     Janitoring, Updating, Upgrading, Dying, Live
<1>10. CASE SharedGetCas(t)
  <2>1. CASE strong[op[t].nxt] = op[t].cs
    BY <1>k, <1>r, <1>f, <1>10, <2>1, SMTT(30) DEF SharedGetCas, AddStrong, Goto, OnlyStrong,
     locals, client, heap, StrongStep, StrongRoom, Shape, Knows, Frames, HeldLive, Inc, Dec,
     LiveStrong, LastStrong, STRONG_DROPPED, StrongOf, StrongOnStart, StrongOnItem, StrongOnNew,
     At, HoldsValue, Ind, Janitoring, Updating, Upgrading, Dying, Live
  <2>2. CASE strong[op[t].nxt] # op[t].cs
    BY <1>k, <1>r, <1>f, <1>10, <2>2, SMTT(30) DEF SharedGetCas, AddStrong, Goto, OnlyStrong,
     locals, client, heap, StrongStep, StrongRoom, Shape, Knows, Frames, HeldLive, Inc, Dec,
     LiveStrong, LastStrong, STRONG_DROPPED, StrongOf, StrongOnStart, StrongOnItem, StrongOnNew,
     At, HoldsValue, Ind, Janitoring, Updating, Upgrading, Dying, Live
  <2> QED BY <2>1, <2>2
<1>11. CASE SharedGetRecheck(t)
  <2>1. CASE HasNext(op[t].nxt)
    <3>1. /\ pc[t] = "sg_recheck"
          /\ ReadOnly
          /\ UNCHANGED <<pd, jn, op>>
          /\ Starts(t, op[t].nxt, "strong", "ds_dec")
          /\ dr'[t] = [IdleDrop EXCEPT !.ret = "sg_dec"]
      BY <1>k, <1>11, <2>1, SharedGetRecheckEffect
    <3> QED BY <1>k, <1>r, <1>f, <2>1, <3>1, SMTT(30) DEF Starts, ReadOnly, IdleDrop, locals,
     client, heap, StrongStep, StrongRoom, Shape, Knows, Frames, HeldLive, Inc, Dec, LiveStrong,
     LastStrong, STRONG_DROPPED, StrongOf, StrongOnStart, StrongOnItem, StrongOnNew, At,
     HoldsValue, Ind, Janitoring, Updating, Upgrading, Dying, Live
  <2>2. CASE ~HasNext(op[t].nxt)
    <3>1. /\ pc[t] = "sg_recheck"
          /\ ReadOnly
          /\ UNCHANGED <<pd, jn, op>>
          /\ pc'[t] = "sg_light"
          /\ UNCHANGED <<item, av, dr>>
      BY <1>k, <1>11, <2>2, SharedGetRecheckEffect
    <3> QED BY <1>k, <1>r, <1>f, <2>2, <3>1, SMTT(30) DEF Starts, ReadOnly, IdleDrop, locals,
     client, heap, StrongStep, StrongRoom, Shape, Knows, Frames, HeldLive, Inc, Dec, LiveStrong,
     LastStrong, STRONG_DROPPED, StrongOf, StrongOnStart, StrongOnItem, StrongOnNew, At,
     HoldsValue, Ind, Janitoring, Updating, Upgrading, Dying, Live
  <2> QED BY <2>1, <2>2
<1>12. CASE SharedGetLight(t)
  BY <1>k, <1>r, <1>f, <1>12, SMTT(30) DEF SharedGetLight, Goto, OnlyAdv, locals, client, heap,
     StrongStep, StrongRoom, Shape, Knows, Frames, HeldLive, Inc, Dec, LiveStrong, LastStrong,
     STRONG_DROPPED, StrongOf, StrongOnStart, StrongOnItem, StrongOnNew, At, HoldsValue, Ind,
     Janitoring, Updating, Upgrading, Dying, Live
<1>13. CASE SharedGetDec(t)
  BY <1>k, <1>r, <1>f, <1>13, SMTT(30) DEF SharedGetDec, Goto, OnlyAdv, locals, client, heap,
     StrongStep, StrongRoom, Shape, Knows, Frames, HeldLive, Inc, Dec, LiveStrong, LastStrong,
     STRONG_DROPPED, StrongOf, StrongOnStart, StrongOnItem, StrongOnNew, At, HoldsValue, Ind,
     Janitoring, Updating, Upgrading, Dying, Live
<1>14. CASE SharedGetClone(t)
  <2>1. /\ pc[t] = "sg_clone"
        /\ AddStrong(Base(t))
        /\ OnlyStrong
        /\ UNCHANGED <<pd, jn, dr>>
        /\ Starts(t, Base(t), "strong", "reading")
        /\ op'[t] = [op[t] EXCEPT !.guard = "full"]
    BY <1>k, <1>14, SharedGetCloneEffect
  <2> QED BY <1>k, <1>r, <1>f, <2>1, SMTT(30) DEF Starts, AddStrong, OnlyStrong, locals, client,
     heap, StrongStep, StrongRoom, Shape, Knows, Frames, HeldLive, Inc, Dec, LiveStrong,
     LastStrong, STRONG_DROPPED, StrongOf, StrongOnStart, StrongOnItem, StrongOnNew, At,
     HoldsValue, Ind, Janitoring, Updating, Upgrading, Dying, Live
<1>15. CASE FinishReading(t)
  <2>1. CASE op[t].guard \in {"light", "full"}
    <3>1. /\ pc[t] \in {"reading", "mutref"}
          /\ ReadOnly
          /\ UNCHANGED <<pd, jn, op>>
          /\ Starts(t, item[t], "strong", "ds_dec")
          /\ dr'[t] = [IdleDrop EXCEPT !.ret = "ret"]
      BY <1>k, <1>15, <2>1, FinishReadingEffect
    <3>2. CASE pc[t] = "reading"
      BY <1>k, <1>r, <1>f, <2>1, <3>1, <3>2, SMTT(30) DEF Starts, ReadOnly, IdleDrop,
     CallFrames, locals, client, heap, StrongStep, StrongRoom, Shape, Knows, Frames, HeldLive,
     Inc, Dec, LiveStrong, LastStrong, STRONG_DROPPED, StrongOf, StrongOnStart, StrongOnItem,
     StrongOnNew, At, HoldsValue, Ind, Janitoring, Updating, Upgrading, Dying, Live
    <3>3. CASE pc[t] = "mutref"
      BY <1>k, <1>r, <1>f, <2>1, <3>1, <3>3, SMTT(30) DEF Starts, ReadOnly, IdleDrop,
     CallFrames, locals, client, heap, StrongStep, StrongRoom, Shape, Knows, Frames, HeldLive,
     Inc, Dec, LiveStrong, LastStrong, STRONG_DROPPED, StrongOf, StrongOnStart, StrongOnItem,
     StrongOnNew, At, HoldsValue, Ind, Janitoring, Updating, Upgrading, Dying, Live
    <3> QED BY <3>1, <3>2, <3>3
  <2>2. CASE op[t].guard \notin {"light", "full"}
    <3>1. /\ pc[t] \in {"reading", "mutref"}
          /\ ReadOnly
          /\ UNCHANGED <<pd, jn, op>>
          /\ pc'[t] = "ret"
          /\ UNCHANGED <<item, av, dr>>
      BY <1>k, <1>15, <2>2, FinishReadingEffect
    <3>2. CASE pc[t] = "reading"
      BY <1>k, <1>r, <1>f, <2>2, <3>1, <3>2, SMTT(30) DEF Starts, ReadOnly, IdleDrop,
     CallFrames, locals, client, heap, StrongStep, StrongRoom, Shape, Knows, Frames, HeldLive,
     Inc, Dec, LiveStrong, LastStrong, STRONG_DROPPED, StrongOf, StrongOnStart, StrongOnItem,
     StrongOnNew, At, HoldsValue, Ind, Janitoring, Updating, Upgrading, Dying, Live
    <3>3. CASE pc[t] = "mutref"
      BY <1>k, <1>r, <1>f, <2>2, <3>1, <3>3, SMTT(30) DEF Starts, ReadOnly, IdleDrop,
     CallFrames, locals, client, heap, StrongStep, StrongRoom, Shape, Knows, Frames, HeldLive,
     Inc, Dec, LiveStrong, LastStrong, STRONG_DROPPED, StrongOf, StrongOnStart, StrongOnItem,
     StrongOnNew, At, HoldsValue, Ind, Janitoring, Updating, Upgrading, Dying, Live
    <3> QED BY <3>1, <3>2, <3>3
  <2> QED BY <2>1, <2>2
<1> QED BY <1>1, <1>2, <1>3, <1>4, <1>5, <1>6, <1>7, <1>8, <1>9, <1>10, <1>11, <1>12, <1>13,
  <1>14, <1>15 DEF ApiStep

(* The entry of a call changes a strong count by as much as it changes the *)
(* strong references of its thread and handles.                            *)
LEMMA CallStrongCount ==
  ASSUME OrderInv, TypeOK', NEW t \in Threads, \A h \in Handles : StrongRoom(t, h), Call(t)
  PROVE  \E x \in Handles : StrongStep(t, x) /\ \A g \in Handles \ {x} : handle'[g] = handle[g]
<1>k. Knows(pc[t], item[t], av[t], pd[t], jn[t], op[t]) /\ TypeOK
  BY RegistersTyped DEF OrderInv
<1>r. /\ pc \in [Threads -> Labels] /\ item \in [Threads -> Nodes] /\ av \in [Threads -> AdvanceFrames]
      /\ pd \in [Threads -> PayloadFrames] /\ jn \in [Threads -> JanitorFrames]
      /\ dr \in [Threads -> DropFrames] /\ op \in [Threads -> CallFrames]
      /\ strong \in [Nodes -> 0..UsizeMax] /\ UsizeMax \in Nat /\ mem \in [Nodes -> {"unused", "private", "live", "freed"}]
      /\ handle \in [Handles -> HandleStates]
  BY HeapAssumption DEF OrderInv, TypeOK
<1>f. \A h \in Handles : StrongRoom(t, h)
  OBVIOUS
<1>1. ASSUME NEW h \in Handles, NEW o \in Handles, Clone(t, h, o) PROVE StrongStep(t, o) /\ \A g \in Handles \ {o} : handle'[g] = handle[g]
  <2>1. /\ Entered(t, "clone", h, o, Null)
        /\ handle[h].kind = "strong"
        /\ handle[o].kind = "none"
        /\ handle' = [handle EXCEPT ![o] = Busy]
        /\ AddStrong(handle[h].node)
        /\ Starts(t, handle[h].node, "strong", "ret")
        /\ UNCHANGED <<next, prev, weak, adv, mem, drops, jn, dr>>
    BY <1>k, <1>1, CloneEffect
  <2>3. /\ \A g \in Handles \ {o} : handle'[g] = handle[g]
        /\ handle[h] = [kind |-> "strong", node |-> handle[h].node] /\ handle[h].node \in Nodes
        /\ \A n : handle[o] # [kind |-> "strong", node |-> n] /\ handle'[o] # [kind |-> "strong", node |-> n]
    BY <1>r, <2>1 DEF HandleStates, Busy
  <2>4. \A n \in Nodes : StrongOf(t, o, n) = 0 /\ StrongOf(t, o, n)' = Ind(handle[h].node = n)
    BY <1>r, <2>1, <2>3, SMTT(30) DEF StrongOf, StrongOnStart, StrongOnItem, StrongOnNew, At,
     HoldsValue, Janitoring, Starts, Entered, Walking, Swapping, SwappedIn, Ind
  <2>5. \A n \in Nodes : Live(n) /\ handle[h].node = n => LiveStrong(strong[n]) >= 1 /\ LiveStrong(strong[n]) + 1 < UsizeMax
    <3>1. \A n \in Nodes : handle[h].node = n => StrongOf(t, h, n) = 1
      BY <1>r, <2>1, <2>3, SMTT(30) DEF StrongOf, StrongOnStart, StrongOnItem, StrongOnNew, At,
     HoldsValue, Janitoring, Starts, Entered, Walking, Swapping, SwappedIn, Ind
    <3>2. StrongRoom(t, h)
      BY <1>f
    <3> QED BY <3>1, <3>2 DEF StrongRoom
  <2>6. StrongStep(t, o)
    BY <1>r, <2>1, <2>3, <2>4, <2>5, SMTT(30) DEF StrongStep, AddStrong, Inc, LiveStrong,
     STRONG_DROPPED, Ind, Live
  <2> QED BY <1>r, <2>3, <2>6, SMTT(30)
<1>2. ASSUME NEW h \in Handles, NEW o \in Handles, NEW f \in {"downgrade", "cloneWeak"}, CloneWeak(t, f, h, o) PROVE StrongStep(t, o) /\ \A g \in Handles \ {o} : handle'[g] = handle[g]
  <2>1. /\ pc[t] = "idle"
        /\ handle[h].kind = IF f = "downgrade" THEN "strong" ELSE "weak"
        /\ handle[o].kind = "none"
        /\ handle' = [handle EXCEPT ![o] = [kind |-> "weak", node |-> handle[h].node]]
        /\ AddWeak(handle[h].node)
        /\ UNCHANGED <<next, prev, strong, adv, mem, drops, stamp, count, pc, locals>>
    BY <1>k, <1>2, CloneWeakEffect
  <2> QED BY <1>k, <1>r, <1>f, <2>1, SMTT(30) DEF AddWeak, locals, StrongStep, StrongRoom,
     Shape, Inc, Dec, LiveStrong, STRONG_DROPPED, StrongOf, StrongOnStart, StrongOnItem,
     StrongOnNew, At, HoldsValue, Ind, Janitoring, Updating, Upgrading, Dying, Live, heap,
     locals, client, IdleAdvance, IdleOp
<1>3. ASSUME NEW h \in Handles, NEW o \in Handles, Upgrade(t, h, o) PROVE StrongStep(t, o) /\ \A g \in Handles \ {o} : handle'[g] = handle[g]
  <2>1. /\ Entered(t, "upgrade", h, o, Null)
        /\ handle[h].kind = "weak"
        /\ handle[o].kind = "none"
        /\ handle' = [handle EXCEPT ![o] = Busy]
        /\ AddWeak(handle[h].node)
        /\ Starts(t, handle[h].node, "weak", "upg_strong")
        /\ UNCHANGED <<next, prev, strong, adv, mem, drops, jn, dr>>
    BY <1>k, <1>3, UpgradeEffect
  <2> QED BY <1>k, <1>r, <1>f, <2>1, SMTT(30) DEF Entered, Busy, AddWeak, Starts, StrongStep,
     StrongRoom, Shape, Inc, Dec, LiveStrong, STRONG_DROPPED, StrongOf, StrongOnStart,
     StrongOnItem, StrongOnNew, At, HoldsValue, Ind, Janitoring, Updating, Upgrading, Dying,
     Live, heap, locals, client, IdleAdvance, IdleOp
<1>4. ASSUME NEW h \in Handles, Update(t, h) PROVE StrongStep(t, h) /\ \A g \in Handles \ {h} : handle'[g] = handle[g]
  <2>1. /\ Unused # {}
        /\ Entered(t, "update", h, h, FreshNode)
        /\ handle[h].kind = "strong"
        /\ \A u \in Threads : pc[u] # "idle" => op[u].hnd # h
        /\ handle' = [handle EXCEPT ![h] = Busy]
        /\ NewHolder(FreshNode, handle[h].node)
        /\ Starts(t, handle[h].node, "strong", "upd_next")
        /\ UNCHANGED <<next, adv, drops, jn, dr>>
    BY <1>k, <1>4, UpdateEffect
  <2>2. FreshNode \in Nodes /\ mem[FreshNode] = "unused" /\ ~Published(FreshNode)
    BY <2>1, FreshIsUnused
  <2>3. /\ \A g \in Handles \ {h} : handle'[g] = handle[g]
        /\ \A n : handle[h] = [kind |-> "strong", node |-> n] <=> handle[h].node = n
        /\ \A n : handle'[h] # [kind |-> "strong", node |-> n]
    BY <1>r, <2>1 DEF HandleStates, Busy
  <2>4. \A n \in Nodes : StrongOf(t, h, n) = Ind(handle[h].node = n) /\ StrongOf(t, h, n)' = Ind(handle[h].node = n)
    <3>1. ASSUME NEW n \in Nodes PROVE StrongOf(t, h, n) = Ind(handle[h].node = n)
      <4>1. Ind(handle[h] = [kind |-> "strong", node |-> n]) = Ind(handle[h].node = n)
        BY <2>3 DEF Ind
      <4>2. ~StrongOnStart(t) /\ ~StrongOnItem(t) /\ ~StrongOnNew(t) /\ pc[t] \notin {"sg_recheck", "sg_light"}
        BY <1>r, <2>1 DEF StrongOf, StrongOnStart, StrongOnItem, StrongOnNew, At, HoldsValue,
     Janitoring, Starts, Entered, Walking, Swapping, SwappedIn
      <4> QED BY <4>1, <4>2 DEF StrongOf, Ind
    <3>2. \A n \in Nodes : StrongOf(t, h, n)' = Ind(handle[h].node = n)
      BY <1>r, <2>1, <2>3, SMTT(30) DEF StrongOf, StrongOnStart, StrongOnItem, StrongOnNew, At,
     HoldsValue, Janitoring, Starts, Entered, Walking, Swapping, SwappedIn, Ind
    <3> QED BY <3>1, <3>2
  <2>5. \A n \in Nodes : Live(n) => strong'[n] = strong[n]
    BY <1>r, <2>1, <2>2 DEF Live, heap, NewHolder
  <2> QED BY <1>r, <2>3, <2>4, <2>5, SMTT(30) DEF StrongStep, Ind, LiveStrong
<1>5. ASSUME NEW h \in Handles, Rcu(t, h) PROVE StrongStep(t, h) /\ \A g \in Handles \ {h} : handle'[g] = handle[g]
  <2>1. /\ Entered(t, "rcu", h, h, Null)
        /\ handle[h].kind = "strong"
        /\ \A u \in Threads : pc[u] # "idle" => op[u].hnd # h
        /\ handle' = [handle EXCEPT ![h] = Busy]
        /\ Starts(t, handle[h].node, "strong", "upd_next")
        /\ UNCHANGED <<heap, jn, dr>>
    BY <1>k, <1>5, RcuEffect
  <2>3. /\ \A g \in Handles \ {h} : handle'[g] = handle[g]
        /\ \A n : handle[h] = [kind |-> "strong", node |-> n] <=> handle[h].node = n
        /\ \A n : handle'[h] # [kind |-> "strong", node |-> n]
    BY <1>r, <2>1 DEF HandleStates, Busy
  <2>4. \A n \in Nodes : StrongOf(t, h, n) = Ind(handle[h].node = n) /\ StrongOf(t, h, n)' = Ind(handle[h].node = n)
    <3>1. ASSUME NEW n \in Nodes PROVE StrongOf(t, h, n) = Ind(handle[h].node = n)
      <4>1. Ind(handle[h] = [kind |-> "strong", node |-> n]) = Ind(handle[h].node = n)
        BY <2>3 DEF Ind
      <4>2. ~StrongOnStart(t) /\ ~StrongOnItem(t) /\ ~StrongOnNew(t) /\ pc[t] \notin {"sg_recheck", "sg_light"}
        BY <1>r, <2>1 DEF StrongOf, StrongOnStart, StrongOnItem, StrongOnNew, At, HoldsValue,
     Janitoring, Starts, Entered, Walking, Swapping, SwappedIn
      <4> QED BY <4>1, <4>2 DEF StrongOf, Ind
    <3>2. \A n \in Nodes : StrongOf(t, h, n)' = Ind(handle[h].node = n)
      BY <1>r, <2>1, <2>3, SMTT(30) DEF StrongOf, StrongOnStart, StrongOnItem, StrongOnNew, At,
     HoldsValue, Janitoring, Starts, Entered, Walking, Swapping, SwappedIn, Ind
    <3> QED BY <3>1, <3>2
  <2>5. \A n \in Nodes : Live(n) => strong'[n] = strong[n]
    BY <1>r, <2>1 DEF Live, heap, NewHolder
  <2> QED BY <1>r, <2>3, <2>4, <2>5, SMTT(30) DEF StrongStep, Ind, LiveStrong
<1>6. ASSUME NEW h \in Handles, NEW f \in {"drop", "intoInner"}, DropShift(t, f, h) PROVE StrongStep(t, h) /\ \A g \in Handles \ {h} : handle'[g] = handle[g]
  <2>1. /\ f \in {"drop", "intoInner"}
        /\ Entered(t, f, h, h, Null)
        /\ handle[h].kind = "strong"
        /\ \A u \in Threads : pc[u] # "idle" => op[u].hnd # h
        /\ handle' = [handle EXCEPT ![h] = Busy]
        /\ Starts(t, handle[h].node, "strong", "ds_dec")
        /\ dr'[t] = [IdleDrop EXCEPT !.ret = "ret"]
        /\ UNCHANGED <<heap, jn>>
    BY <1>k, <1>6, DropShiftEffect
  <2>3. /\ \A g \in Handles \ {h} : handle'[g] = handle[g]
        /\ \A n : handle[h] = [kind |-> "strong", node |-> n] <=> handle[h].node = n
        /\ \A n : handle'[h] # [kind |-> "strong", node |-> n]
    BY <1>r, <2>1 DEF HandleStates, Busy
  <2>4. \A n \in Nodes : StrongOf(t, h, n) = Ind(handle[h].node = n) /\ StrongOf(t, h, n)' = Ind(handle[h].node = n)
    <3>1. ASSUME NEW n \in Nodes PROVE StrongOf(t, h, n) = Ind(handle[h].node = n)
      <4>1. Ind(handle[h] = [kind |-> "strong", node |-> n]) = Ind(handle[h].node = n)
        BY <2>3 DEF Ind
      <4>2. ~StrongOnStart(t) /\ ~StrongOnItem(t) /\ ~StrongOnNew(t) /\ pc[t] \notin {"sg_recheck", "sg_light"}
        BY <1>r, <2>1 DEF StrongOf, StrongOnStart, StrongOnItem, StrongOnNew, At, HoldsValue,
     Janitoring, Starts, Entered, Walking, Swapping, SwappedIn
      <4> QED BY <4>1, <4>2 DEF StrongOf, Ind
    <3>2. \A n \in Nodes : StrongOf(t, h, n)' = Ind(handle[h].node = n)
      BY <1>r, <2>1, <2>3, SMTT(30) DEF StrongOf, StrongOnStart, StrongOnItem, StrongOnNew, At,
     HoldsValue, Janitoring, Starts, Entered, Walking, Swapping, SwappedIn, Ind
    <3> QED BY <3>1, <3>2
  <2>5. \A n \in Nodes : Live(n) => strong'[n] = strong[n]
    BY <1>r, <2>1 DEF Live, heap, NewHolder
  <2> QED BY <1>r, <2>3, <2>4, <2>5, SMTT(30) DEF StrongStep, Ind, LiveStrong
<1>7. ASSUME NEW h \in Handles, DropShiftWeak(t, h) PROVE StrongStep(t, h) /\ \A g \in Handles \ {h} : handle'[g] = handle[g]
  <2>1. /\ Entered(t, "dropWeak", h, h, Null)
        /\ handle[h].kind = "weak"
        /\ \A u \in Threads : pc[u] # "idle" => op[u].hnd # h
        /\ handle' = [handle EXCEPT ![h] = Busy]
        /\ Starts(t, handle[h].node, "weak", "jan_lock")
        /\ jn'[t] = [IdleJanitor EXCEPT !.ret = "dw_weak"]
        /\ dr'[t] = [IdleDrop EXCEPT !.ret = "ret"]
        /\ UNCHANGED heap
    BY <1>k, <1>7, DropShiftWeakEffect
  <2> QED BY <1>k, <1>r, <1>f, <2>1, SMTT(30) DEF Entered, Busy, Starts, IdleJanitor, IdleDrop,
     heap, StrongStep, StrongRoom, Shape, Inc, Dec, LiveStrong, STRONG_DROPPED, StrongOf,
     StrongOnStart, StrongOnItem, StrongOnNew, At, HoldsValue, Ind, Janitoring, Updating,
     Upgrading, Dying, Live, heap, locals, client, IdleAdvance, IdleOp
<1>8. ASSUME NEW h \in Handles, NEW f \in {"get", "reload", "tryGetMut"}, Reload(t, f, h) PROVE StrongStep(t, h) /\ \A g \in Handles \ {h} : handle'[g] = handle[g]
  <2>1. /\ f \in {"get", "reload", "tryGetMut"}
        /\ Entered(t, f, h, h, Null)
        /\ handle[h].kind = "strong"
        /\ \A u \in Threads : pc[u] # "idle" => op[u].hnd # h
        /\ handle' = [handle EXCEPT ![h] = Busy]
        /\ item'[t] = handle[h].node
        /\ pc'[t] = "get_load"
        /\ UNCHANGED <<heap, av, jn, dr>>
    BY <1>k, <1>8, ReloadEffect
  <2>3. /\ \A g \in Handles \ {h} : handle'[g] = handle[g]
        /\ \A n : handle[h] = [kind |-> "strong", node |-> n] <=> handle[h].node = n
        /\ \A n : handle'[h] # [kind |-> "strong", node |-> n]
    BY <1>r, <2>1 DEF HandleStates, Busy
  <2>4. \A n \in Nodes : StrongOf(t, h, n) = Ind(handle[h].node = n) /\ StrongOf(t, h, n)' = Ind(handle[h].node = n)
    <3>1. ASSUME NEW n \in Nodes PROVE StrongOf(t, h, n) = Ind(handle[h].node = n)
      <4>1. Ind(handle[h] = [kind |-> "strong", node |-> n]) = Ind(handle[h].node = n)
        BY <2>3 DEF Ind
      <4>2. ~StrongOnStart(t) /\ ~StrongOnItem(t) /\ ~StrongOnNew(t) /\ pc[t] \notin {"sg_recheck", "sg_light"}
        BY <1>r, <2>1 DEF StrongOf, StrongOnStart, StrongOnItem, StrongOnNew, At, HoldsValue,
     Janitoring, Starts, Entered, Walking, Swapping, SwappedIn
      <4> QED BY <4>1, <4>2 DEF StrongOf, Ind
    <3>2. \A n \in Nodes : StrongOf(t, h, n)' = Ind(handle[h].node = n)
      BY <1>r, <2>1, <2>3, SMTT(30) DEF StrongOf, StrongOnStart, StrongOnItem, StrongOnNew, At,
     HoldsValue, Janitoring, Starts, Entered, Walking, Swapping, SwappedIn, Ind
    <3> QED BY <3>1, <3>2
  <2>5. \A n \in Nodes : Live(n) => strong'[n] = strong[n]
    BY <1>r, <2>1 DEF Live, heap, NewHolder
  <2> QED BY <1>r, <2>3, <2>4, <2>5, SMTT(30) DEF StrongStep, Ind, LiveStrong
<1>9. ASSUME NEW h \in Handles, SharedGet(t, h) PROVE StrongStep(t, h) /\ \A g \in Handles \ {h} : handle'[g] = handle[g]
  <2>1. /\ Entered(t, "sharedGet", h, h, Null)
        /\ handle[h].kind = "strong"
        /\ pc'[t] = "sg_load"
        /\ UNCHANGED <<heap, handle, item, av, jn, dr>>
    BY <1>k, <1>9, SharedGetEffect
  <2> QED BY <1>k, <1>r, <1>f, <2>1, SMTT(30) DEF Entered, heap, StrongStep, StrongRoom, Shape,
     Inc, Dec, LiveStrong, STRONG_DROPPED, StrongOf, StrongOnStart, StrongOnItem, StrongOnNew,
     At, HoldsValue, Ind, Janitoring, Updating, Upgrading, Dying, Live, heap, locals, client,
     IdleAdvance, IdleOp
<1> QED BY <1>1, <1>2, <1>3, <1>4, <1>5, <1>6, <1>7, <1>8, <1>9 DEF Call

(* The return of a call changes a strong count by as much as it changes    *)
(* the strong references of its thread and handles.                        *)
LEMMA ReturnStrongCount ==
  ASSUME OrderInv, TypeOK', NEW t \in Threads, \A h \in Handles : StrongRoom(t, h), Return(t)
  PROVE  \E x \in Handles : StrongStep(t, x) /\ \A g \in Handles \ {x} : handle'[g] = handle[g]
<1>k. Knows(pc[t], item[t], av[t], pd[t], jn[t], op[t]) /\ TypeOK
  BY RegistersTyped DEF OrderInv
<1>r. /\ pc \in [Threads -> Labels] /\ item \in [Threads -> Nodes] /\ av \in [Threads -> AdvanceFrames]
      /\ pd \in [Threads -> PayloadFrames] /\ jn \in [Threads -> JanitorFrames]
      /\ dr \in [Threads -> DropFrames] /\ op \in [Threads -> CallFrames]
      /\ strong \in [Nodes -> 0..UsizeMax] /\ UsizeMax \in Nat /\ handle \in [Handles -> HandleStates]
  BY HeapAssumption DEF OrderInv, TypeOK
<1>x. PICK x \in Handles : x = IF op[t].f \in Storing THEN ResultHandle(op[t]) ELSE op[t].hnd
  BY <1>r DEF CallFrames, ResultHandle
<1>s. Shape(t)
  BY <1>x DEF StrongRoom
<1>1. /\ pc[t] = "ret" /\ pc'[t] = "idle" /\ UNCHANGED <<heap, av, pd, dr>> /\ op'[t] = IdleOp
      /\ handle' = Result(t)
  BY <1>r DEF Return, Goto
<1>2. op[t].f \in Functions \cup {"none"}
  BY <1>r DEF CallFrames
<1>3. CASE op[t].f \in {"clone", "upgrade"}
  <2>1. handle' = [handle EXCEPT ![op[t].out] = IF op[t].ok THEN [kind |-> "strong", node |-> item[t]] ELSE NoHandle] /\ handle[op[t].out].kind = "busy" /\ x = op[t].out
    BY <1>1, <1>x, <1>3, <1>k DEF Result, Knows, HandleKept, Storing, ResultHandle, Functions
  <2> QED BY <1>1, <1>3, <1>x, <1>s, <1>r, <1>k, <2>1, SMTT(30) DEF StrongStep, Shape,
     DropShape, LiveStrong, NoHandle, Knows, Frames, HandleStates, StrongOf, StrongOnStart,
     StrongOnItem, StrongOnNew, At, HoldsValue, Ind, Janitoring, Updating, Upgrading, Dying,
     Live, heap
<1>4. CASE op[t].f \in {"get", "reload", "tryGetMut", "update", "rcu"}
  <2>1. handle' = [handle EXCEPT ![op[t].hnd] = [kind |-> "strong", node |-> item[t]]] /\ handle[op[t].hnd].kind = "busy" /\ x = op[t].hnd
    BY <1>1, <1>x, <1>4, <1>k DEF Result, Knows, HandleKept, Storing, ResultHandle, Functions
  <2>2. handle'[x] = [kind |-> "strong", node |-> item[t]] /\ \A g \in Handles \ {x} : handle'[g] = handle[g]
    BY <2>1, <1>r, <1>x
  <2>3. \A n \in Nodes : StrongOf(t, x, n) = Ind(item[t] = n) /\ StrongOf(t, x, n)' = Ind(item[t] = n)
    <3>1. \A n \in Nodes : StrongOf(t, x, n) = Ind(item[t] = n)
      BY <1>1, <1>4, <1>x, <1>s, <1>r, <1>k, <2>1, SMTT(30) DEF Shape, StrongOf, StrongOnStart,
     StrongOnItem, StrongOnNew, At, HoldsValue, Ind, Janitoring, Updating, Upgrading, Dying,
     Live
    <3>2. ASSUME NEW n \in Nodes PROVE StrongOf(t, x, n)' = Ind(item[t] = n)
      <4>1. \A m : handle'[x] = [kind |-> "strong", node |-> n] <=> item[t] = n
        BY <2>2
      <4>2. Ind(handle[x] = [kind |-> "strong", node |-> n])' = Ind(item[t] = n)
        BY <4>1 DEF Ind
      <4>3. ~StrongOnStart(t)' /\ ~StrongOnItem(t)' /\ ~StrongOnNew(t)' /\ pc'[t] \notin {"sg_recheck", "sg_light"}
        BY <1>1 DEF StrongOf, StrongOnStart, StrongOnItem, StrongOnNew, At, HoldsValue, Ind,
     Janitoring, Updating, Upgrading, Dying, Live
      <4> QED BY <4>2, <4>3 DEF StrongOf, Ind
    <3> QED BY <3>1, <3>2
  <2> QED BY <1>1, <1>x, <2>2, <2>3, SMTT(30) DEF StrongStep, LiveStrong, Ind, heap
<1>5. CASE op[t].f \in {"drop", "dropWeak", "intoInner"}
  <2>1. handle' = [handle EXCEPT ![op[t].hnd] = NoHandle] /\ handle[op[t].hnd].kind = "busy" /\ x = op[t].hnd
    BY <1>1, <1>x, <1>5, <1>k DEF Result, Knows, HandleKept, Storing, ResultHandle, Functions
  <2> QED BY <1>1, <1>5, <1>x, <1>s, <1>r, <1>k, <2>1, SMTT(30) DEF StrongStep, Shape,
     DropShape, LiveStrong, NoHandle, Knows, Frames, HandleStates, StrongOf, StrongOnStart,
     StrongOnItem, StrongOnNew, At, HoldsValue, Ind, Janitoring, Updating, Upgrading, Dying,
     Live, heap
<1>6. CASE op[t].f \in {"none", "downgrade", "cloneWeak", "sharedGet"}
  <2>1. handle' = handle /\ x = op[t].hnd
    BY <1>1, <1>x, <1>6, <1>k DEF Result, Knows, HandleKept, Storing, ResultHandle, Functions
  <2> QED BY <1>1, <1>6, <1>x, <1>s, <1>r, <1>k, <2>1, SMTT(30) DEF StrongStep, Shape,
     DropShape, LiveStrong, NoHandle, Knows, Frames, HandleStates, StrongOf, StrongOnStart,
     StrongOnItem, StrongOnNew, At, HoldsValue, Ind, Janitoring, Updating, Upgrading, Dying,
     Live, heap
<1> QED BY <1>2, <1>3, <1>4, <1>5, <1>6, <1>x DEF Functions

-----------------------------------------------------------------------------
(* The weak counts.                                                        *)

(* The weak references to n that thread t has, and the one of all strong    *)
(* references to n.                                                         *)
WeakMine(t, n) ==
  Ind(LiveStrong(strong[n]) > 0)
  + Ind(WeakOnStart(t) /\ av[t].start = n)
  + Ind(WeakOnItem(t) /\ item[t] = n)
  + Ind(WeakForGroup(t) /\ item[t] = n)
  + Ind(pc[t] \in {"adv_dec", "adv_unweak"} /\ av[t].nxt = n)
  + Ind(WeakOnGap(t) /\ jn[t].del = n)

\* the links and handles stay, and t gains and loses what the counts do
WeakStep(t) ==
  /\ \A n \in Nodes : Live(n) /\ Live(n)' =>
       weak'[n].count - WeakMine(t, n)' = weak[n].count - WeakMine(t, n)
  /\ \A m \in Nodes : Live(m)' = Live(m) /\ (Live(m) => prev'[m] = prev[m])

\* how far the strong counts of the nodes that t has are from the ends
Room(t) ==
  /\ StrongOnStart(t) => strong[av[t].start] \in 1..(UsizeMax - 2)
  /\ StrongOnItem(t) => strong[item[t]] \in 1..(UsizeMax - 2)
  /\ pc[t] = "advs_cas" => strong[item[t]] < UsizeMax - 1
  /\ pc[t] = "upg_cas" => strong[item[t]] < UsizeMax - 1 \/ (strong[item[t]] = UsizeMax /\ op[t].cs # UsizeMax)
  /\ pc[t] = "sg_cas" => strong[op[t].nxt] < UsizeMax - 1
  /\ pc[t] = "sg_clone" => strong[Base(t)] \in 1..(UsizeMax - 2)

(* A step of an advance changes a weak count by as much as it changes its  *)
(* own weak references.                                                    *)
LEMMA AdvanceWeak ==
  ASSUME OrderInv, NEW t \in Threads, Shape(t), Places(t), Room(t), AdvanceStep(t)
  PROVE  WeakStep(t)
<1>k. TypeOK /\ Knows(pc[t], item[t], av[t], pd[t], jn[t], op[t])
  BY RegistersTyped DEF OrderInv
<1>r. /\ pc \in [Threads -> Labels] /\ item \in [Threads -> Nodes] /\ av \in [Threads -> AdvanceFrames]
      /\ pd \in [Threads -> PayloadFrames] /\ jn \in [Threads -> JanitorFrames]
      /\ dr \in [Threads -> DropFrames] /\ op \in [Threads -> CallFrames]
      /\ strong \in [Nodes -> 0..UsizeMax] /\ UsizeMax \in Nat /\ weak \in [Nodes -> WeakWords]
      /\ mem \in [Nodes -> {"unused", "private", "live", "freed"}] /\ prev \in [Nodes -> Ptrs]
      /\ stamp \in [Nodes -> Nat] /\ next \in [Nodes -> NextWords] /\ adv \in [Nodes -> Int]
      /\ handle \in [Handles -> HandleStates]
  BY HeapAssumption DEF OrderInv, TypeOK
<1>s. Shape(t) /\ Places(t) /\ Room(t)
  OBVIOUS
<1>1. CASE AdvanceLoad(t)
  BY <1>k, <1>r, <1>s, <1>1, SMTT(30) DEF AdvanceLoad, Goto, ReturnAdvance, ReadOnly,
     IdleAdvance, AdvanceFrames, WeakStep, WeakMine, Room, StrongOnStart, StrongOnItem,
     WeakOnStart, WeakOnItem, WeakForGroup, WeakOnGap, At, HoldsValue, Ind, Janitoring, Live,
     Inc, Dec, LiveStrong, LastStrong, STRONG_DROPPED, Knows, Frames, Shape, Continues,
     DropShape, Updating, Upgrading, Dying, Places, Before, locals, client, heap, WeakWords,
     CallFrames
<1>2. CASE AdvanceInc(t)
  BY <1>k, <1>r, <1>s, <1>2, SMTT(30) DEF AdvanceInc, Goto, OnlyAdv, WeakStep, WeakMine, Room,
     StrongOnStart, StrongOnItem, WeakOnStart, WeakOnItem, WeakForGroup, WeakOnGap, At,
     HoldsValue, Ind, Janitoring, Live, Inc, Dec, LiveStrong, LastStrong, STRONG_DROPPED, Knows,
     Frames, Shape, Continues, DropShape, Updating, Upgrading, Dying, Places, Before, locals,
     client, heap, WeakWords, CallFrames
<1>3. CASE AdvanceReload(t)
  BY <1>k, <1>r, <1>s, <1>3, SMTT(30) DEF AdvanceReload, Goto, ReadOnly, WeakStep, WeakMine,
     Room, StrongOnStart, StrongOnItem, WeakOnStart, WeakOnItem, WeakForGroup, WeakOnGap, At,
     HoldsValue, Ind, Janitoring, Live, Inc, Dec, LiveStrong, LastStrong, STRONG_DROPPED, Knows,
     Frames, Shape, Continues, DropShape, Updating, Upgrading, Dying, Places, Before, locals,
     client, heap, WeakWords, CallFrames
<1>4. CASE AdvanceWeakInc(t)
  BY <1>k, <1>r, <1>s, <1>4, SMTT(30) DEF AdvanceWeakInc, AddWeak, Goto, OnlyWeak, WeakStep,
     WeakMine, Room, StrongOnStart, StrongOnItem, WeakOnStart, WeakOnItem, WeakForGroup,
     WeakOnGap, At, HoldsValue, Ind, Janitoring, Live, Inc, Dec, LiveStrong, LastStrong,
     STRONG_DROPPED, Knows, Frames, Shape, Continues, DropShape, Updating, Upgrading, Dying,
     Places, Before, locals, client, heap, WeakWords, CallFrames
<1>5. CASE AdvanceDec(t)
  BY <1>k, <1>r, <1>s, <1>5, SMTT(30) DEF AdvanceDec, Goto, OnlyAdv, WeakStep, WeakMine, Room,
     StrongOnStart, StrongOnItem, WeakOnStart, WeakOnItem, WeakForGroup, WeakOnGap, At,
     HoldsValue, Ind, Janitoring, Live, Inc, Dec, LiveStrong, LastStrong, STRONG_DROPPED, Knows,
     Frames, Shape, Continues, DropShape, Updating, Upgrading, Dying, Places, Before, locals,
     client, heap, WeakWords, CallFrames
<1>6. CASE AdvanceWeakDec(t)
  BY <1>k, <1>r, <1>s, <1>6, SMTT(30) DEF AdvanceWeakDec, SubWeak, Goto, OnlyWeak, WeakStep,
     WeakMine, Room, StrongOnStart, StrongOnItem, WeakOnStart, WeakOnItem, WeakForGroup,
     WeakOnGap, At, HoldsValue, Ind, Janitoring, Live, Inc, Dec, LiveStrong, LastStrong,
     STRONG_DROPPED, Knows, Frames, Shape, Continues, DropShape, Updating, Upgrading, Dying,
     Places, Before, locals, client, heap, WeakWords, CallFrames
<1>7. CASE WeakLeaveStart(t)
  <2>1. CASE TRUE
    <3>2. CASE av[t].ret = "jan_lock"
      BY <1>k, <1>r, <1>s, <1>7, <2>1, <3>2, SMTT(30) DEF WeakLeaveStart, SubWeak,
     ReturnAdvance, OnlyWeak, Goto, IdleAdvance, AdvanceFrames, WeakStep, WeakMine, Room,
     StrongOnStart, StrongOnItem, WeakOnStart, WeakOnItem, WeakForGroup, WeakOnGap, At,
     HoldsValue, Ind, Janitoring, Live, Inc, Dec, LiveStrong, LastStrong, STRONG_DROPPED, Knows,
     Frames, Shape, Continues, DropShape, Updating, Upgrading, Dying, Places, Before, locals,
     client, heap, WeakWords, CallFrames
    <3>3. CASE av[t].ret = "upg_strong"
      BY <1>k, <1>r, <1>s, <1>7, <2>1, <3>3, SMTT(30) DEF WeakLeaveStart, SubWeak,
     ReturnAdvance, OnlyWeak, Goto, IdleAdvance, AdvanceFrames, WeakStep, WeakMine, Room,
     StrongOnStart, StrongOnItem, WeakOnStart, WeakOnItem, WeakForGroup, WeakOnGap, At,
     HoldsValue, Ind, Janitoring, Live, Inc, Dec, LiveStrong, LastStrong, STRONG_DROPPED, Knows,
     Frames, Shape, Continues, DropShape, Updating, Upgrading, Dying, Places, Before, locals,
     client, heap, WeakWords, CallFrames
    <3>r. av[t].ret = "jan_lock" \/ av[t].ret = "upg_strong"
      BY <1>s, <1>7, <2>1 DEF Shape, Continues, WeakLeaveStart
    <3> QED BY <3>2, <3>3, <3>r
  <2> QED BY <2>1
<1>8. CASE PayloadMark(t)
  <2>1. CASE pd[t].ret = "advs_a_decw"
    BY <1>k, <1>r, <1>s, <1>8, <2>1, SMTT(30) DEF PayloadMark, Goto, OnlyNext, IdlePayload,
     WeakStep, WeakMine, Room, StrongOnStart, StrongOnItem, WeakOnStart, WeakOnItem,
     WeakForGroup, WeakOnGap, At, HoldsValue, Ind, Janitoring, Live, Inc, Dec, LiveStrong,
     LastStrong, STRONG_DROPPED, Knows, Frames, Shape, Continues, DropShape, Updating,
     Upgrading, Dying, Places, Before, locals, client, heap, WeakWords, CallFrames
  <2>2. CASE pd[t].ret = "dw_cas"
    BY <1>k, <1>r, <1>s, <1>8, <2>2, SMTT(30) DEF PayloadMark, Goto, OnlyNext, IdlePayload,
     WeakStep, WeakMine, Room, StrongOnStart, StrongOnItem, WeakOnStart, WeakOnItem,
     WeakForGroup, WeakOnGap, At, HoldsValue, Ind, Janitoring, Live, Inc, Dec, LiveStrong,
     LastStrong, STRONG_DROPPED, Knows, Frames, Shape, Continues, DropShape, Updating,
     Upgrading, Dying, Places, Before, locals, client, heap, WeakWords, CallFrames
  <2>3. CASE pd[t].ret = "upd_decw"
    BY <1>k, <1>r, <1>s, <1>8, <2>3, SMTT(30) DEF PayloadMark, Goto, OnlyNext, IdlePayload,
     WeakStep, WeakMine, Room, StrongOnStart, StrongOnItem, WeakOnStart, WeakOnItem,
     WeakForGroup, WeakOnGap, At, HoldsValue, Ind, Janitoring, Live, Inc, Dec, LiveStrong,
     LastStrong, STRONG_DROPPED, Knows, Frames, Shape, Continues, DropShape, Updating,
     Upgrading, Dying, Places, Before, locals, client, heap, WeakWords, CallFrames
  <2>r. pd[t].ret \in {"advs_a_decw", "dw_cas", "upd_decw"}
    BY <1>r, <1>s, <1>8 DEF
     PayloadFrames, Shape, PayloadMark
  <2> QED BY <2>1, <2>2, <2>3, <2>r
<1>9. CASE PayloadDrop(t)
  <2>1. CASE pd[t].ret = "advs_a_decw"
    BY <1>k, <1>r, <1>s, <1>9, <2>1, SMTT(30) DEF PayloadDrop, DropPayload, Goto, IdlePayload,
     WeakStep, WeakMine, Room, StrongOnStart, StrongOnItem, WeakOnStart, WeakOnItem,
     WeakForGroup, WeakOnGap, At, HoldsValue, Ind, Janitoring, Live, Inc, Dec, LiveStrong,
     LastStrong, STRONG_DROPPED, Knows, Frames, Shape, Continues, DropShape, Updating,
     Upgrading, Dying, Places, Before, locals, client, heap, WeakWords, CallFrames
  <2>2. CASE pd[t].ret = "dw_cas"
    BY <1>k, <1>r, <1>s, <1>9, <2>2, SMTT(30) DEF PayloadDrop, DropPayload, Goto, IdlePayload,
     WeakStep, WeakMine, Room, StrongOnStart, StrongOnItem, WeakOnStart, WeakOnItem,
     WeakForGroup, WeakOnGap, At, HoldsValue, Ind, Janitoring, Live, Inc, Dec, LiveStrong,
     LastStrong, STRONG_DROPPED, Knows, Frames, Shape, Continues, DropShape, Updating,
     Upgrading, Dying, Places, Before, locals, client, heap, WeakWords, CallFrames
  <2>3. CASE pd[t].ret = "upd_decw"
    BY <1>k, <1>r, <1>s, <1>9, <2>3, SMTT(30) DEF PayloadDrop, DropPayload, Goto, IdlePayload,
     WeakStep, WeakMine, Room, StrongOnStart, StrongOnItem, WeakOnStart, WeakOnItem,
     WeakForGroup, WeakOnGap, At, HoldsValue, Ind, Janitoring, Live, Inc, Dec, LiveStrong,
     LastStrong, STRONG_DROPPED, Knows, Frames, Shape, Continues, DropShape, Updating,
     Upgrading, Dying, Places, Before, locals, client, heap, WeakWords, CallFrames
  <2>r. pd[t].ret \in {"advs_a_decw", "dw_cas", "upd_decw"}
    BY <1>r, <1>s, <1>9 DEF
     PayloadFrames, Shape, PayloadDrop
  <2> QED BY <2>1, <2>2, <2>3, <2>r
<1>10. CASE StrongLoad(t)
  BY <1>k, <1>r, <1>s, <1>10, SMTT(30) DEF StrongLoad, TryStrong, ReadOnly, Goto, IdleAdvance,
     AdvanceFrames, WeakStep, WeakMine, Room, StrongOnStart, StrongOnItem, WeakOnStart,
     WeakOnItem, WeakForGroup, WeakOnGap, At, HoldsValue, Ind, Janitoring, Live, Inc, Dec,
     LiveStrong, LastStrong, STRONG_DROPPED, Knows, Frames, Shape, Continues, DropShape,
     Updating, Upgrading, Dying, Places, Before, locals, client, heap, WeakWords, CallFrames
<1>11. CASE StrongIncWeak(t)
  BY <1>k, <1>r, <1>s, <1>11, SMTT(30) DEF StrongIncWeak, AddWeak, Goto, OnlyWeak, WeakStep,
     WeakMine, Room, StrongOnStart, StrongOnItem, WeakOnStart, WeakOnItem, WeakForGroup,
     WeakOnGap, At, HoldsValue, Ind, Janitoring, Live, Inc, Dec, LiveStrong, LastStrong,
     STRONG_DROPPED, Knows, Frames, Shape, Continues, DropShape, Updating, Upgrading, Dying,
     Places, Before, locals, client, heap, WeakWords, CallFrames
<1>12. CASE StrongCas(t)
  <2>1. CASE strong[item[t]] = av[t].cs
    BY <1>k, <1>r, <1>s, <1>12, <2>1, SMTT(30) DEF StrongCas, AddStrong, Goto, TryStrong,
     OnlyStrong, IdleAdvance, AdvanceFrames, WeakStep, WeakMine, Room, StrongOnStart,
     StrongOnItem, WeakOnStart, WeakOnItem, WeakForGroup, WeakOnGap, At, HoldsValue, Ind,
     Janitoring, Live, Inc, Dec, LiveStrong, LastStrong, STRONG_DROPPED, Knows, Frames, Shape,
     Continues, DropShape, Updating, Upgrading, Dying, Places, Before, locals, client, heap,
     WeakWords, CallFrames
  <2>2. CASE strong[item[t]] # av[t].cs /\ av[t].cs = 0
    BY <1>k, <1>r, <1>s, <1>12, <2>2, SMTT(30) DEF StrongCas, AddStrong, Goto, TryStrong,
     OnlyStrong, IdleAdvance, AdvanceFrames, WeakStep, WeakMine, Room, StrongOnStart,
     StrongOnItem, WeakOnStart, WeakOnItem, WeakForGroup, WeakOnGap, At, HoldsValue, Ind,
     Janitoring, Live, Inc, Dec, LiveStrong, LastStrong, STRONG_DROPPED, Knows, Frames, Shape,
     Continues, DropShape, Updating, Upgrading, Dying, Places, Before, locals, client, heap,
     WeakWords, CallFrames
  <2>3. CASE strong[item[t]] # av[t].cs /\ av[t].cs # 0
    BY <1>k, <1>r, <1>s, <1>12, <2>3, SMTT(30) DEF StrongCas, AddStrong, Goto, TryStrong,
     OnlyStrong, IdleAdvance, AdvanceFrames, WeakStep, WeakMine, Room, StrongOnStart,
     StrongOnItem, WeakOnStart, WeakOnItem, WeakForGroup, WeakOnGap, At, HoldsValue, Ind,
     Janitoring, Live, Inc, Dec, LiveStrong, LastStrong, STRONG_DROPPED, Knows, Frames, Shape,
     Continues, DropShape, Updating, Upgrading, Dying, Places, Before, locals, client, heap,
     WeakWords, CallFrames
  <2> QED BY <2>1, <2>2, <2>3
<1>13. CASE StrongRaceDecWeak(t)
  BY <1>k, <1>r, <1>s, <1>13, SMTT(30) DEF StrongRaceDecWeak, SubWeak, TryStrong, OnlyWeak,
     Goto, IdleAdvance, AdvanceFrames, WeakStep, WeakMine, Room, StrongOnStart, StrongOnItem,
     WeakOnStart, WeakOnItem, WeakForGroup, WeakOnGap, At, HoldsValue, Ind, Janitoring, Live,
     Inc, Dec, LiveStrong, LastStrong, STRONG_DROPPED, Knows, Frames, Shape, Continues,
     DropShape, Updating, Upgrading, Dying, Places, Before, locals, client, heap, WeakWords,
     CallFrames
<1>14. CASE StrongRecheck(t)
  BY <1>k, <1>r, <1>s, <1>14, SMTT(30) DEF StrongRecheck, Goto, ReadOnly, WeakStep, WeakMine,
     Room, StrongOnStart, StrongOnItem, WeakOnStart, WeakOnItem, WeakForGroup, WeakOnGap, At,
     HoldsValue, Ind, Janitoring, Live, Inc, Dec, LiveStrong, LastStrong, STRONG_DROPPED, Knows,
     Frames, Shape, Continues, DropShape, Updating, Upgrading, Dying, Places, Before, locals,
     client, heap, WeakWords, CallFrames
<1>15. CASE StrongUndo(t)
  <2>1. CASE LastStrong(item[t])
    BY <1>k, <1>r, <1>s, <1>15, <2>1, SMTT(30) DEF StrongUndo, SubStrong, Goto, RetryAdvance,
     OnlyStrong, IdleAdvance, AdvanceFrames, WeakStep, WeakMine, Room, StrongOnStart,
     StrongOnItem, WeakOnStart, WeakOnItem, WeakForGroup, WeakOnGap, At, HoldsValue, Ind,
     Janitoring, Live, Inc, Dec, LiveStrong, LastStrong, STRONG_DROPPED, Knows, Frames, Shape,
     Continues, DropShape, Updating, Upgrading, Dying, Places, Before, locals, client, heap,
     WeakWords, CallFrames
  <2>2. CASE ~LastStrong(item[t])
    <3>1. \A n \in Nodes : LiveStrong(strong[n])' > 0 <=> LiveStrong(strong[n]) > 0
      BY <1>k, <1>r, <1>s, <1>15, <2>2, SMTT(30) DEF StrongUndo, SubStrong, Dec, LiveStrong,
     LastStrong, STRONG_DROPPED, Room, StrongOnItem, StrongOnStart, At
    <3> QED BY <1>k, <1>r, <1>s, <1>15, <2>2, <3>1, SMTT(30) DEF StrongUndo, Goto, RetryAdvance,
     OnlyStrong, IdleAdvance, AdvanceFrames, WeakStep, WeakMine, Room, StrongOnStart,
     StrongOnItem, WeakOnStart, WeakOnItem, WeakForGroup, WeakOnGap, At, HoldsValue, Ind,
     Janitoring, Live, Inc, Knows, Frames, Shape, Continues, DropShape, Updating, Upgrading,
     Dying, Places, Before, locals, client, heap, WeakWords, CallFrames
  <2> QED BY <2>1, <2>2
<1>16. CASE StrongUndoDecWeak(t)
  BY <1>k, <1>r, <1>s, <1>16, SMTT(30) DEF StrongUndoDecWeak, SubWeak, RetryAdvance, OnlyWeak,
     Goto, IdleAdvance, AdvanceFrames, WeakStep, WeakMine, Room, StrongOnStart, StrongOnItem,
     WeakOnStart, WeakOnItem, WeakForGroup, WeakOnGap, At, HoldsValue, Ind, Janitoring, Live,
     Inc, Dec, LiveStrong, LastStrong, STRONG_DROPPED, Knows, Frames, Shape, Continues,
     DropShape, Updating, Upgrading, Dying, Places, Before, locals, client, heap, WeakWords,
     CallFrames
<1>17. CASE StrongDecWeakB(t)
  BY <1>k, <1>r, <1>s, <1>17, SMTT(30) DEF StrongDecWeakB, SubWeak, Goto, OnlyWeak, WeakStep,
     WeakMine, Room, StrongOnStart, StrongOnItem, WeakOnStart, WeakOnItem, WeakForGroup,
     WeakOnGap, At, HoldsValue, Ind, Janitoring, Live, Inc, Dec, LiveStrong, LastStrong,
     STRONG_DROPPED, Knows, Frames, Shape, Continues, DropShape, Updating, Upgrading, Dying,
     Places, Before, locals, client, heap, WeakWords, CallFrames
<1>18. CASE StrongLeaveStart(t)
  <2>1. CASE LastStrong(av[t].start)
    BY <1>k, <1>r, <1>s, <1>18, <2>1, SMTT(30) DEF StrongLeaveStart, SubStrong,
     StartPayloadDrop, ReturnAdvance, OnlyStrong, Goto, IdleAdvance, AdvanceFrames, WeakStep,
     WeakMine, Room, StrongOnStart, StrongOnItem, WeakOnStart, WeakOnItem, WeakForGroup,
     WeakOnGap, At, HoldsValue, Ind, Janitoring, Live, Inc, Dec, LiveStrong, LastStrong,
     STRONG_DROPPED, Knows, Frames, Shape, Continues, DropShape, Updating, Upgrading, Dying,
     Places, Before, locals, client, heap, WeakWords, CallFrames
  <2>2. CASE ~LastStrong(av[t].start)
    <3>1. \A n \in Nodes : LiveStrong(strong[n])' > 0 <=> LiveStrong(strong[n]) > 0
      BY <1>k, <1>r, <1>s, <1>18, <2>2, SMTT(30) DEF StrongLeaveStart, SubStrong, Dec,
     LiveStrong, LastStrong, STRONG_DROPPED, Room, StrongOnItem, StrongOnStart, At
    <3>2. CASE av[t].ret = "jan_lock"
      BY <1>k, <1>r, <1>s, <1>18, <2>2, <3>1, <3>2, SMTT(30) DEF StrongLeaveStart,
     StartPayloadDrop, ReturnAdvance, OnlyStrong, Goto, IdleAdvance, AdvanceFrames, WeakStep,
     WeakMine, Room, StrongOnStart, StrongOnItem, WeakOnStart, WeakOnItem, WeakForGroup,
     WeakOnGap, At, HoldsValue, Ind, Janitoring, Live, Inc, Knows, Frames, Shape, Continues,
     DropShape, Updating, Upgrading, Dying, Places, Before, locals, client, heap, WeakWords,
     CallFrames
    <3>3. CASE av[t].ret = "ds_dec"
      BY <1>k, <1>r, <1>s, <1>18, <2>2, <3>1, <3>3, SMTT(30) DEF StrongLeaveStart,
     StartPayloadDrop, ReturnAdvance, OnlyStrong, Goto, IdleAdvance, AdvanceFrames, WeakStep,
     WeakMine, Room, StrongOnStart, StrongOnItem, WeakOnStart, WeakOnItem, WeakForGroup,
     WeakOnGap, At, HoldsValue, Ind, Janitoring, Live, Inc, Knows, Frames, Shape, Continues,
     DropShape, Updating, Upgrading, Dying, Places, Before, locals, client, heap, WeakWords,
     CallFrames
    <3>4. CASE av[t].ret = "upd_next"
      BY <1>k, <1>r, <1>s, <1>18, <2>2, <3>1, <3>4, SMTT(30) DEF StrongLeaveStart,
     StartPayloadDrop, ReturnAdvance, OnlyStrong, Goto, IdleAdvance, AdvanceFrames, WeakStep,
     WeakMine, Room, StrongOnStart, StrongOnItem, WeakOnStart, WeakOnItem, WeakForGroup,
     WeakOnGap, At, HoldsValue, Ind, Janitoring, Live, Inc, Knows, Frames, Shape, Continues,
     DropShape, Updating, Upgrading, Dying, Places, Before, locals, client, heap, WeakWords,
     CallFrames
    <3>5. CASE av[t].ret = "reading"
      BY <1>k, <1>r, <1>s, <1>18, <2>2, <3>1, <3>5, SMTT(30) DEF StrongLeaveStart,
     StartPayloadDrop, ReturnAdvance, OnlyStrong, Goto, IdleAdvance, AdvanceFrames, WeakStep,
     WeakMine, Room, StrongOnStart, StrongOnItem, WeakOnStart, WeakOnItem, WeakForGroup,
     WeakOnGap, At, HoldsValue, Ind, Janitoring, Live, Inc, Knows, Frames, Shape, Continues,
     DropShape, Updating, Upgrading, Dying, Places, Before, locals, client, heap, WeakWords,
     CallFrames
    <3>6. CASE av[t].ret = "ret"
      BY <1>k, <1>r, <1>s, <1>18, <2>2, <3>1, <3>6, SMTT(30) DEF StrongLeaveStart,
     StartPayloadDrop, ReturnAdvance, OnlyStrong, Goto, IdleAdvance, AdvanceFrames, WeakStep,
     WeakMine, Room, StrongOnStart, StrongOnItem, WeakOnStart, WeakOnItem, WeakForGroup,
     WeakOnGap, At, HoldsValue, Ind, Janitoring, Live, Inc, Knows, Frames, Shape, Continues,
     DropShape, Updating, Upgrading, Dying, Places, Before, locals, client, heap, WeakWords,
     CallFrames
    <3>r. av[t].ret = "jan_lock" \/ av[t].ret = "ds_dec" \/ av[t].ret = "upd_next" \/ av[t].ret = "reading" \/ av[t].ret = "ret"
      BY <1>s, <1>18, <2>2 DEF Shape, Continues, StrongLeaveStart
    <3> QED BY <3>2, <3>3, <3>4, <3>5, <3>6, <3>r
  <2> QED BY <2>1, <2>2
<1>19. CASE StrongDecWeakA(t)
  BY <1>k, <1>r, <1>s, <1>19, SMTT(30) DEF StrongDecWeakA, SubWeak, ReturnAdvance, OnlyWeak,
     Goto, IdleAdvance, AdvanceFrames, WeakStep, WeakMine, Room, StrongOnStart, StrongOnItem,
     WeakOnStart, WeakOnItem, WeakForGroup, WeakOnGap, At, HoldsValue, Ind, Janitoring, Live,
     Inc, Dec, LiveStrong, LastStrong, STRONG_DROPPED, Knows, Frames, Shape, Continues,
     DropShape, Updating, Upgrading, Dying, Places, Before, locals, client, heap, WeakWords,
     CallFrames
<1> QED BY <1>1, <1>2, <1>3, <1>4, <1>5, <1>6, <1>7, <1>8, <1>9, <1>10, <1>11, <1>12, <1>13,
  <1>14, <1>15, <1>16, <1>17, <1>18, <1>19 DEF AdvanceStep

(* A step of a janitor changes a weak count by as much as it changes its   *)
(* own weak references.                                                    *)
LEMMA JanitorWeak ==
  ASSUME OrderInv, NEW t \in Threads, Shape(t), Places(t), Room(t), JanitorStep(t),
         ~JanitorFree(t),
         ~JanitorUnlink(t)
  PROVE  WeakStep(t)
<1>k. TypeOK /\ Knows(pc[t], item[t], av[t], pd[t], jn[t], op[t])
  BY RegistersTyped DEF OrderInv
<1>r. /\ pc \in [Threads -> Labels] /\ item \in [Threads -> Nodes] /\ av \in [Threads -> AdvanceFrames]
      /\ pd \in [Threads -> PayloadFrames] /\ jn \in [Threads -> JanitorFrames]
      /\ dr \in [Threads -> DropFrames] /\ op \in [Threads -> CallFrames]
      /\ strong \in [Nodes -> 0..UsizeMax] /\ UsizeMax \in Nat /\ weak \in [Nodes -> WeakWords]
      /\ mem \in [Nodes -> {"unused", "private", "live", "freed"}] /\ prev \in [Nodes -> Ptrs]
      /\ stamp \in [Nodes -> Nat] /\ next \in [Nodes -> NextWords] /\ adv \in [Nodes -> Int]
      /\ handle \in [Handles -> HandleStates]
  BY HeapAssumption DEF OrderInv, TypeOK
<1>s. Shape(t) /\ Places(t) /\ Room(t)
  OBVIOUS
<1>1. CASE JanitorLockStart(t)
  <2>1. CASE next[item[t]].locked
    <3>1. /\ pc[t] = "jan_lock"
          /\ OnlyNext
          /\ UNCHANGED <<item, av, pd, dr, op>>
          /\ Disturb(item[t])
          /\ pc'[t] = jn[t].ret
          /\ jn'[t].ret = jn[t].ret /\ ~jn'[t].rerun /\ jn'[t].status = "Indeterminate"
      BY <1>k, <1>1, <2>1, JanitorLockStartEffect
    <3>3. CASE jn[t].ret = "dw_weak"
      BY <1>k, <1>r, <1>s, <2>1, <3>1, <3>3, SMTT(30) DEF Starts, OnlyNext, Disturb, WeakStep,
     WeakMine, Room, StrongOnStart, StrongOnItem, WeakOnStart, WeakOnItem, WeakForGroup,
     WeakOnGap, At, HoldsValue, Ind, Janitoring, Live, Inc, Dec, LiveStrong, LastStrong,
     STRONG_DROPPED, Knows, Frames, Shape, Continues, DropShape, Updating, Upgrading, Dying,
     Places, Before, locals, client, heap, WeakWords, CallFrames, JanitorFrames
    <3>4. CASE jn[t].ret = "upd_done"
      BY <1>k, <1>r, <1>s, <2>1, <3>1, <3>4, SMTT(30) DEF Starts, OnlyNext, Disturb, WeakStep,
     WeakMine, Room, StrongOnStart, StrongOnItem, WeakOnStart, WeakOnItem, WeakForGroup,
     WeakOnGap, At, HoldsValue, Ind, Janitoring, Live, Inc, Dec, LiveStrong, LastStrong,
     STRONG_DROPPED, Knows, Frames, Shape, Continues, DropShape, Updating, Upgrading, Dying,
     Places, Before, locals, client, heap, WeakWords, CallFrames, JanitorFrames
    <3>5. CASE jn[t].ret = "get_done"
      BY <1>k, <1>r, <1>s, <2>1, <3>1, <3>5, SMTT(30) DEF Starts, OnlyNext, Disturb, WeakStep,
     WeakMine, Room, StrongOnStart, StrongOnItem, WeakOnStart, WeakOnItem, WeakForGroup,
     WeakOnGap, At, HoldsValue, Ind, Janitoring, Live, Inc, Dec, LiveStrong, LastStrong,
     STRONG_DROPPED, Knows, Frames, Shape, Continues, DropShape, Updating, Upgrading, Dying,
     Places, Before, locals, client, heap, WeakWords, CallFrames, JanitorFrames
    <3>9. jn[t].ret = "dw_weak" \/ jn[t].ret = "upd_done" \/ jn[t].ret = "get_done"
      BY <1>k, <1>r, <1>s, <3>1, <2>1 DEF DropFrames, Shape, Dying, CallFrames, Continues,
     Janitoring
    <3> QED BY <3>3, <3>4, <3>5, <3>9
  <2>2. CASE ~next[item[t]].locked
    <3>1. /\ pc[t] = "jan_lock"
          /\ OnlyNext
          /\ UNCHANGED <<item, av, pd, dr, op>>
          /\ Lock(item[t])
          /\ pc'[t] = IF prev[item[t]] = Null THEN "jan_unlock" ELSE "jan_sweep"
          /\ jn'[t].ret = jn[t].ret /\ jn'[t].cur = prev[item[t]] /\ jn'[t].cand = prev[item[t]] /\ jn'[t].fail = Null
          /\ jn'[t].rdel = Null /\ jn'[t].right = Null /\ jn'[t].carry = Null /\ jn'[t].del = Null
          /\ ~jn'[t].seen /\ ~jn'[t].rerun
      BY <1>k, <1>1, <2>2, JanitorLockStartEffect
    <3> QED BY <1>k, <1>r, <1>s, <2>2, <3>1, SMTT(30) DEF Starts, OnlyNext, Lock, WeakStep,
     WeakMine, Room, StrongOnStart, StrongOnItem, WeakOnStart, WeakOnItem, WeakForGroup,
     WeakOnGap, At, HoldsValue, Ind, Janitoring, Live, Inc, Dec, LiveStrong, LastStrong,
     STRONG_DROPPED, Knows, Frames, Shape, Continues, DropShape, Updating, Upgrading, Dying,
     Places, Before, locals, client, heap, WeakWords, CallFrames, JanitorFrames
  <2> QED BY <2>1, <2>2
<1>2. CASE JanitorSweep(t)
  BY <1>k, <1>r, <1>s, <1>2, SMTT(30) DEF JanitorSweep, Janitor, Disturb, Goto, Lock, OnlyNext,
     WeakStep, WeakMine, Room, StrongOnStart, StrongOnItem, WeakOnStart, WeakOnItem,
     WeakForGroup, WeakOnGap, At, HoldsValue, Ind, Janitoring, Live, Inc, Dec, LiveStrong,
     LastStrong, STRONG_DROPPED, Knows, Frames, Shape, Continues, DropShape, Updating,
     Upgrading, Dying, Places, Before, locals, client, heap, WeakWords, CallFrames,
     JanitorFrames
<1>3. CASE JanitorCleanup(t)
  BY <1>k, <1>r, <1>s, <1>3, SMTT(30) DEF JanitorCleanup, Janitor, Unlock, Goto, OnlyNext,
     WeakStep, WeakMine, Room, StrongOnStart, StrongOnItem, WeakOnStart, WeakOnItem,
     WeakForGroup, WeakOnGap, At, HoldsValue, Ind, Janitoring, Live, Inc, Dec, LiveStrong,
     LastStrong, STRONG_DROPPED, Knows, Frames, Shape, Continues, DropShape, Updating,
     Upgrading, Dying, Places, Before, locals, client, heap, WeakWords, CallFrames,
     JanitorFrames
<1>4. CASE JanitorUnlockStart(t)
  <2>1. /\ pc[t] = "jan_unlock"
        /\ OnlyNext
        /\ UNCHANGED <<item, av, pd, dr, op>>
        /\ Unlock(item[t])
        /\ pc'[t] = jn[t].ret
        /\ jn'[t].ret = jn[t].ret /\ jn'[t].rerun = (jn[t].rerun \/ next[item[t]].disturbed) /\ jn'[t].status = StrongStatus(jn[t])
    BY <1>k, <1>4, JanitorUnlockStartEffect
  <2>3. CASE jn[t].ret = "dw_weak"
    BY <1>k, <1>r, <1>s, <2>1, <2>3, SMTT(30) DEF Starts, OnlyNext, Unlock, WeakStep, WeakMine,
     Room, StrongOnStart, StrongOnItem, WeakOnStart, WeakOnItem, WeakForGroup, WeakOnGap, At,
     HoldsValue, Ind, Janitoring, Live, Inc, Dec, LiveStrong, LastStrong, STRONG_DROPPED, Knows,
     Frames, Shape, Continues, DropShape, Updating, Upgrading, Dying, Places, Before, locals,
     client, heap, WeakWords, CallFrames, JanitorFrames
  <2>4. CASE jn[t].ret = "upd_done"
    BY <1>k, <1>r, <1>s, <2>1, <2>4, SMTT(30) DEF Starts, OnlyNext, Unlock, WeakStep, WeakMine,
     Room, StrongOnStart, StrongOnItem, WeakOnStart, WeakOnItem, WeakForGroup, WeakOnGap, At,
     HoldsValue, Ind, Janitoring, Live, Inc, Dec, LiveStrong, LastStrong, STRONG_DROPPED, Knows,
     Frames, Shape, Continues, DropShape, Updating, Upgrading, Dying, Places, Before, locals,
     client, heap, WeakWords, CallFrames, JanitorFrames
  <2>5. CASE jn[t].ret = "get_done"
    BY <1>k, <1>r, <1>s, <2>1, <2>5, SMTT(30) DEF Starts, OnlyNext, Unlock, WeakStep, WeakMine,
     Room, StrongOnStart, StrongOnItem, WeakOnStart, WeakOnItem, WeakForGroup, WeakOnGap, At,
     HoldsValue, Ind, Janitoring, Live, Inc, Dec, LiveStrong, LastStrong, STRONG_DROPPED, Knows,
     Frames, Shape, Continues, DropShape, Updating, Upgrading, Dying, Places, Before, locals,
     client, heap, WeakWords, CallFrames, JanitorFrames
  <2>9. jn[t].ret = "dw_weak" \/ jn[t].ret = "upd_done" \/ jn[t].ret = "get_done"
    BY <1>k, <1>r, <1>s, <2>1 DEF DropFrames, Shape, Dying, CallFrames, Continues, Janitoring
  <2> QED BY <2>3, <2>4, <2>5, <2>9
<1>5. CASE JanitorStrong(t)
  BY <1>k, <1>r, <1>s, <1>5, SMTT(30) DEF JanitorStrong, Janitor, Goto, ReadOnly, WeakStep,
     WeakMine, Room, StrongOnStart, StrongOnItem, WeakOnStart, WeakOnItem, WeakForGroup,
     WeakOnGap, At, HoldsValue, Ind, Janitoring, Live, Inc, Dec, LiveStrong, LastStrong,
     STRONG_DROPPED, Knows, Frames, Shape, Continues, DropShape, Updating, Upgrading, Dying,
     Places, Before, locals, client, heap, WeakWords, CallFrames, JanitorFrames
<1>6. CASE JanitorSetNext(t)
  BY <1>k, <1>r, <1>s, <1>6, SMTT(30) DEF JanitorSetNext, Janitor, SetNext, Goto, OnlyNext,
     WeakStep, WeakMine, Room, StrongOnStart, StrongOnItem, WeakOnStart, WeakOnItem,
     WeakForGroup, WeakOnGap, At, HoldsValue, Ind, Janitoring, Live, Inc, Dec, LiveStrong,
     LastStrong, STRONG_DROPPED, Knows, Frames, Shape, Continues, DropShape, Updating,
     Upgrading, Dying, Places, Before, locals, client, heap, WeakWords, CallFrames,
     JanitorFrames
<1>7. CASE JanitorCheckAdvance(t)
  BY <1>k, <1>r, <1>s, <1>7, SMTT(30) DEF JanitorCheckAdvance, Janitor, Goto, ReadOnly,
     WeakStep, WeakMine, Room, StrongOnStart, StrongOnItem, WeakOnStart, WeakOnItem,
     WeakForGroup, WeakOnGap, At, HoldsValue, Ind, Janitoring, Live, Inc, Dec, LiveStrong,
     LastStrong, STRONG_DROPPED, Knows, Frames, Shape, Continues, DropShape, Updating,
     Upgrading, Dying, Places, Before, locals, client, heap, WeakWords, CallFrames,
     JanitorFrames
<1>8. CASE JanitorFinal(t)
  BY <1>k, <1>r, <1>s, <1>8, SMTT(30) DEF JanitorFinal, Janitor, Goto, ReadOnly, WeakStep,
     WeakMine, Room, StrongOnStart, StrongOnItem, WeakOnStart, WeakOnItem, WeakForGroup,
     WeakOnGap, At, HoldsValue, Ind, Janitoring, Live, Inc, Dec, LiveStrong, LastStrong,
     STRONG_DROPPED, Knows, Frames, Shape, Continues, DropShape, Updating, Upgrading, Dying,
     Places, Before, locals, client, heap, WeakWords, CallFrames, JanitorFrames
<1>9. CASE JanitorDelete(t)
  BY <1>k, <1>r, <1>s, <1>9, SMTT(30) DEF JanitorDelete, Janitor, Goto, ReadOnly, WeakStep,
     WeakMine, Room, StrongOnStart, StrongOnItem, WeakOnStart, WeakOnItem, WeakForGroup,
     WeakOnGap, At, HoldsValue, Ind, Janitoring, Live, Inc, Dec, LiveStrong, LastStrong,
     STRONG_DROPPED, Knows, Frames, Shape, Continues, DropShape, Updating, Upgrading, Dying,
     Places, Before, locals, client, heap, WeakWords, CallFrames, JanitorFrames, JanitorOrdered,
     Older
<1>11. CASE JanitorClearPrev(t)
  BY <1>k, <1>r, <1>s, <1>11, SMTT(30) DEF JanitorClearPrev, Janitor, Goto, OnlyWeak, WeakStep,
     WeakMine, Room, StrongOnStart, StrongOnItem, WeakOnStart, WeakOnItem, WeakForGroup,
     WeakOnGap, At, HoldsValue, Ind, Janitoring, Live, Inc, Dec, LiveStrong, LastStrong,
     STRONG_DROPPED, Knows, Frames, Shape, Continues, DropShape, Updating, Upgrading, Dying,
     Places, Before, locals, client, heap, WeakWords, CallFrames, JanitorFrames, JanitorOrdered,
     Null, Nodes
<1>13. CASE JanitorCarry(t)
  BY <1>k, <1>r, <1>s, <1>13, SMTT(30) DEF JanitorCarry, Janitor, ReleaseCarry, Goto, OnlyNext,
     Unlock, WeakStep, WeakMine, Room, StrongOnStart, StrongOnItem, WeakOnStart, WeakOnItem,
     WeakForGroup, WeakOnGap, At, HoldsValue, Ind, Janitoring, Live, Inc, Dec, LiveStrong,
     LastStrong, STRONG_DROPPED, Knows, Frames, Shape, Continues, DropShape, Updating,
     Upgrading, Dying, Places, Before, locals, client, heap, WeakWords, CallFrames,
     JanitorFrames
<1>14. CASE JanitorUncarry(t)
  BY <1>k, <1>r, <1>s, <1>14, SMTT(30) DEF JanitorUncarry, Janitor, ReleaseCarry, Goto,
     OnlyNext, Unlock, WeakStep, WeakMine, Room, StrongOnStart, StrongOnItem, WeakOnStart,
     WeakOnItem, WeakForGroup, WeakOnGap, At, HoldsValue, Ind, Janitoring, Live, Inc, Dec,
     LiveStrong, LastStrong, STRONG_DROPPED, Knows, Frames, Shape, Continues, DropShape,
     Updating, Upgrading, Dying, Places, Before, locals, client, heap, WeakWords, CallFrames,
     JanitorFrames
<1> QED BY <1>1, <1>2, <1>3, <1>4, <1>5, <1>6, <1>7, <1>8, <1>9, <1>11, <1>13, <1>14 DEF JanitorStep

(* A step of the drop of a reference changes a weak count by as much as it *)
(* changes its own weak references.                                        *)
LEMMA DropWeak ==
  ASSUME OrderInv, NEW t \in Threads, Shape(t), Places(t), Room(t), DropStep(t),
         ~DropWeakFree(t)
  PROVE  WeakStep(t)
<1>k. TypeOK /\ Knows(pc[t], item[t], av[t], pd[t], jn[t], op[t])
  BY RegistersTyped DEF OrderInv
<1>r. /\ pc \in [Threads -> Labels] /\ item \in [Threads -> Nodes] /\ av \in [Threads -> AdvanceFrames]
      /\ pd \in [Threads -> PayloadFrames] /\ jn \in [Threads -> JanitorFrames]
      /\ dr \in [Threads -> DropFrames] /\ op \in [Threads -> CallFrames]
      /\ strong \in [Nodes -> 0..UsizeMax] /\ UsizeMax \in Nat /\ weak \in [Nodes -> WeakWords]
      /\ mem \in [Nodes -> {"unused", "private", "live", "freed"}] /\ prev \in [Nodes -> Ptrs]
      /\ stamp \in [Nodes -> Nat] /\ next \in [Nodes -> NextWords] /\ adv \in [Nodes -> Int]
      /\ handle \in [Handles -> HandleStates]
  BY HeapAssumption DEF OrderInv, TypeOK
<1>s. Shape(t) /\ Places(t) /\ Room(t)
  OBVIOUS
<1>1. CASE DropStrongDec(t)
  <2>1. CASE LastStrong(item[t])
    <3>1. /\ pc[t] = "ds_dec"
          /\ SubStrong(item[t])
          /\ OnlyStrong
          /\ UNCHANGED <<pd, op>>
          /\ Starts(t, item[t], "weak", "jan_lock")
          /\ jn'[t] = [IdleJanitor EXCEPT !.ret = "dw_weak"]
          /\ dr'[t] = [IdleDrop EXCEPT !.ret = dr[t].ret]
      BY <1>k, <1>1, <2>1, DropStrongDecEffect
    <3> QED BY <1>k, <1>r, <1>s, <2>1, <3>1, SMTT(30) DEF Starts, SubStrong, OnlyStrong,
     IdleJanitor, IdleDrop, WeakStep, WeakMine, Room, StrongOnStart, StrongOnItem, WeakOnStart,
     WeakOnItem, WeakForGroup, WeakOnGap, At, HoldsValue, Ind, Janitoring, Live, Inc, Dec,
     LiveStrong, LastStrong, STRONG_DROPPED, Knows, Frames, Shape, Continues, DropShape,
     Updating, Upgrading, Dying, Places, Before, locals, client, heap, WeakWords, CallFrames
  <2>2. CASE ~LastStrong(item[t])
    <3>1. /\ pc[t] = "ds_dec"
          /\ SubStrong(item[t])
          /\ OnlyStrong
          /\ UNCHANGED <<pd, op>>
          /\ pc'[t] = dr[t].ret
          /\ dr'[t] = IdleDrop
          /\ jn'[t] = IdleJanitor
          /\ UNCHANGED <<item, av>>
      BY <1>k, <1>1, <2>2, DropStrongDecEffect
    <3>3. CASE dr[t].ret = "ret"
      BY <1>k, <1>r, <1>s, <2>2, <3>1, <3>3, SMTT(30) DEF Starts, SubStrong, OnlyStrong,
     IdleDrop, IdleJanitor, WeakStep, WeakMine, Room, StrongOnStart, StrongOnItem, WeakOnStart,
     WeakOnItem, WeakForGroup, WeakOnGap, At, HoldsValue, Ind, Janitoring, Live, Inc, Dec,
     LiveStrong, LastStrong, STRONG_DROPPED, Knows, Frames, Shape, Continues, DropShape,
     Updating, Upgrading, Dying, Places, Before, locals, client, heap, WeakWords, CallFrames
    <3>4. CASE dr[t].ret = "sg_dec"
      BY <1>k, <1>r, <1>s, <2>2, <3>1, <3>4, SMTT(30) DEF Starts, SubStrong, OnlyStrong,
     IdleDrop, IdleJanitor, WeakStep, WeakMine, Room, StrongOnStart, StrongOnItem, WeakOnStart,
     WeakOnItem, WeakForGroup, WeakOnGap, At, HoldsValue, Ind, Janitoring, Live, Inc, Dec,
     LiveStrong, LastStrong, STRONG_DROPPED, Knows, Frames, Shape, Continues, DropShape,
     Updating, Upgrading, Dying, Places, Before, locals, client, heap, WeakWords, CallFrames
    <3>9. dr[t].ret = "ret" \/ dr[t].ret = "sg_dec"
      BY <1>k, <1>r, <1>s, <3>1, <2>2 DEF DropFrames, Shape, Dying, CallFrames, Continues,
     Janitoring
    <3> QED BY <3>3, <3>4, <3>9
  <2> QED BY <2>1, <2>2
<1>2. CASE DropWeakLoad(t)
  <2>1. CASE jn[t].rerun
    <3>1. /\ pc[t] = "dw_weak"
          /\ ReadOnly
          /\ UNCHANGED <<pd, op>>
          /\ Starts(t, item[t], "weak", "jan_lock")
          /\ jn'[t] = [IdleJanitor EXCEPT !.ret = "dw_weak"]
          /\ UNCHANGED dr
      BY <1>k, <1>2, <2>1, DropWeakLoadEffect
    <3> QED BY <1>k, <1>r, <1>s, <2>1, <3>1, SMTT(30) DEF Starts, ReadOnly, IdleJanitor,
     WeakStep, WeakMine, Room, StrongOnStart, StrongOnItem, WeakOnStart, WeakOnItem,
     WeakForGroup, WeakOnGap, At, HoldsValue, Ind, Janitoring, Live, Inc, Dec, LiveStrong,
     LastStrong, STRONG_DROPPED, Knows, Frames, Shape, Continues, DropShape, Updating,
     Upgrading, Dying, Places, Before, locals, client, heap, WeakWords, CallFrames
  <2>2. CASE ~jn[t].rerun
    <3>1. /\ pc[t] = "dw_weak"
          /\ ReadOnly
          /\ UNCHANGED <<pd, op>>
          /\ pc'[t] = "dw_next"
          /\ dr'[t] = [dr[t] EXCEPT !.ww = weak[item[t]]]
          /\ UNCHANGED <<item, av, jn>>
      BY <1>k, <1>2, <2>2, DropWeakLoadEffect
    <3> QED BY <1>k, <1>r, <1>s, <2>2, <3>1, SMTT(30) DEF Starts, ReadOnly, WeakStep, WeakMine,
     Room, StrongOnStart, StrongOnItem, WeakOnStart, WeakOnItem, WeakForGroup, WeakOnGap, At,
     HoldsValue, Ind, Janitoring, Live, Inc, Dec, LiveStrong, LastStrong, STRONG_DROPPED, Knows,
     Frames, Shape, Continues, DropShape, Updating, Upgrading, Dying, Places, Before, locals,
     client, heap, WeakWords, CallFrames
  <2> QED BY <2>1, <2>2
<1>3. CASE DropWeakNext(t)
  <2>1. CASE HasNext(item[t])
    <3>1. /\ pc[t] = "dw_next"
          /\ ReadOnly
          /\ UNCHANGED <<pd, op>>
          /\ Starts(t, item[t], "weak", "jan_lock")
          /\ jn'[t] = [IdleJanitor EXCEPT !.ret = "dw_weak"]
          /\ dr'[t] = [IdleDrop EXCEPT !.ret = dr[t].ret]
      BY <1>k, <1>3, <2>1, DropWeakNextEffect
    <3> QED BY <1>k, <1>r, <1>s, <2>1, <3>1, SMTT(30) DEF Starts, ReadOnly, IdleJanitor,
     IdleDrop, WeakStep, WeakMine, Room, StrongOnStart, StrongOnItem, WeakOnStart, WeakOnItem,
     WeakForGroup, WeakOnGap, At, HoldsValue, Ind, Janitoring, Live, Inc, Dec, LiveStrong,
     LastStrong, STRONG_DROPPED, Knows, Frames, Shape, Continues, DropShape, Updating,
     Upgrading, Dying, Places, Before, locals, client, heap, WeakWords, CallFrames
  <2>2. CASE ~HasNext(item[t])
    <3>1. /\ pc[t] = "dw_next"
          /\ ReadOnly
          /\ UNCHANGED <<pd, op>>
          /\ pc'[t] = IF jn[t].status = "NoStrongRefsExist" THEN "dw_claim" ELSE "dw_cas"
          /\ UNCHANGED <<item, av, jn, dr>>
      BY <1>k, <1>3, <2>2, DropWeakNextEffect
    <3> QED BY <1>k, <1>r, <1>s, <2>2, <3>1, SMTT(30) DEF Starts, ReadOnly, WeakStep, WeakMine,
     Room, StrongOnStart, StrongOnItem, WeakOnStart, WeakOnItem, WeakForGroup, WeakOnGap, At,
     HoldsValue, Ind, Janitoring, Live, Inc, Dec, LiveStrong, LastStrong, STRONG_DROPPED, Knows,
     Frames, Shape, Continues, DropShape, Updating, Upgrading, Dying, Places, Before, locals,
     client, heap, WeakWords, CallFrames
  <2> QED BY <2>1, <2>2
<1>4. CASE ClaimTeardown(t)
  BY <1>k, <1>r, <1>s, <1>4, SMTT(30) DEF ClaimTeardown, StartPayloadDrop, Goto, OnlyStrong,
     WeakStep, WeakMine, Room, StrongOnStart, StrongOnItem, WeakOnStart, WeakOnItem,
     WeakForGroup, WeakOnGap, At, HoldsValue, Ind, Janitoring, Live, Inc, Dec, LiveStrong,
     LastStrong, STRONG_DROPPED, Knows, Frames, Shape, Continues, DropShape, Updating,
     Upgrading, Dying, Places, Before, locals, client, heap, WeakWords, CallFrames
<1>5. CASE DropWeakCas(t)
  <2>1. CASE ~SameWeakWord(item[t], dr[t].ww)
    <3>1. /\ pc[t] = "dw_cas"
          /\ OnlyWeak
          /\ UNCHANGED <<pd, op>>
          /\ Starts(t, item[t], "weak", "jan_lock")
          /\ jn'[t] = [IdleJanitor EXCEPT !.ret = "dw_weak"]
          /\ dr'[t] = [IdleDrop EXCEPT !.ret = dr[t].ret]
          /\ UNCHANGED weak
      BY <1>k, <1>5, <2>1, DropWeakCasEffect
    <3> QED BY <1>k, <1>r, <1>s, <2>1, <3>1, SMTT(30) DEF Starts, OnlyWeak, IdleJanitor,
     IdleDrop, WeakStep, WeakMine, Room, StrongOnStart, StrongOnItem, WeakOnStart, WeakOnItem,
     WeakForGroup, WeakOnGap, At, HoldsValue, Ind, Janitoring, Live, Inc, Dec, LiveStrong,
     LastStrong, STRONG_DROPPED, Knows, Frames, Shape, Continues, DropShape, Updating,
     Upgrading, Dying, Places, Before, locals, client, heap, WeakWords, CallFrames
  <2>2. CASE SameWeakWord(item[t], dr[t].ww) /\ SoleUser(dr[t].ww)
    <3>1. /\ pc[t] = "dw_cas"
          /\ OnlyWeak
          /\ UNCHANGED <<pd, op>>
          /\ SubWeak(item[t])
          /\ pc'[t] = "dw_free"
          /\ UNCHANGED <<item, av, jn, dr>>
      BY <1>k, <1>5, <2>2, DropWeakCasEffect
    <3> QED BY <1>k, <1>r, <1>s, <2>2, <3>1, SMTT(30) DEF Starts, OnlyWeak, SubWeak, WeakStep,
     WeakMine, Room, StrongOnStart, StrongOnItem, WeakOnStart, WeakOnItem, WeakForGroup,
     WeakOnGap, At, HoldsValue, Ind, Janitoring, Live, Inc, Dec, LiveStrong, LastStrong,
     STRONG_DROPPED, Knows, Frames, Shape, Continues, DropShape, Updating, Upgrading, Dying,
     Places, Before, locals, client, heap, WeakWords, CallFrames
  <2>3. CASE SameWeakWord(item[t], dr[t].ww) /\ ~SoleUser(dr[t].ww)
    <3>1. /\ pc[t] = "dw_cas"
          /\ OnlyWeak
          /\ UNCHANGED <<pd, op>>
          /\ SubWeak(item[t])
          /\ pc'[t] = dr[t].ret
          /\ dr'[t] = IdleDrop
          /\ jn'[t] = IdleJanitor
          /\ UNCHANGED <<item, av>>
      BY <1>k, <1>5, <2>3, DropWeakCasEffect
    <3>3. CASE dr[t].ret = "ret"
      BY <1>k, <1>r, <1>s, <2>3, <3>1, <3>3, SMTT(30) DEF Starts, OnlyWeak, SubWeak, IdleDrop,
     IdleJanitor, WeakStep, WeakMine, Room, StrongOnStart, StrongOnItem, WeakOnStart,
     WeakOnItem, WeakForGroup, WeakOnGap, At, HoldsValue, Ind, Janitoring, Live, Inc, Dec,
     LiveStrong, LastStrong, STRONG_DROPPED, Knows, Frames, Shape, Continues, DropShape,
     Updating, Upgrading, Dying, Places, Before, locals, client, heap, WeakWords, CallFrames
    <3>4. CASE dr[t].ret = "sg_dec"
      BY <1>k, <1>r, <1>s, <2>3, <3>1, <3>4, SMTT(30) DEF Starts, OnlyWeak, SubWeak, IdleDrop,
     IdleJanitor, WeakStep, WeakMine, Room, StrongOnStart, StrongOnItem, WeakOnStart,
     WeakOnItem, WeakForGroup, WeakOnGap, At, HoldsValue, Ind, Janitoring, Live, Inc, Dec,
     LiveStrong, LastStrong, STRONG_DROPPED, Knows, Frames, Shape, Continues, DropShape,
     Updating, Upgrading, Dying, Places, Before, locals, client, heap, WeakWords, CallFrames
    <3>9. dr[t].ret = "ret" \/ dr[t].ret = "sg_dec"
      BY <1>k, <1>r, <1>s, <3>1, <2>3 DEF DropFrames, Shape, Dying, CallFrames, Continues,
     Janitoring
    <3> QED BY <3>3, <3>4, <3>9
  <2> QED BY <2>1, <2>2, <2>3
<1> QED BY <1>1, <1>2, <1>3, <1>4, <1>5 DEF DropStep

(* A step of an update changes a weak count by as much as it changes its   *)
(* own weak references.                                                    *)
LEMMA UpdateWeak ==
  ASSUME OrderInv, NEW t \in Threads, Shape(t), Places(t), Room(t), UpdateStep(t),
         ~UpdateCas(t)
  PROVE  WeakStep(t)
<1>k. TypeOK /\ Knows(pc[t], item[t], av[t], pd[t], jn[t], op[t])
  BY RegistersTyped DEF OrderInv
<1>r. /\ pc \in [Threads -> Labels] /\ item \in [Threads -> Nodes] /\ av \in [Threads -> AdvanceFrames]
      /\ pd \in [Threads -> PayloadFrames] /\ jn \in [Threads -> JanitorFrames]
      /\ dr \in [Threads -> DropFrames] /\ op \in [Threads -> CallFrames]
      /\ strong \in [Nodes -> 0..UsizeMax] /\ UsizeMax \in Nat /\ weak \in [Nodes -> WeakWords]
      /\ mem \in [Nodes -> {"unused", "private", "live", "freed"}] /\ prev \in [Nodes -> Ptrs]
      /\ stamp \in [Nodes -> Nat] /\ next \in [Nodes -> NextWords] /\ adv \in [Nodes -> Int]
      /\ handle \in [Handles -> HandleStates]
  BY HeapAssumption DEF OrderInv, TypeOK
<1>s. Shape(t) /\ Places(t) /\ Room(t)
  OBVIOUS
<1>1. CASE UpdateNext(t)
  <2>1. CASE HasNext(item[t])
    <3>1. /\ pc[t] = "upd_next"
          /\ UNCHANGED <<client, pd, jn, dr>>
          /\ UNCHANGED <<next, adv, drops>>
          /\ Starts(t, item[t], "strong", "upd_next")
          /\ UNCHANGED <<heap, op>>
      BY <1>k, <1>1, <2>1, UpdateNextEffect
    <3> QED BY <1>k, <1>r, <1>s, <2>1, <3>1, SMTT(30) DEF Starts, WeakStep, WeakMine, Room,
     StrongOnStart, StrongOnItem, WeakOnStart, WeakOnItem, WeakForGroup, WeakOnGap, At,
     HoldsValue, Ind, Janitoring, Live, Inc, Dec, LiveStrong, LastStrong, STRONG_DROPPED, Knows,
     Frames, Shape, Continues, DropShape, Updating, Upgrading, Dying, Places, Before, locals,
     client, heap, WeakWords, CallFrames, NewNode, Linking
  <2>2. CASE ~HasNext(item[t]) /\ op[t].val # Null
    <3>1. /\ pc[t] = "upd_next"
          /\ UNCHANGED <<client, pd, jn, dr>>
          /\ UNCHANGED <<next, adv, drops>>
          /\ pc'[t] = "upd_weak"
          /\ op'[t] = [op[t] EXCEPT !.nw = next[item[t]]]
          /\ prev' = [prev EXCEPT ![op[t].val] = item[t]]
          /\ UNCHANGED <<strong, weak, mem, item, av>>
      BY <1>k, <1>1, <2>2, UpdateNextEffect
    <3> QED BY <1>k, <1>r, <1>s, <2>2, <3>1, SMTT(30) DEF Starts, WeakStep, WeakMine, Room,
     StrongOnStart, StrongOnItem, WeakOnStart, WeakOnItem, WeakForGroup, WeakOnGap, At,
     HoldsValue, Ind, Janitoring, Live, Inc, Dec, LiveStrong, LastStrong, STRONG_DROPPED, Knows,
     Frames, Shape, Continues, DropShape, Updating, Upgrading, Dying, Places, Before, locals,
     client, heap, WeakWords, CallFrames, NewNode, Linking
  <2>3. CASE ~HasNext(item[t]) /\ op[t].val = Null
    <3>1. /\ pc[t] = "upd_next"
          /\ UNCHANGED <<client, pd, jn, dr>>
          /\ UNCHANGED <<next, adv, drops>>
          /\ Unused # {}
          /\ pc'[t] = "upd_weak"
          /\ op'[t] = [op[t] EXCEPT !.val = FreshNode, !.nw = next[item[t]]]
          /\ NewHolder(FreshNode, item[t])
          /\ UNCHANGED <<item, av>>
      BY <1>k, <1>1, <2>3, UpdateNextEffect
    <3>2. FreshNode \in Nodes /\ mem[FreshNode] = "unused" /\ ~Published(FreshNode)
      BY <3>1, FreshIsUnused
    <3> QED BY <1>k, <1>r, <1>s, <2>3, <3>1, <3>2, SMTT(30) DEF Starts, NewHolder, WeakStep,
     WeakMine, Room, StrongOnStart, StrongOnItem, WeakOnStart, WeakOnItem, WeakForGroup,
     WeakOnGap, At, HoldsValue, Ind, Janitoring, Live, Inc, Dec, LiveStrong, LastStrong,
     STRONG_DROPPED, Knows, Frames, Shape, Continues, DropShape, Updating, Upgrading, Dying,
     Places, Before, locals, client, heap, WeakWords, CallFrames, NewNode, Linking
  <2> QED BY <2>1, <2>2, <2>3
<1>2. CASE RcuCancel(t)
  BY <1>k, <1>r, <1>s, <1>2, SMTT(30) DEF RcuCancel, Goto, WeakStep, WeakMine, Room,
     StrongOnStart, StrongOnItem, WeakOnStart, WeakOnItem, WeakForGroup, WeakOnGap, At,
     HoldsValue, Ind, Janitoring, Live, Inc, Dec, LiveStrong, LastStrong, STRONG_DROPPED, Knows,
     Frames, Shape, Continues, DropShape, Updating, Upgrading, Dying, Places, Before, locals,
     client, heap, WeakWords, CallFrames, NewNode, Linking
<1>3. CASE UpdateWeakInc(t)
  BY <1>k, <1>r, <1>s, <1>3, SMTT(30) DEF UpdateWeakInc, AddWeak, Goto, OnlyWeak, WeakStep,
     WeakMine, Room, StrongOnStart, StrongOnItem, WeakOnStart, WeakOnItem, WeakForGroup,
     WeakOnGap, At, HoldsValue, Ind, Janitoring, Live, Inc, Dec, LiveStrong, LastStrong,
     STRONG_DROPPED, Knows, Frames, Shape, Continues, DropShape, Updating, Upgrading, Dying,
     Places, Before, locals, client, heap, WeakWords, CallFrames
<1>5. CASE UpdateFail(t)
  <2>1. /\ pc[t] = "upd_fail"
        /\ SubWeak(item[t])
        /\ OnlyWeak
        /\ UNCHANGED <<pd, jn, dr, op>>
        /\ Starts(t, item[t], "strong", "upd_next")
    BY <1>k, <1>5, UpdateFailEffect
  <2> QED BY <1>k, <1>r, <1>s, <2>1, SMTT(30) DEF Starts, SubWeak, OnlyWeak, WeakStep, WeakMine,
     Room, StrongOnStart, StrongOnItem, WeakOnStart, WeakOnItem, WeakForGroup, WeakOnGap, At,
     HoldsValue, Ind, Janitoring, Live, Inc, Dec, LiveStrong, LastStrong, STRONG_DROPPED, Knows,
     Frames, Shape, Continues, DropShape, Updating, Upgrading, Dying, Places, Before, locals,
     client, heap, WeakWords, CallFrames
<1>6. CASE UpdateMark(t)
  BY <1>k, <1>r, <1>s, <1>6, SMTT(30) DEF UpdateMark, Goto, OnlyWeak, WeakStep, WeakMine, Room,
     StrongOnStart, StrongOnItem, WeakOnStart, WeakOnItem, WeakForGroup, WeakOnGap, At,
     HoldsValue, Ind, Janitoring, Live, Inc, Dec, LiveStrong, LastStrong, STRONG_DROPPED, Knows,
     Frames, Shape, Continues, DropShape, Updating, Upgrading, Dying, Places, Before, locals,
     client, heap, WeakWords, CallFrames
<1>7. CASE UpdateDec(t)
  <2>1. CASE LastStrong(item[t])
    BY <1>k, <1>r, <1>s, <1>7, <2>1, SMTT(30) DEF UpdateDec, SubStrong, StartPayloadDrop, Goto,
     OnlyStrong, WeakStep, WeakMine, Room, StrongOnStart, StrongOnItem, WeakOnStart, WeakOnItem,
     WeakForGroup, WeakOnGap, At, HoldsValue, Ind, Janitoring, Live, Inc, Dec, LiveStrong,
     LastStrong, STRONG_DROPPED, Knows, Frames, Shape, Continues, DropShape, Updating,
     Upgrading, Dying, Places, Before, locals, client, heap, WeakWords, CallFrames
  <2>2. CASE ~LastStrong(item[t])
    <3>1. \A n \in Nodes : LiveStrong(strong[n])' > 0 <=> LiveStrong(strong[n]) > 0
      BY <1>k, <1>r, <1>s, <1>7, <2>2, SMTT(30) DEF UpdateDec, SubStrong, Dec, LiveStrong,
     LastStrong, STRONG_DROPPED, Room, StrongOnItem, StrongOnStart, At
    <3> QED BY <1>k, <1>r, <1>s, <1>7, <2>2, <3>1, SMTT(30) DEF UpdateDec, StartPayloadDrop,
     Goto, OnlyStrong, WeakStep, WeakMine, Room, StrongOnStart, StrongOnItem, WeakOnStart,
     WeakOnItem, WeakForGroup, WeakOnGap, At, HoldsValue, Ind, Janitoring, Live, Inc, Knows,
     Frames, Shape, Continues, DropShape, Updating, Upgrading, Dying, Places, Before, locals,
     client, heap, WeakWords, CallFrames
  <2> QED BY <2>1, <2>2
<1>8. CASE UpdateDecWeak(t)
  BY <1>k, <1>r, <1>s, <1>8, SMTT(30) DEF UpdateDecWeak, SubWeak, Goto, OnlyWeak, WeakStep,
     WeakMine, Room, StrongOnStart, StrongOnItem, WeakOnStart, WeakOnItem, WeakForGroup,
     WeakOnGap, At, HoldsValue, Ind, Janitoring, Live, Inc, Dec, LiveStrong, LastStrong,
     STRONG_DROPPED, Knows, Frames, Shape, Continues, DropShape, Updating, Upgrading, Dying,
     Places, Before, locals, client, heap, WeakWords, CallFrames
<1>9. CASE UpdateDone(t)
  <2>1. CASE jn[t].rerun
    <3>1. /\ pc[t] = "upd_done"
          /\ ReadOnly
          /\ UNCHANGED <<pd, jn, dr, op>>
          /\ Starts(t, item[t], "strong", "jan_lock")
      BY <1>k, <1>9, <2>1, UpdateDoneEffect
    <3> QED BY <1>k, <1>r, <1>s, <2>1, <3>1, SMTT(30) DEF Starts, ReadOnly, WeakStep, WeakMine,
     Room, StrongOnStart, StrongOnItem, WeakOnStart, WeakOnItem, WeakForGroup, WeakOnGap, At,
     HoldsValue, Ind, Janitoring, Live, Inc, Dec, LiveStrong, LastStrong, STRONG_DROPPED, Knows,
     Frames, Shape, Continues, DropShape, Updating, Upgrading, Dying, Places, Before, locals,
     client, heap, WeakWords, CallFrames
  <2>2. CASE ~jn[t].rerun
    <3>1. /\ pc[t] = "upd_done"
          /\ ReadOnly
          /\ UNCHANGED <<pd, jn, dr, op>>
          /\ pc'[t] = "ret"
          /\ UNCHANGED <<item, av>>
      BY <1>k, <1>9, <2>2, UpdateDoneEffect
    <3> QED BY <1>k, <1>r, <1>s, <2>2, <3>1, SMTT(30) DEF Starts, ReadOnly, WeakStep, WeakMine,
     Room, StrongOnStart, StrongOnItem, WeakOnStart, WeakOnItem, WeakForGroup, WeakOnGap, At,
     HoldsValue, Ind, Janitoring, Live, Inc, Dec, LiveStrong, LastStrong, STRONG_DROPPED, Knows,
     Frames, Shape, Continues, DropShape, Updating, Upgrading, Dying, Places, Before, locals,
     client, heap, WeakWords, CallFrames
  <2> QED BY <2>1, <2>2
<1> QED BY <1>1, <1>2, <1>3, <1>5, <1>6, <1>7, <1>8, <1>9 DEF UpdateStep

(* A step of an upgrade changes a weak count by as much as it changes its  *)
(* own weak references.                                                    *)
LEMMA UpgradeWeak ==
  ASSUME OrderInv, NEW t \in Threads, Shape(t), Places(t), Room(t), UpgradeStep(t)
  PROVE  WeakStep(t)
<1>k. TypeOK /\ Knows(pc[t], item[t], av[t], pd[t], jn[t], op[t])
  BY RegistersTyped DEF OrderInv
<1>r. /\ pc \in [Threads -> Labels] /\ item \in [Threads -> Nodes] /\ av \in [Threads -> AdvanceFrames]
      /\ pd \in [Threads -> PayloadFrames] /\ jn \in [Threads -> JanitorFrames]
      /\ dr \in [Threads -> DropFrames] /\ op \in [Threads -> CallFrames]
      /\ strong \in [Nodes -> 0..UsizeMax] /\ UsizeMax \in Nat /\ weak \in [Nodes -> WeakWords]
      /\ mem \in [Nodes -> {"unused", "private", "live", "freed"}] /\ prev \in [Nodes -> Ptrs]
      /\ stamp \in [Nodes -> Nat] /\ next \in [Nodes -> NextWords] /\ adv \in [Nodes -> Int]
      /\ handle \in [Handles -> HandleStates]
  BY HeapAssumption DEF OrderInv, TypeOK
<1>s. Shape(t) /\ Places(t) /\ Room(t)
  OBVIOUS
<1>1. CASE UpgradeLoadStrong(t)
  BY <1>k, <1>r, <1>s, <1>1, SMTT(30) DEF UpgradeLoadStrong, Goto, ReadOnly, WeakStep, WeakMine,
     Room, StrongOnStart, StrongOnItem, WeakOnStart, WeakOnItem, WeakForGroup, WeakOnGap, At,
     HoldsValue, Ind, Janitoring, Live, Inc, Dec, LiveStrong, LastStrong, STRONG_DROPPED, Knows,
     Frames, Shape, Continues, DropShape, Updating, Upgrading, Dying, Places, Before, locals,
     client, heap, WeakWords, CallFrames
<1>2. CASE UpgradeLoadNext(t)
  <2>1. CASE HasNext(item[t])
    <3>1. /\ pc[t] = "upg_next"
          /\ ReadOnly
          /\ UNCHANGED pd
          /\ Starts(t, item[t], "weak", "upg_strong")
          /\ UNCHANGED <<jn, dr, op>>
      BY <1>k, <1>2, <2>1, UpgradeLoadNextEffect
    <3> QED BY <1>k, <1>r, <1>s, <2>1, <3>1, SMTT(30) DEF Starts, ReadOnly, WeakStep, WeakMine,
     Room, StrongOnStart, StrongOnItem, WeakOnStart, WeakOnItem, WeakForGroup, WeakOnGap, At,
     HoldsValue, Ind, Janitoring, Live, Inc, Dec, LiveStrong, LastStrong, STRONG_DROPPED, Knows,
     Frames, Shape, Continues, DropShape, Updating, Upgrading, Dying, Places, Before, locals,
     client, heap, WeakWords, CallFrames
  <2>2. CASE ~HasNext(item[t]) /\ ValueIsGone(item[t], op[t].cs)
    <3>1. /\ pc[t] = "upg_next"
          /\ ReadOnly
          /\ UNCHANGED pd
          /\ Starts(t, item[t], "weak", "jan_lock")
          /\ jn'[t] = [IdleJanitor EXCEPT !.ret = "dw_weak"]
          /\ dr'[t] = [IdleDrop EXCEPT !.ret = "ret"]
          /\ op'[t] = [op[t] EXCEPT !.ok = FALSE]
      BY <1>k, <1>2, <2>2, UpgradeLoadNextEffect
    <3> QED BY <1>k, <1>r, <1>s, <2>2, <3>1, SMTT(30) DEF Starts, ReadOnly, IdleJanitor,
     IdleDrop, WeakStep, WeakMine, Room, StrongOnStart, StrongOnItem, WeakOnStart, WeakOnItem,
     WeakForGroup, WeakOnGap, At, HoldsValue, Ind, Janitoring, Live, Inc, Dec, LiveStrong,
     LastStrong, STRONG_DROPPED, Knows, Frames, Shape, Continues, DropShape, Updating,
     Upgrading, Dying, Places, Before, locals, client, heap, WeakWords, CallFrames
  <2>3. CASE ~HasNext(item[t]) /\ ~ValueIsGone(item[t], op[t].cs)
    <3>1. /\ pc[t] = "upg_next"
          /\ ReadOnly
          /\ UNCHANGED pd
          /\ pc'[t] = IF op[t].cs = 0 THEN "upg_incw" ELSE "upg_cas"
          /\ UNCHANGED <<item, av, jn, dr, op>>
      BY <1>k, <1>2, <2>3, UpgradeLoadNextEffect
    <3> QED BY <1>k, <1>r, <1>s, <2>3, <3>1, SMTT(30) DEF Starts, ReadOnly, WeakStep, WeakMine,
     Room, StrongOnStart, StrongOnItem, WeakOnStart, WeakOnItem, WeakForGroup, WeakOnGap, At,
     HoldsValue, Ind, Janitoring, Live, Inc, Dec, LiveStrong, LastStrong, STRONG_DROPPED, Knows,
     Frames, Shape, Continues, DropShape, Updating, Upgrading, Dying, Places, Before, locals,
     client, heap, WeakWords, CallFrames
  <2> QED BY <2>1, <2>2, <2>3
<1>3. CASE UpgradeIncWeak(t)
  BY <1>k, <1>r, <1>s, <1>3, SMTT(30) DEF UpgradeIncWeak, AddWeak, Goto, OnlyWeak, WeakStep,
     WeakMine, Room, StrongOnStart, StrongOnItem, WeakOnStart, WeakOnItem, WeakForGroup,
     WeakOnGap, At, HoldsValue, Ind, Janitoring, Live, Inc, Dec, LiveStrong, LastStrong,
     STRONG_DROPPED, Knows, Frames, Shape, Continues, DropShape, Updating, Upgrading, Dying,
     Places, Before, locals, client, heap, WeakWords, CallFrames
<1>4. CASE UpgradeCas(t)
  <2>1. CASE strong[item[t]] = op[t].cs
    <3>1. /\ pc[t] = "upg_cas"
          /\ OnlyStrong
          /\ UNCHANGED <<pd, jn, dr, op>>
          /\ AddStrong(item[t])
          /\ pc'[t] = "upg_check"
          /\ UNCHANGED <<item, av>>
      BY <1>k, <1>4, <2>1, UpgradeCasEffect
    <3> QED BY <1>k, <1>r, <1>s, <2>1, <3>1, SMTT(30) DEF Starts, OnlyStrong, AddStrong,
     WeakStep, WeakMine, Room, StrongOnStart, StrongOnItem, WeakOnStart, WeakOnItem,
     WeakForGroup, WeakOnGap, At, HoldsValue, Ind, Janitoring, Live, Inc, Dec, LiveStrong,
     LastStrong, STRONG_DROPPED, Knows, Frames, Shape, Continues, DropShape, Updating,
     Upgrading, Dying, Places, Before, locals, client, heap, WeakWords, CallFrames
  <2>2. CASE strong[item[t]] # op[t].cs /\ op[t].cs = 0
    <3>1. /\ pc[t] = "upg_cas"
          /\ OnlyStrong
          /\ UNCHANGED <<pd, jn, dr, op>>
          /\ pc'[t] = "upg_race"
          /\ UNCHANGED <<strong, item, av>>
      BY <1>k, <1>4, <2>2, UpgradeCasEffect
    <3> QED BY <1>k, <1>r, <1>s, <2>2, <3>1, SMTT(30) DEF Starts, OnlyStrong, WeakStep,
     WeakMine, Room, StrongOnStart, StrongOnItem, WeakOnStart, WeakOnItem, WeakForGroup,
     WeakOnGap, At, HoldsValue, Ind, Janitoring, Live, Inc, Dec, LiveStrong, LastStrong,
     STRONG_DROPPED, Knows, Frames, Shape, Continues, DropShape, Updating, Upgrading, Dying,
     Places, Before, locals, client, heap, WeakWords, CallFrames
  <2>3. CASE strong[item[t]] # op[t].cs /\ op[t].cs # 0
    <3>1. /\ pc[t] = "upg_cas"
          /\ OnlyStrong
          /\ UNCHANGED <<pd, jn, dr, op>>
          /\ Starts(t, item[t], "weak", "upg_strong")
          /\ UNCHANGED strong
      BY <1>k, <1>4, <2>3, UpgradeCasEffect
    <3> QED BY <1>k, <1>r, <1>s, <2>3, <3>1, SMTT(30) DEF Starts, OnlyStrong, WeakStep,
     WeakMine, Room, StrongOnStart, StrongOnItem, WeakOnStart, WeakOnItem, WeakForGroup,
     WeakOnGap, At, HoldsValue, Ind, Janitoring, Live, Inc, Dec, LiveStrong, LastStrong,
     STRONG_DROPPED, Knows, Frames, Shape, Continues, DropShape, Updating, Upgrading, Dying,
     Places, Before, locals, client, heap, WeakWords, CallFrames
  <2> QED BY <2>1, <2>2, <2>3
<1>5. CASE UpgradeRaceDecWeak(t)
  <2>1. /\ pc[t] = "upg_race"
        /\ SubWeak(item[t])
        /\ OnlyWeak
        /\ UNCHANGED <<pd, jn, dr, op>>
        /\ Starts(t, item[t], "weak", "upg_strong")
    BY <1>k, <1>5, UpgradeRaceDecWeakEffect
  <2> QED BY <1>k, <1>r, <1>s, <2>1, SMTT(30) DEF Starts, SubWeak, OnlyWeak, WeakStep, WeakMine,
     Room, StrongOnStart, StrongOnItem, WeakOnStart, WeakOnItem, WeakForGroup, WeakOnGap, At,
     HoldsValue, Ind, Janitoring, Live, Inc, Dec, LiveStrong, LastStrong, STRONG_DROPPED, Knows,
     Frames, Shape, Continues, DropShape, Updating, Upgrading, Dying, Places, Before, locals,
     client, heap, WeakWords, CallFrames
<1>6. CASE UpgradeCheck(t)
  BY <1>k, <1>r, <1>s, <1>6, SMTT(30) DEF UpgradeCheck, Goto, ReadOnly, WeakStep, WeakMine,
     Room, StrongOnStart, StrongOnItem, WeakOnStart, WeakOnItem, WeakForGroup, WeakOnGap, At,
     HoldsValue, Ind, Janitoring, Live, Inc, Dec, LiveStrong, LastStrong, STRONG_DROPPED, Knows,
     Frames, Shape, Continues, DropShape, Updating, Upgrading, Dying, Places, Before, locals,
     client, heap, WeakWords, CallFrames
<1>7. CASE UpgradeUndo(t)
  <2>1. CASE LastStrong(item[t])
    <3>1. /\ pc[t] = "upg_undo"
          /\ SubStrong(item[t])
          /\ OnlyStrong
          /\ UNCHANGED <<pd, jn, dr, op>>
          /\ pc'[t] = "upg_undo_decw"
          /\ UNCHANGED <<item, av>>
      BY <1>k, <1>7, <2>1, UpgradeUndoEffect
    <3> QED BY <1>k, <1>r, <1>s, <2>1, <3>1, SMTT(30) DEF Starts, SubStrong, OnlyStrong,
     WeakStep, WeakMine, Room, StrongOnStart, StrongOnItem, WeakOnStart, WeakOnItem,
     WeakForGroup, WeakOnGap, At, HoldsValue, Ind, Janitoring, Live, Inc, Dec, LiveStrong,
     LastStrong, STRONG_DROPPED, Knows, Frames, Shape, Continues, DropShape, Updating,
     Upgrading, Dying, Places, Before, locals, client, heap, WeakWords, CallFrames
  <2>2. CASE ~LastStrong(item[t])
    <3>1. /\ pc[t] = "upg_undo"
          /\ SubStrong(item[t])
          /\ OnlyStrong
          /\ UNCHANGED <<pd, jn, dr, op>>
          /\ Starts(t, item[t], "weak", "upg_strong")
      BY <1>k, <1>7, <2>2, UpgradeUndoEffect
    <3> QED BY <1>k, <1>r, <1>s, <2>2, <3>1, SMTT(30) DEF Starts, SubStrong, OnlyStrong,
     WeakStep, WeakMine, Room, StrongOnStart, StrongOnItem, WeakOnStart, WeakOnItem,
     WeakForGroup, WeakOnGap, At, HoldsValue, Ind, Janitoring, Live, Inc, Dec, LiveStrong,
     LastStrong, STRONG_DROPPED, Knows, Frames, Shape, Continues, DropShape, Updating,
     Upgrading, Dying, Places, Before, locals, client, heap, WeakWords, CallFrames
  <2> QED BY <2>1, <2>2
<1>8. CASE UpgradeUndoDecWeak(t)
  <2>1. /\ pc[t] = "upg_undo_decw"
        /\ SubWeak(item[t])
        /\ OnlyWeak
        /\ UNCHANGED <<pd, jn, dr, op>>
        /\ Starts(t, item[t], "weak", "upg_strong")
    BY <1>k, <1>8, UpgradeUndoDecWeakEffect
  <2> QED BY <1>k, <1>r, <1>s, <2>1, SMTT(30) DEF Starts, SubWeak, OnlyWeak, WeakStep, WeakMine,
     Room, StrongOnStart, StrongOnItem, WeakOnStart, WeakOnItem, WeakForGroup, WeakOnGap, At,
     HoldsValue, Ind, Janitoring, Live, Inc, Dec, LiveStrong, LastStrong, STRONG_DROPPED, Knows,
     Frames, Shape, Continues, DropShape, Updating, Upgrading, Dying, Places, Before, locals,
     client, heap, WeakWords, CallFrames
<1>9. CASE UpgradeDone(t)
  BY <1>k, <1>r, <1>s, <1>9, SMTT(30) DEF UpgradeDone, SubWeak, Goto, OnlyWeak, WeakStep,
     WeakMine, Room, StrongOnStart, StrongOnItem, WeakOnStart, WeakOnItem, WeakForGroup,
     WeakOnGap, At, HoldsValue, Ind, Janitoring, Live, Inc, Dec, LiveStrong, LastStrong,
     STRONG_DROPPED, Knows, Frames, Shape, Continues, DropShape, Updating, Upgrading, Dying,
     Places, Before, locals, client, heap, WeakWords, CallFrames
<1> QED BY <1>1, <1>2, <1>3, <1>4, <1>5, <1>6, <1>7, <1>8, <1>9 DEF UpgradeStep

(* A step of the remaining code of the public calls changes a weak count   *)
(* by as much as it changes its own weak references.                       *)
LEMMA ApiWeak ==
  ASSUME OrderInv, NEW t \in Threads, Shape(t), Places(t), Room(t), ApiStep(t),
         ~Return(t)
  PROVE  WeakStep(t)
<1>k. TypeOK /\ Knows(pc[t], item[t], av[t], pd[t], jn[t], op[t])
  BY RegistersTyped DEF OrderInv
<1>r. /\ pc \in [Threads -> Labels] /\ item \in [Threads -> Nodes] /\ av \in [Threads -> AdvanceFrames]
      /\ pd \in [Threads -> PayloadFrames] /\ jn \in [Threads -> JanitorFrames]
      /\ dr \in [Threads -> DropFrames] /\ op \in [Threads -> CallFrames]
      /\ strong \in [Nodes -> 0..UsizeMax] /\ UsizeMax \in Nat /\ weak \in [Nodes -> WeakWords]
      /\ mem \in [Nodes -> {"unused", "private", "live", "freed"}] /\ prev \in [Nodes -> Ptrs]
      /\ stamp \in [Nodes -> Nat] /\ next \in [Nodes -> NextWords] /\ adv \in [Nodes -> Int]
      /\ handle \in [Handles -> HandleStates]
  BY HeapAssumption DEF OrderInv, TypeOK
<1>s. Shape(t) /\ Places(t) /\ Room(t)
  OBVIOUS
<1>1. CASE GetLoad(t)
  <2>1. CASE NeedsReload(op[t].f, item[t])
    <3>1. /\ pc[t] = "get_load"
          /\ ReadOnly
          /\ UNCHANGED <<pd, dr, op>>
          /\ Starts(t, item[t], "strong", "jan_lock")
          /\ jn'[t].ret = "get_done"
      BY <1>k, <1>1, <2>1, GetLoadEffect
    <3> QED BY <1>k, <1>r, <1>s, <2>1, <3>1, SMTT(30) DEF Starts, ReadOnly, WeakStep, WeakMine,
     Room, StrongOnStart, StrongOnItem, WeakOnStart, WeakOnItem, WeakForGroup, WeakOnGap, At,
     HoldsValue, Ind, Janitoring, Live, Inc, Dec, LiveStrong, LastStrong, STRONG_DROPPED, Knows,
     Frames, Shape, Continues, DropShape, Updating, Upgrading, Dying, Places, Before, locals,
     client, heap, WeakWords, CallFrames
  <2>2. CASE ~NeedsReload(op[t].f, item[t])
    <3>1. /\ pc[t] = "get_load"
          /\ ReadOnly
          /\ UNCHANGED <<pd, dr, op>>
          /\ pc'[t] = AfterReload(op[t].f)
          /\ UNCHANGED <<item, av, jn>>
      BY <1>k, <1>1, <2>2, GetLoadEffect
    <3> QED BY <1>k, <1>r, <1>s, <2>2, <3>1, SMTT(30) DEF Starts, ReadOnly, AfterReload,
     WeakStep, WeakMine, Room, StrongOnStart, StrongOnItem, WeakOnStart, WeakOnItem,
     WeakForGroup, WeakOnGap, At, HoldsValue, Ind, Janitoring, Live, Inc, Dec, LiveStrong,
     LastStrong, STRONG_DROPPED, Knows, Frames, Shape, Continues, DropShape, Updating,
     Upgrading, Dying, Places, Before, locals, client, heap, WeakWords, CallFrames
  <2> QED BY <2>1, <2>2
<1>2. CASE GetDone(t)
  <2>1. CASE jn[t].rerun
    <3>1. /\ pc[t] = "get_done"
          /\ ReadOnly
          /\ UNCHANGED <<pd, jn, dr, op>>
          /\ Starts(t, item[t], "strong", "jan_lock")
      BY <1>k, <1>2, <2>1, GetDoneEffect
    <3> QED BY <1>k, <1>r, <1>s, <2>1, <3>1, SMTT(30) DEF Starts, ReadOnly, WeakStep, WeakMine,
     Room, StrongOnStart, StrongOnItem, WeakOnStart, WeakOnItem, WeakForGroup, WeakOnGap, At,
     HoldsValue, Ind, Janitoring, Live, Inc, Dec, LiveStrong, LastStrong, STRONG_DROPPED, Knows,
     Frames, Shape, Continues, DropShape, Updating, Upgrading, Dying, Places, Before, locals,
     client, heap, WeakWords, CallFrames
  <2>2. CASE ~jn[t].rerun
    <3>1. /\ pc[t] = "get_done"
          /\ ReadOnly
          /\ UNCHANGED <<pd, jn, dr, op>>
          /\ pc'[t] = AfterReload(op[t].f)
          /\ UNCHANGED <<item, av>>
      BY <1>k, <1>2, <2>2, GetDoneEffect
    <3> QED BY <1>k, <1>r, <1>s, <2>2, <3>1, SMTT(30) DEF Starts, ReadOnly, AfterReload,
     WeakStep, WeakMine, Room, StrongOnStart, StrongOnItem, WeakOnStart, WeakOnItem,
     WeakForGroup, WeakOnGap, At, HoldsValue, Ind, Janitoring, Live, Inc, Dec, LiveStrong,
     LastStrong, STRONG_DROPPED, Knows, Frames, Shape, Continues, DropShape, Updating,
     Upgrading, Dying, Places, Before, locals, client, heap, WeakWords, CallFrames
  <2> QED BY <2>1, <2>2
<1>3. CASE TryGetMutWeak(t)
  BY <1>k, <1>r, <1>s, <1>3, SMTT(30) DEF TryGetMutWeak, Goto, ReadOnly, WeakStep, WeakMine,
     Room, StrongOnStart, StrongOnItem, WeakOnStart, WeakOnItem, WeakForGroup, WeakOnGap, At,
     HoldsValue, Ind, Janitoring, Live, Inc, Dec, LiveStrong, LastStrong, STRONG_DROPPED, Knows,
     Frames, Shape, Continues, DropShape, Updating, Upgrading, Dying, Places, Before, locals,
     client, heap, WeakWords, CallFrames
<1>4. CASE TryGetMutStrong(t)
  BY <1>k, <1>r, <1>s, <1>4, SMTT(30) DEF TryGetMutStrong, Goto, ReadOnly, WeakStep, WeakMine,
     Room, StrongOnStart, StrongOnItem, WeakOnStart, WeakOnItem, WeakForGroup, WeakOnGap, At,
     HoldsValue, Ind, Janitoring, Live, Inc, Dec, LiveStrong, LastStrong, STRONG_DROPPED, Knows,
     Frames, Shape, Continues, DropShape, Updating, Upgrading, Dying, Places, Before, locals,
     client, heap, WeakWords, CallFrames
<1>5. CASE TryGetMutAgain(t)
  BY <1>k, <1>r, <1>s, <1>5, SMTT(30) DEF TryGetMutAgain, Goto, ReadOnly, WeakStep, WeakMine,
     Room, StrongOnStart, StrongOnItem, WeakOnStart, WeakOnItem, WeakForGroup, WeakOnGap, At,
     HoldsValue, Ind, Janitoring, Live, Inc, Dec, LiveStrong, LastStrong, STRONG_DROPPED, Knows,
     Frames, Shape, Continues, DropShape, Updating, Upgrading, Dying, Places, Before, locals,
     client, heap, WeakWords, CallFrames
<1>6. CASE SharedGetLoad(t)
  <2>1. CASE HasNext(Base(t))
    BY <1>k, <1>r, <1>s, <1>6, <2>1, SMTT(30) DEF SharedGetLoad, Goto, ReadOnly, WeakStep,
     WeakMine, Room, StrongOnStart, StrongOnItem, WeakOnStart, WeakOnItem, WeakForGroup,
     WeakOnGap, At, HoldsValue, Ind, Janitoring, Live, Inc, Dec, LiveStrong, LastStrong,
     STRONG_DROPPED, Knows, Frames, Shape, Continues, DropShape, Updating, Upgrading, Dying,
     Places, Before, locals, client, heap, WeakWords, CallFrames
  <2>2. CASE ~HasNext(Base(t))
    BY <1>k, <1>r, <1>s, <1>6, <2>2, SMTT(30) DEF SharedGetLoad, Goto, ReadOnly, WeakStep,
     WeakMine, Room, StrongOnStart, StrongOnItem, WeakOnStart, WeakOnItem, WeakForGroup,
     WeakOnGap, At, HoldsValue, Ind, Janitoring, Live, Inc, Dec, LiveStrong, LastStrong,
     STRONG_DROPPED, Knows, Frames, Shape, Continues, DropShape, Updating, Upgrading, Dying,
     Places, Before, locals, client, heap, WeakWords, CallFrames
  <2> QED BY <2>1, <2>2
<1>7. CASE SharedGetInc(t)
  BY <1>k, <1>r, <1>s, <1>7, SMTT(30) DEF SharedGetInc, Goto, OnlyAdv, WeakStep, WeakMine, Room,
     StrongOnStart, StrongOnItem, WeakOnStart, WeakOnItem, WeakForGroup, WeakOnGap, At,
     HoldsValue, Ind, Janitoring, Live, Inc, Dec, LiveStrong, LastStrong, STRONG_DROPPED, Knows,
     Frames, Shape, Continues, DropShape, Updating, Upgrading, Dying, Places, Before, locals,
     client, heap, WeakWords, CallFrames
<1>8. CASE SharedGetNext(t)
  BY <1>k, <1>r, <1>s, <1>8, SMTT(30) DEF SharedGetNext, Goto, ReadOnly, WeakStep, WeakMine,
     Room, StrongOnStart, StrongOnItem, WeakOnStart, WeakOnItem, WeakForGroup, WeakOnGap, At,
     HoldsValue, Ind, Janitoring, Live, Inc, Dec, LiveStrong, LastStrong, STRONG_DROPPED, Knows,
     Frames, Shape, Continues, DropShape, Updating, Upgrading, Dying, Places, Before, locals,
     client, heap, WeakWords, CallFrames
<1>9. CASE SharedGetStrong(t)
  BY <1>k, <1>r, <1>s, <1>9, SMTT(30) DEF SharedGetStrong, Goto, ReadOnly, WeakStep, WeakMine,
     Room, StrongOnStart, StrongOnItem, WeakOnStart, WeakOnItem, WeakForGroup, WeakOnGap, At,
     HoldsValue, Ind, Janitoring, Live, Inc, Dec, LiveStrong, LastStrong, STRONG_DROPPED, Knows,
     Frames, Shape, Continues, DropShape, Updating, Upgrading, Dying, Places, Before, locals,
     client, heap, WeakWords, CallFrames
<1>10. CASE SharedGetCas(t)
  <2>1. CASE strong[op[t].nxt] = op[t].cs
    BY <1>k, <1>r, <1>s, <1>10, <2>1, SMTT(30) DEF SharedGetCas, AddStrong, Goto, OnlyStrong,
     WeakStep, WeakMine, Room, StrongOnStart, StrongOnItem, WeakOnStart, WeakOnItem,
     WeakForGroup, WeakOnGap, At, HoldsValue, Ind, Janitoring, Live, Inc, Dec, LiveStrong,
     LastStrong, STRONG_DROPPED, Knows, Frames, Shape, Continues, DropShape, Updating,
     Upgrading, Dying, Places, Before, locals, client, heap, WeakWords, CallFrames
  <2>2. CASE strong[op[t].nxt] # op[t].cs
    BY <1>k, <1>r, <1>s, <1>10, <2>2, SMTT(30) DEF SharedGetCas, AddStrong, Goto, OnlyStrong,
     WeakStep, WeakMine, Room, StrongOnStart, StrongOnItem, WeakOnStart, WeakOnItem,
     WeakForGroup, WeakOnGap, At, HoldsValue, Ind, Janitoring, Live, Inc, Dec, LiveStrong,
     LastStrong, STRONG_DROPPED, Knows, Frames, Shape, Continues, DropShape, Updating,
     Upgrading, Dying, Places, Before, locals, client, heap, WeakWords, CallFrames
  <2> QED BY <2>1, <2>2
<1>11. CASE SharedGetRecheck(t)
  <2>1. CASE HasNext(op[t].nxt)
    <3>1. /\ pc[t] = "sg_recheck"
          /\ ReadOnly
          /\ UNCHANGED <<pd, jn, op>>
          /\ Starts(t, op[t].nxt, "strong", "ds_dec")
          /\ dr'[t] = [IdleDrop EXCEPT !.ret = "sg_dec"]
      BY <1>k, <1>11, <2>1, SharedGetRecheckEffect
    <3> QED BY <1>k, <1>r, <1>s, <2>1, <3>1, SMTT(30) DEF Starts, ReadOnly, IdleDrop, WeakStep,
     WeakMine, Room, StrongOnStart, StrongOnItem, WeakOnStart, WeakOnItem, WeakForGroup,
     WeakOnGap, At, HoldsValue, Ind, Janitoring, Live, Inc, Dec, LiveStrong, LastStrong,
     STRONG_DROPPED, Knows, Frames, Shape, Continues, DropShape, Updating, Upgrading, Dying,
     Places, Before, locals, client, heap, WeakWords, CallFrames
  <2>2. CASE ~HasNext(op[t].nxt)
    <3>1. /\ pc[t] = "sg_recheck"
          /\ ReadOnly
          /\ UNCHANGED <<pd, jn, op>>
          /\ pc'[t] = "sg_light"
          /\ UNCHANGED <<item, av, dr>>
      BY <1>k, <1>11, <2>2, SharedGetRecheckEffect
    <3> QED BY <1>k, <1>r, <1>s, <2>2, <3>1, SMTT(30) DEF Starts, ReadOnly, WeakStep, WeakMine,
     Room, StrongOnStart, StrongOnItem, WeakOnStart, WeakOnItem, WeakForGroup, WeakOnGap, At,
     HoldsValue, Ind, Janitoring, Live, Inc, Dec, LiveStrong, LastStrong, STRONG_DROPPED, Knows,
     Frames, Shape, Continues, DropShape, Updating, Upgrading, Dying, Places, Before, locals,
     client, heap, WeakWords, CallFrames
  <2> QED BY <2>1, <2>2
<1>12. CASE SharedGetLight(t)
  BY <1>k, <1>r, <1>s, <1>12, SMTT(30) DEF SharedGetLight, Goto, OnlyAdv, WeakStep, WeakMine,
     Room, StrongOnStart, StrongOnItem, WeakOnStart, WeakOnItem, WeakForGroup, WeakOnGap, At,
     HoldsValue, Ind, Janitoring, Live, Inc, Dec, LiveStrong, LastStrong, STRONG_DROPPED, Knows,
     Frames, Shape, Continues, DropShape, Updating, Upgrading, Dying, Places, Before, locals,
     client, heap, WeakWords, CallFrames
<1>13. CASE SharedGetDec(t)
  BY <1>k, <1>r, <1>s, <1>13, SMTT(30) DEF SharedGetDec, Goto, OnlyAdv, WeakStep, WeakMine,
     Room, StrongOnStart, StrongOnItem, WeakOnStart, WeakOnItem, WeakForGroup, WeakOnGap, At,
     HoldsValue, Ind, Janitoring, Live, Inc, Dec, LiveStrong, LastStrong, STRONG_DROPPED, Knows,
     Frames, Shape, Continues, DropShape, Updating, Upgrading, Dying, Places, Before, locals,
     client, heap, WeakWords, CallFrames
<1>14. CASE SharedGetClone(t)
  <2>1. /\ pc[t] = "sg_clone"
        /\ AddStrong(Base(t))
        /\ OnlyStrong
        /\ UNCHANGED <<pd, jn, dr>>
        /\ Starts(t, Base(t), "strong", "reading")
        /\ op'[t] = [op[t] EXCEPT !.guard = "full"]
    BY <1>k, <1>14, SharedGetCloneEffect
  <2> QED BY <1>k, <1>r, <1>s, <2>1, SMTT(30) DEF Starts, AddStrong, OnlyStrong, WeakStep,
     WeakMine, Room, StrongOnStart, StrongOnItem, WeakOnStart, WeakOnItem, WeakForGroup,
     WeakOnGap, At, HoldsValue, Ind, Janitoring, Live, Inc, Dec, LiveStrong, LastStrong,
     STRONG_DROPPED, Knows, Frames, Shape, Continues, DropShape, Updating, Upgrading, Dying,
     Places, Before, locals, client, heap, WeakWords, CallFrames
<1>15. CASE FinishReading(t)
  <2>1. CASE op[t].guard \in {"light", "full"}
    <3>1. /\ pc[t] \in {"reading", "mutref"}
          /\ ReadOnly
          /\ UNCHANGED <<pd, jn, op>>
          /\ Starts(t, item[t], "strong", "ds_dec")
          /\ dr'[t] = [IdleDrop EXCEPT !.ret = "ret"]
      BY <1>k, <1>15, <2>1, FinishReadingEffect
    <3> QED BY <1>k, <1>r, <1>s, <2>1, <3>1, SMTT(30) DEF Starts, ReadOnly, IdleDrop, WeakStep,
     WeakMine, Room, StrongOnStart, StrongOnItem, WeakOnStart, WeakOnItem, WeakForGroup,
     WeakOnGap, At, HoldsValue, Ind, Janitoring, Live, Inc, Dec, LiveStrong, LastStrong,
     STRONG_DROPPED, Knows, Frames, Shape, Continues, DropShape, Updating, Upgrading, Dying,
     Places, Before, locals, client, heap, WeakWords, CallFrames
  <2>2. CASE op[t].guard \notin {"light", "full"}
    <3>1. /\ pc[t] \in {"reading", "mutref"}
          /\ ReadOnly
          /\ UNCHANGED <<pd, jn, op>>
          /\ pc'[t] = "ret"
          /\ UNCHANGED <<item, av, dr>>
      BY <1>k, <1>15, <2>2, FinishReadingEffect
    <3> QED BY <1>k, <1>r, <1>s, <2>2, <3>1, SMTT(30) DEF Starts, ReadOnly, WeakStep, WeakMine,
     Room, StrongOnStart, StrongOnItem, WeakOnStart, WeakOnItem, WeakForGroup, WeakOnGap, At,
     HoldsValue, Ind, Janitoring, Live, Inc, Dec, LiveStrong, LastStrong, STRONG_DROPPED, Knows,
     Frames, Shape, Continues, DropShape, Updating, Upgrading, Dying, Places, Before, locals,
     client, heap, WeakWords, CallFrames
  <2> QED BY <2>1, <2>2
<1> QED BY <1>1, <1>2, <1>3, <1>4, <1>5, <1>6, <1>7, <1>8, <1>9, <1>10, <1>11, <1>12, <1>13,
  <1>14, <1>15 DEF ApiStep
===============================================================================
