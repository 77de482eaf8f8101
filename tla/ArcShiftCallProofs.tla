-------------------------- MODULE ArcShiftCallProofs --------------------------
(***************************************************************************)
(* What a call knows of its nodes between two of its steps.                *)
(***************************************************************************)
EXTENDS ArcShiftListProofs

USE DEF Advancing, Dropping, Walking, Swapping, SwappedIn, SharedGetting

(* What every call knows about the places of its nodes in the line.        *)

(* The line grows to the right, and a borrowed handle stays as it is.       *)
Grows ==
  /\ \A n \in Nodes : HasNext(n) => HasNext(n)'
  /\ \A n \in Nodes : Published(n) => stamp'[n] = stamp[n]
BaseKept ==
  \A u \in Threads : pc[u] # "idle" /\ op[u].f = "sharedGet" => handle'[op[u].hnd] = handle[op[u].hnd]

(* Every step of a call or its beginning.                                   *)
AnyStep(t) == Step(t) \/ Call(t)

(* No janitor gives a node a smaller stamp or brings one back.             *)
LEMMA JanitorGrows ==
  ASSUME OrderInv, NEW t \in Threads, JanitorStep(t)
  PROVE  Grows
<1>k. TypeOK /\ Knows(pc[t], item[t], av[t], pd[t], jn[t], op[t])
  BY RegistersTyped DEF OrderInv
<1>r. item[t] \in Nodes /\ item[t] # Null /\ jn[t] \in JanitorFrames
  BY <1>k DEF TypeOK, Nodes, Null
<1>1. CASE JanitorLockStart(t)
  <2>1. UNCHANGED stamp /\ KeepsPtrs
    BY <1>k, <1>1, JanitorLockStartMoves DEF KeepsNext, Locks, Unlocks
  <2> QED BY <2>1 DEF Grows, HasNext, KeepsPtrs
<1>2. CASE JanitorSweep(t)
  <2>0. jn[t].cur \in Nodes
    BY <1>k, <1>r, <1>2 DEF JanitorSweep, Janitor, JanitorOrdered, Older, Knows, JanitorFrames, Ptrs
  <2>1. UNCHANGED stamp /\ KeepsPtrs
    BY <1>k, <1>2, <2>0, JanitorSweepMoves DEF KeepsNext, Locks, Unlocks
  <2> QED BY <2>1 DEF Grows, HasNext, KeepsPtrs
<1>3. CASE JanitorCleanup(t)
  <2>1. UNCHANGED stamp /\ KeepsPtrs
    BY <1>k, <1>3, JanitorCleanupMoves DEF KeepsNext, Locks, Unlocks
  <2> QED BY <2>1 DEF Grows, HasNext, KeepsPtrs
<1>4. CASE JanitorUnlockStart(t)
  <2>1. UNCHANGED stamp /\ KeepsPtrs
    BY <1>k, <1>4, JanitorUnlockStartMoves DEF KeepsNext, Locks, Unlocks
  <2> QED BY <2>1 DEF Grows, HasNext, KeepsPtrs
<1>5. CASE JanitorStrong(t)
  <2>1. UNCHANGED stamp /\ KeepsPtrs
    BY <1>k, <1>5, JanitorStrongMoves DEF KeepsNext, Locks, Unlocks
  <2> QED BY <2>1 DEF Grows, HasNext, KeepsPtrs
<1>6. CASE JanitorSetNext(t)
  <2>1. UNCHANGED stamp /\ Redirects(jn[t].prv, item[t])
    BY <1>k, <1>r, <1>6, JanitorSetNextMoves
  <2> QED BY <1>r, <2>1 DEF Grows, HasNext, Redirects
<1>7. CASE JanitorCheckAdvance(t)
  <2>1. UNCHANGED stamp /\ KeepsPtrs
    BY <1>k, <1>7, JanitorCheckAdvanceMoves DEF KeepsNext, Locks, Unlocks
  <2> QED BY <2>1 DEF Grows, HasNext, KeepsPtrs
<1>8. CASE JanitorFinal(t)
  <2>1. UNCHANGED stamp /\ KeepsPtrs
    BY <1>k, <1>8, JanitorFinalMoves DEF KeepsNext, Locks, Unlocks
  <2> QED BY <2>1 DEF Grows, HasNext, KeepsPtrs
<1>9. CASE JanitorDelete(t)
  <2>1. UNCHANGED stamp /\ KeepsPtrs
    BY <1>k, <1>9, JanitorDeleteMoves DEF KeepsNext, Locks, Unlocks
  <2> QED BY <2>1 DEF Grows, HasNext, KeepsPtrs
<1>10. CASE JanitorFree(t)
  <2>1. UNCHANGED stamp /\ KeepsPtrs
    BY <1>k, <1>10, JanitorFreeMoves DEF KeepsNext, Locks, Unlocks
  <2> QED BY <2>1 DEF Grows, HasNext, KeepsPtrs
<1>11. CASE JanitorClearPrev(t)
  <2>1. UNCHANGED stamp /\ KeepsPtrs
    BY <1>k, <1>11, JanitorClearPrevMoves DEF KeepsNext, Locks, Unlocks
  <2> QED BY <2>1 DEF Grows, HasNext, KeepsPtrs
<1>12. CASE JanitorUnlink(t)
  <2>1. UNCHANGED stamp /\ KeepsPtrs
    BY <1>k, <1>12, JanitorUnlinkMoves DEF KeepsNext, Locks, Unlocks
  <2> QED BY <2>1 DEF Grows, HasNext, KeepsPtrs
<1>13. CASE JanitorCarry(t)
  <2>1. UNCHANGED stamp /\ KeepsPtrs
    BY <1>k, <1>13, JanitorCarryMoves DEF KeepsNext, Locks, Unlocks
  <2> QED BY <2>1 DEF Grows, HasNext, KeepsPtrs
<1>14. CASE JanitorUncarry(t)
  <2>1. UNCHANGED stamp /\ KeepsPtrs
    BY <1>k, <1>14, JanitorUncarryMoves DEF KeepsNext, Locks, Unlocks
  <2> QED BY <2>1 DEF Grows, HasNext, KeepsPtrs
<1> QED BY <1>1, <1>2, <1>3, <1>4, <1>5, <1>6, <1>7, <1>8, <1>9, <1>10, <1>11, <1>12, <1>13,
  <1>14 DEF JanitorStep

(* A step that changes no link and no node moves nothing backwards.        *)
LEMMA QuietGrows ==
  ASSUME NEW t \in Threads, Quiet(t)
  PROVE  Grows
  BY DEF Quiet, KeepsNext, KeepsPtrs, Grows, HasNext

(* No step takes a successor away or makes an older node of a newer one.   *)
LEMMA AllGrow ==
  ASSUME OrderInv, NEW t \in Threads, Shape(t), AnyStep(t)
  PROVE  Grows
<1>1. TypeOK
  BY DEF OrderInv
<1>2. CASE UpdateCas(t) /\ CanLink(item[t], op[t].nw)
  <2>1. Links(t, item[t], op[t].val)
    BY <1>2, UpdateLinks
  <2>2. op[t].val # Null /\ ~Published(op[t].val)
    BY <2>1 DEF Links, Nodes, Null
  <2> QED BY <1>1, <2>1, <2>2 DEF Links, Grows, HasNext, Published, TypeOK
<1>3. CASE DropWeakFree(t)
  BY <1>3 DEF DropWeakFree, Grows, HasNext, client
<1>4. CASE JanitorStep(t)
  BY <1>4, JanitorGrows
<1>5. CASE UpdateCas(t) /\ ~CanLink(item[t], op[t].nw)
  BY <1>5, UpdateCasQuiet, QuietGrows
<1> QED BY <1>2, <1>3, <1>4, <1>5, AdvanceQuiet, DropQuiet, UpdateQuiet, UpgradeQuiet, ApiQuiet, CallQuiet, QuietGrows
       DEF AnyStep, Step

(* Who calls shared_get keeps its handle.                                   *)
LEMMA BorrowedKept ==
  ASSUME OrderInv, NEW t \in Threads, AnyStep(t)
  PROVE  BaseKept
<1>1. CASE AdvanceStep(t)
  <2>0. handle' = handle => BaseKept
    BY DEF BaseKept
  <2>1. AdvanceLoad(t) => handle' = handle
    BY DEF AdvanceLoad, client, heap, OnlyNext, OnlyPrev, OnlyStrong, OnlyWeak, OnlyAdv, ReadOnly
  <2>2. AdvanceInc(t) => handle' = handle
    BY DEF AdvanceInc, client, heap, OnlyNext, OnlyPrev, OnlyStrong, OnlyWeak, OnlyAdv, ReadOnly
  <2>3. AdvanceReload(t) => handle' = handle
    BY DEF AdvanceReload, client, heap, OnlyNext, OnlyPrev, OnlyStrong, OnlyWeak, OnlyAdv, ReadOnly
  <2>4. AdvanceWeakInc(t) => handle' = handle
    BY DEF AdvanceWeakInc, client, heap, OnlyNext, OnlyPrev, OnlyStrong, OnlyWeak, OnlyAdv, ReadOnly
  <2>5. AdvanceDec(t) => handle' = handle
    BY DEF AdvanceDec, client, heap, OnlyNext, OnlyPrev, OnlyStrong, OnlyWeak, OnlyAdv, ReadOnly
  <2>6. AdvanceWeakDec(t) => handle' = handle
    BY DEF AdvanceWeakDec, client, heap, OnlyNext, OnlyPrev, OnlyStrong, OnlyWeak, OnlyAdv, ReadOnly
  <2>7. WeakLeaveStart(t) => handle' = handle
    BY DEF WeakLeaveStart, client, heap, OnlyNext, OnlyPrev, OnlyStrong, OnlyWeak, OnlyAdv, ReadOnly
  <2>8. PayloadMark(t) => handle' = handle
    BY DEF PayloadMark, client, heap, OnlyNext, OnlyPrev, OnlyStrong, OnlyWeak, OnlyAdv, ReadOnly
  <2>9. PayloadDrop(t) => handle' = handle
    BY DEF PayloadDrop, client, heap, OnlyNext, OnlyPrev, OnlyStrong, OnlyWeak, OnlyAdv, ReadOnly
  <2>10. StrongLoad(t) => handle' = handle
    BY DEF StrongLoad, client, heap, OnlyNext, OnlyPrev, OnlyStrong, OnlyWeak, OnlyAdv, ReadOnly
  <2>11. StrongIncWeak(t) => handle' = handle
    BY DEF StrongIncWeak, client, heap, OnlyNext, OnlyPrev, OnlyStrong, OnlyWeak, OnlyAdv, ReadOnly
  <2>12. StrongCas(t) => handle' = handle
    BY DEF StrongCas, client, heap, OnlyNext, OnlyPrev, OnlyStrong, OnlyWeak, OnlyAdv, ReadOnly
  <2>13. StrongRaceDecWeak(t) => handle' = handle
    BY DEF StrongRaceDecWeak, client, heap, OnlyNext, OnlyPrev, OnlyStrong, OnlyWeak, OnlyAdv, ReadOnly
  <2>14. StrongRecheck(t) => handle' = handle
    BY DEF StrongRecheck, client, heap, OnlyNext, OnlyPrev, OnlyStrong, OnlyWeak, OnlyAdv, ReadOnly
  <2>15. StrongUndo(t) => handle' = handle
    BY DEF StrongUndo, client, heap, OnlyNext, OnlyPrev, OnlyStrong, OnlyWeak, OnlyAdv, ReadOnly
  <2>16. StrongUndoDecWeak(t) => handle' = handle
    BY DEF StrongUndoDecWeak, client, heap, OnlyNext, OnlyPrev, OnlyStrong, OnlyWeak, OnlyAdv, ReadOnly
  <2>17. StrongDecWeakB(t) => handle' = handle
    BY DEF StrongDecWeakB, client, heap, OnlyNext, OnlyPrev, OnlyStrong, OnlyWeak, OnlyAdv, ReadOnly
  <2>18. StrongLeaveStart(t) => handle' = handle
    BY DEF StrongLeaveStart, client, heap, OnlyNext, OnlyPrev, OnlyStrong, OnlyWeak, OnlyAdv, ReadOnly
  <2>19. StrongDecWeakA(t) => handle' = handle
    BY DEF StrongDecWeakA, client, heap, OnlyNext, OnlyPrev, OnlyStrong, OnlyWeak, OnlyAdv, ReadOnly
  <2> QED BY <1>1, <2>0, <2>1, <2>2, <2>3, <2>4, <2>5, <2>6, <2>7, <2>8, <2>9, <2>10, <2>11,
       <2>12, <2>13, <2>14, <2>15, <2>16, <2>17, <2>18, <2>19 DEF AdvanceStep
<1>2. CASE JanitorStep(t)
  <2>0. handle' = handle => BaseKept
    BY DEF BaseKept
  <2>1. JanitorLockStart(t) => handle' = handle
    BY DEF JanitorLockStart, client, heap, OnlyNext, OnlyPrev, OnlyStrong, OnlyWeak, OnlyAdv, ReadOnly
  <2>2. JanitorSweep(t) => handle' = handle
    BY DEF JanitorSweep, client, heap, OnlyNext, OnlyPrev, OnlyStrong, OnlyWeak, OnlyAdv, ReadOnly
  <2>3. JanitorCleanup(t) => handle' = handle
    BY DEF JanitorCleanup, client, heap, OnlyNext, OnlyPrev, OnlyStrong, OnlyWeak, OnlyAdv, ReadOnly
  <2>4. JanitorUnlockStart(t) => handle' = handle
    BY DEF JanitorUnlockStart, client, heap, OnlyNext, OnlyPrev, OnlyStrong, OnlyWeak, OnlyAdv, ReadOnly
  <2>5. JanitorStrong(t) => handle' = handle
    BY DEF JanitorStrong, client, heap, OnlyNext, OnlyPrev, OnlyStrong, OnlyWeak, OnlyAdv, ReadOnly
  <2>6. JanitorSetNext(t) => handle' = handle
    BY DEF JanitorSetNext, client, heap, OnlyNext, OnlyPrev, OnlyStrong, OnlyWeak, OnlyAdv, ReadOnly
  <2>7. JanitorCheckAdvance(t) => handle' = handle
    BY DEF JanitorCheckAdvance, client, heap, OnlyNext, OnlyPrev, OnlyStrong, OnlyWeak, OnlyAdv, ReadOnly
  <2>8. JanitorFinal(t) => handle' = handle
    BY DEF JanitorFinal, client, heap, OnlyNext, OnlyPrev, OnlyStrong, OnlyWeak, OnlyAdv, ReadOnly
  <2>9. JanitorDelete(t) => handle' = handle
    BY DEF JanitorDelete, client, heap, OnlyNext, OnlyPrev, OnlyStrong, OnlyWeak, OnlyAdv, ReadOnly
  <2>10. JanitorFree(t) => handle' = handle
    BY DEF JanitorFree, client, heap, OnlyNext, OnlyPrev, OnlyStrong, OnlyWeak, OnlyAdv, ReadOnly
  <2>11. JanitorClearPrev(t) => handle' = handle
    BY DEF JanitorClearPrev, client, heap, OnlyNext, OnlyPrev, OnlyStrong, OnlyWeak, OnlyAdv, ReadOnly
  <2>12. JanitorUnlink(t) => handle' = handle
    BY DEF JanitorUnlink, client, heap, OnlyNext, OnlyPrev, OnlyStrong, OnlyWeak, OnlyAdv, ReadOnly
  <2>13. JanitorCarry(t) => handle' = handle
    BY DEF JanitorCarry, client, heap, OnlyNext, OnlyPrev, OnlyStrong, OnlyWeak, OnlyAdv, ReadOnly
  <2>14. JanitorUncarry(t) => handle' = handle
    BY DEF JanitorUncarry, client, heap, OnlyNext, OnlyPrev, OnlyStrong, OnlyWeak, OnlyAdv, ReadOnly
  <2> QED BY <1>2, <2>0, <2>1, <2>2, <2>3, <2>4, <2>5, <2>6, <2>7, <2>8, <2>9, <2>10, <2>11,
       <2>12, <2>13, <2>14 DEF JanitorStep
<1>3. CASE DropStep(t)
  <2>0. handle' = handle => BaseKept
    BY DEF BaseKept
  <2>1. DropStrongDec(t) => handle' = handle
    BY DEF DropStrongDec, client, heap, OnlyNext, OnlyPrev, OnlyStrong, OnlyWeak, OnlyAdv, ReadOnly
  <2>2. DropWeakLoad(t) => handle' = handle
    BY DEF DropWeakLoad, client, heap, OnlyNext, OnlyPrev, OnlyStrong, OnlyWeak, OnlyAdv, ReadOnly
  <2>3. DropWeakNext(t) => handle' = handle
    BY DEF DropWeakNext, client, heap, OnlyNext, OnlyPrev, OnlyStrong, OnlyWeak, OnlyAdv, ReadOnly
  <2>4. ClaimTeardown(t) => handle' = handle
    BY DEF ClaimTeardown, client, heap, OnlyNext, OnlyPrev, OnlyStrong, OnlyWeak, OnlyAdv, ReadOnly
  <2>5. DropWeakCas(t) => handle' = handle
    BY DEF DropWeakCas, client, heap, OnlyNext, OnlyPrev, OnlyStrong, OnlyWeak, OnlyAdv, ReadOnly
  <2>6. DropWeakFree(t) => handle' = handle
    BY DEF DropWeakFree, client, heap, OnlyNext, OnlyPrev, OnlyStrong, OnlyWeak, OnlyAdv, ReadOnly
  <2> QED BY <1>3, <2>0, <2>1, <2>2, <2>3, <2>4, <2>5, <2>6 DEF DropStep
<1>4. CASE UpdateStep(t)
  <2>0. handle' = handle => BaseKept
    BY DEF BaseKept
  <2>1. UpdateNext(t) => handle' = handle
    BY DEF UpdateNext, client, heap, OnlyNext, OnlyPrev, OnlyStrong, OnlyWeak, OnlyAdv, ReadOnly
  <2>2. RcuCancel(t) => handle' = handle
    BY DEF RcuCancel, client, heap, OnlyNext, OnlyPrev, OnlyStrong, OnlyWeak, OnlyAdv, ReadOnly
  <2>3. UpdateWeakInc(t) => handle' = handle
    BY DEF UpdateWeakInc, client, heap, OnlyNext, OnlyPrev, OnlyStrong, OnlyWeak, OnlyAdv, ReadOnly
  <2>4. UpdateCas(t) => handle' = handle
    BY DEF UpdateCas, client, heap, OnlyNext, OnlyPrev, OnlyStrong, OnlyWeak, OnlyAdv, ReadOnly
  <2>5. UpdateFail(t) => handle' = handle
    BY DEF UpdateFail, client, heap, OnlyNext, OnlyPrev, OnlyStrong, OnlyWeak, OnlyAdv, ReadOnly
  <2>6. UpdateMark(t) => handle' = handle
    BY DEF UpdateMark, client, heap, OnlyNext, OnlyPrev, OnlyStrong, OnlyWeak, OnlyAdv, ReadOnly
  <2>7. UpdateDec(t) => handle' = handle
    BY DEF UpdateDec, client, heap, OnlyNext, OnlyPrev, OnlyStrong, OnlyWeak, OnlyAdv, ReadOnly
  <2>8. UpdateDecWeak(t) => handle' = handle
    BY DEF UpdateDecWeak, client, heap, OnlyNext, OnlyPrev, OnlyStrong, OnlyWeak, OnlyAdv, ReadOnly
  <2>9. UpdateDone(t) => handle' = handle
    BY DEF UpdateDone, client, heap, OnlyNext, OnlyPrev, OnlyStrong, OnlyWeak, OnlyAdv, ReadOnly
  <2> QED BY <1>4, <2>0, <2>1, <2>2, <2>3, <2>4, <2>5, <2>6, <2>7, <2>8, <2>9 DEF UpdateStep
<1>5. CASE UpgradeStep(t)
  <2>0. handle' = handle => BaseKept
    BY DEF BaseKept
  <2>1. UpgradeLoadStrong(t) => handle' = handle
    BY DEF UpgradeLoadStrong, client, heap, OnlyNext, OnlyPrev, OnlyStrong, OnlyWeak, OnlyAdv, ReadOnly
  <2>2. UpgradeLoadNext(t) => handle' = handle
    BY DEF UpgradeLoadNext, client, heap, OnlyNext, OnlyPrev, OnlyStrong, OnlyWeak, OnlyAdv, ReadOnly
  <2>3. UpgradeIncWeak(t) => handle' = handle
    BY DEF UpgradeIncWeak, client, heap, OnlyNext, OnlyPrev, OnlyStrong, OnlyWeak, OnlyAdv, ReadOnly
  <2>4. UpgradeCas(t) => handle' = handle
    BY DEF UpgradeCas, client, heap, OnlyNext, OnlyPrev, OnlyStrong, OnlyWeak, OnlyAdv, ReadOnly
  <2>5. UpgradeRaceDecWeak(t) => handle' = handle
    BY DEF UpgradeRaceDecWeak, client, heap, OnlyNext, OnlyPrev, OnlyStrong, OnlyWeak, OnlyAdv, ReadOnly
  <2>6. UpgradeCheck(t) => handle' = handle
    BY DEF UpgradeCheck, client, heap, OnlyNext, OnlyPrev, OnlyStrong, OnlyWeak, OnlyAdv, ReadOnly
  <2>7. UpgradeUndo(t) => handle' = handle
    BY DEF UpgradeUndo, client, heap, OnlyNext, OnlyPrev, OnlyStrong, OnlyWeak, OnlyAdv, ReadOnly
  <2>8. UpgradeUndoDecWeak(t) => handle' = handle
    BY DEF UpgradeUndoDecWeak, client, heap, OnlyNext, OnlyPrev, OnlyStrong, OnlyWeak, OnlyAdv, ReadOnly
  <2>9. UpgradeDone(t) => handle' = handle
    BY DEF UpgradeDone, client, heap, OnlyNext, OnlyPrev, OnlyStrong, OnlyWeak, OnlyAdv, ReadOnly
  <2> QED BY <1>5, <2>0, <2>1, <2>2, <2>3, <2>4, <2>5, <2>6, <2>7, <2>8, <2>9 DEF UpgradeStep
<1>6. CASE ApiStep(t) /\ ~Return(t)
  <2>0. handle' = handle => BaseKept
    BY DEF BaseKept
  <2>1. GetLoad(t) => handle' = handle
    BY DEF GetLoad, client, heap, OnlyNext, OnlyPrev, OnlyStrong, OnlyWeak, OnlyAdv, ReadOnly
  <2>2. GetDone(t) => handle' = handle
    BY DEF GetDone, client, heap, OnlyNext, OnlyPrev, OnlyStrong, OnlyWeak, OnlyAdv, ReadOnly
  <2>3. TryGetMutWeak(t) => handle' = handle
    BY DEF TryGetMutWeak, client, heap, OnlyNext, OnlyPrev, OnlyStrong, OnlyWeak, OnlyAdv, ReadOnly
  <2>4. TryGetMutStrong(t) => handle' = handle
    BY DEF TryGetMutStrong, client, heap, OnlyNext, OnlyPrev, OnlyStrong, OnlyWeak, OnlyAdv, ReadOnly
  <2>5. TryGetMutAgain(t) => handle' = handle
    BY DEF TryGetMutAgain, client, heap, OnlyNext, OnlyPrev, OnlyStrong, OnlyWeak, OnlyAdv, ReadOnly
  <2>6. SharedGetLoad(t) => handle' = handle
    BY DEF SharedGetLoad, client, heap, OnlyNext, OnlyPrev, OnlyStrong, OnlyWeak, OnlyAdv, ReadOnly
  <2>7. SharedGetInc(t) => handle' = handle
    BY DEF SharedGetInc, client, heap, OnlyNext, OnlyPrev, OnlyStrong, OnlyWeak, OnlyAdv, ReadOnly
  <2>8. SharedGetNext(t) => handle' = handle
    BY DEF SharedGetNext, client, heap, OnlyNext, OnlyPrev, OnlyStrong, OnlyWeak, OnlyAdv, ReadOnly
  <2>9. SharedGetStrong(t) => handle' = handle
    BY DEF SharedGetStrong, client, heap, OnlyNext, OnlyPrev, OnlyStrong, OnlyWeak, OnlyAdv, ReadOnly
  <2>10. SharedGetCas(t) => handle' = handle
    BY DEF SharedGetCas, client, heap, OnlyNext, OnlyPrev, OnlyStrong, OnlyWeak, OnlyAdv, ReadOnly
  <2>11. SharedGetRecheck(t) => handle' = handle
    BY DEF SharedGetRecheck, client, heap, OnlyNext, OnlyPrev, OnlyStrong, OnlyWeak, OnlyAdv, ReadOnly
  <2>12. SharedGetLight(t) => handle' = handle
    BY DEF SharedGetLight, client, heap, OnlyNext, OnlyPrev, OnlyStrong, OnlyWeak, OnlyAdv, ReadOnly
  <2>13. SharedGetDec(t) => handle' = handle
    BY DEF SharedGetDec, client, heap, OnlyNext, OnlyPrev, OnlyStrong, OnlyWeak, OnlyAdv, ReadOnly
  <2>14. SharedGetClone(t) => handle' = handle
    BY DEF SharedGetClone, client, heap, OnlyNext, OnlyPrev, OnlyStrong, OnlyWeak, OnlyAdv, ReadOnly
  <2>15. FinishReading(t) => handle' = handle
    BY DEF FinishReading, client, heap, OnlyNext, OnlyPrev, OnlyStrong, OnlyWeak, OnlyAdv, ReadOnly
  <2> QED BY <1>6, <2>0, <2>1, <2>2, <2>3, <2>4, <2>5, <2>6, <2>7, <2>8, <2>9, <2>10, <2>11,
       <2>12, <2>13, <2>14, <2>15 DEF ApiStep
<1>k. TypeOK /\ handle \in [Handles -> HandleStates] /\ op \in [Threads -> CallFrames]
  BY DEF OrderInv, TypeOK
<1>7. CASE Return(t)
  <2>1. ASSUME NEW u \in Threads, pc[u] # "idle", op[u].f = "sharedGet"
        PROVE  handle[op[u].hnd].kind = "strong" /\ op[u].hnd \in Handles
    BY <1>k, <2>1, RegistersTyped DEF Knows, HandleKept, CallFrames
  <2>2. pc[t] = "ret" /\ handle' = Result(t) /\ op[t].hnd \in Handles /\ op[t].out \in Handles /\ op[t].f \in Functions \cup {"none"}
    BY <1>k, <1>7 DEF Return, CallFrames
  <2>3. op[t].f \in Storing => handle[ResultHandle(op[t])].kind = "busy"
    BY <2>2, RegistersTyped DEF Knows, HandleKept
  <2>4. ASSUME NEW g \in Handles, handle[g].kind = "strong"
        PROVE  handle'[g] = handle[g]
    <3>1. CASE op[t].f \in {"clone", "upgrade"}
      BY <1>k, <2>2, <2>3, <2>4, <3>1 DEF Storing, Functions, ResultHandle, Result
    <3>2. CASE op[t].f \in {"get", "reload", "tryGetMut", "update", "rcu"}
      BY <1>k, <2>2, <2>3, <2>4, <3>2 DEF Storing, Functions, ResultHandle, Result
    <3>3. CASE op[t].f \in {"drop", "dropWeak", "intoInner"}
      BY <1>k, <2>2, <2>3, <2>4, <3>3 DEF Storing, Functions, ResultHandle, Result
    <3>4. CASE op[t].f \in {"none", "downgrade", "cloneWeak", "sharedGet"}
      BY <2>2, <3>4 DEF Result
    <3> QED BY <2>2, <3>1, <3>2, <3>3, <3>4 DEF Functions
  <2> QED BY <2>1, <2>4 DEF BaseKept
<1>8. CASE Call(t)
  <2>1. ASSUME NEW u \in Threads, pc[u] # "idle", op[u].f = "sharedGet"
        PROVE  handle[op[u].hnd].kind = "strong" /\ op[u].hnd \in Handles
    BY <1>k, <2>1, RegistersTyped DEF Knows, HandleKept, CallFrames
  <2>2. \/ UNCHANGED handle
        \/ \E o \in Handles : handle[o].kind = "none" /\ \A g \in Handles \ {o} : handle'[g] = handle[g]
        \/ \E h \in Handles : (\A u \in Threads : pc[u] # "idle" => op[u].hnd # h) /\ \A g \in Handles \ {h} : handle'[g] = handle[g]
    <3>k. \A g \in Handles : \A x : handle' = [handle EXCEPT ![g] = x] => \A f \in Handles \ {g} : handle'[f] = handle[f]
      BY <1>k
    <3>1. ASSUME NEW h \in Handles, NEW o \in Handles, Clone(t, h, o)
          PROVE  handle[o].kind = "none" /\ \A g \in Handles \ {o} : handle'[g] = handle[g]
      BY <1>k, <3>k, <3>1, CloneEffect
    <3>2. ASSUME NEW f, NEW h \in Handles, NEW o \in Handles, CloneWeak(t, f, h, o)
          PROVE  handle[o].kind = "none" /\ \A g \in Handles \ {o} : handle'[g] = handle[g]
      BY <1>k, <3>k, <3>2, CloneWeakEffect
    <3>3. ASSUME NEW h \in Handles, NEW o \in Handles, Upgrade(t, h, o)
          PROVE  handle[o].kind = "none" /\ \A g \in Handles \ {o} : handle'[g] = handle[g]
      BY <1>k, <3>k, <3>3, UpgradeEffect
    <3>4. ASSUME NEW h \in Handles, Update(t, h)
          PROVE  (\A u \in Threads : pc[u] # "idle" => op[u].hnd # h) /\ \A g \in Handles \ {h} : handle'[g] = handle[g]
      BY <1>k, <3>k, <3>4, UpdateEffect
    <3>5. ASSUME NEW h \in Handles, Rcu(t, h)
          PROVE  (\A u \in Threads : pc[u] # "idle" => op[u].hnd # h) /\ \A g \in Handles \ {h} : handle'[g] = handle[g]
      BY <1>k, <3>k, <3>5, RcuEffect
    <3>6. ASSUME NEW f, NEW h \in Handles, DropShift(t, f, h)
          PROVE  (\A u \in Threads : pc[u] # "idle" => op[u].hnd # h) /\ \A g \in Handles \ {h} : handle'[g] = handle[g]
      BY <1>k, <3>k, <3>6, DropShiftEffect
    <3>7. ASSUME NEW h \in Handles, DropShiftWeak(t, h)
          PROVE  (\A u \in Threads : pc[u] # "idle" => op[u].hnd # h) /\ \A g \in Handles \ {h} : handle'[g] = handle[g]
      BY <1>k, <3>k, <3>7, DropShiftWeakEffect
    <3>8. ASSUME NEW f, NEW h \in Handles, Reload(t, f, h)
          PROVE  (\A u \in Threads : pc[u] # "idle" => op[u].hnd # h) /\ \A g \in Handles \ {h} : handle'[g] = handle[g]
      BY <1>k, <3>k, <3>8, ReloadEffect
    <3>9. ASSUME NEW h \in Handles, SharedGet(t, h)
          PROVE  UNCHANGED handle
      BY <1>k, <3>k, <3>9, SharedGetEffect
    <3> QED BY <1>8, <3>1, <3>2, <3>3, <3>4, <3>5, <3>6, <3>7, <3>8, <3>9 DEF Call
  <2> QED BY <2>1, <2>2 DEF BaseKept
<1> QED BY <1>1, <1>2, <1>3, <1>4, <1>5, <1>6, <1>7, <1>8 DEF AnyStep, Step

(* What a call knows about its places outlives the steps of the others.     *)
LEMMA PlacesStay ==
  ASSUME OrderInv, NEW u \in Threads, Shape(u), Places(u), Grows, BaseKept, Still(u)
  PROVE  Places(u)'
<1>k. /\ Knows(pc[u], item[u], av[u], pd[u], jn[u], op[u]) /\ item[u] \in Nodes /\ av[u] \in AdvanceFrames
      /\ pd[u] \in PayloadFrames /\ op[u] \in CallFrames /\ handle \in [Handles -> HandleStates]
      /\ \A h \in Handles : Published(handle[h].node)
  BY RegistersTyped DEF OrderInv, TypeOK
<1>1. ASSUME NEW m \in Nodes, NEW n \in Nodes, Published(m), Published(n), Before(m, n)
      PROVE  Before(m, n)'
  BY <1>1 DEF Grows, Before
<1>2. /\ av[u].start \in Nodes /\ av[u].nxt \in Nodes /\ op[u].nxt \in Nodes /\ pd[u].tgt \in Nodes /\ Base(u) \in Nodes
      /\ Published(item[u]) /\ Published(av[u].start) /\ Published(av[u].nxt) /\ Published(op[u].nxt) /\ Published(Base(u))
  BY <1>k DEF Knows, OnChain, AdvanceFrames, CallFrames, PayloadFrames, Base, HandleStates
<1>3. pc[u] # "idle" /\ op[u].f = "sharedGet" => Base(u)' = Base(u)
  BY DEF BaseKept, Base, Still
<1>4. /\ pc[u] \in {"sg_strong", "sg_cas", "sg_recheck", "sg_light"} \/ (dr[u].ret = "sg_dec" /\ pc[u] # "idle")
         \/ (pc[u] = "reading" /\ op[u].guard = "raw") => op[u].f = "sharedGet"
  BY DEF Shape, DropShape
<1>5. dr[u].ret = "sg_dec" /\ StrongOnStart(u) => pc[u] # "idle"
  BY DEF StrongOnStart
<1>6. StrongOnStart(u)' <=> StrongOnStart(u)
  BY DEF StrongOnStart, Still
<1>7. HasNext(pd[u].tgt) => HasNext(pd[u].tgt)'
  BY <1>2 DEF Grows, Still, HasNext
<1>8. pc[u] \in {"upd_mark", "upd_dec"} => HasNext(item[u])'
  BY <1>k DEF Grows, Still, HasNext, Places
<1>9. pd[u].ret \in {"advs_a_decw", "upd_decw"} => HasNext(pd[u].tgt)'
  BY <1>7 DEF Places
<1>10. /\ pc'[u] = pc[u] /\ item'[u] = item[u] /\ av'[u] = av[u] /\ pd'[u] = pd[u] /\ dr'[u] = dr[u] /\ op'[u] = op[u]
  BY DEF Still, HasNext
<1>11. /\ pc[u] \in Walking => item[u] = av[u].start \/ Before(av[u].start, item[u])'
       /\ pc[u] \in {"adv_weak", "adv_dec", "adv_unweak"} => Before(item[u], av[u].nxt)'
       /\ pc[u] \in Swapping \cup SwappedIn \cup {"adv_unweak", "advw_dec", "advs_a_decw"}
          \/ pd[u].ret = "advs_a_decw" => Before(av[u].start, item[u])'
  <2>1. /\ Before(av[u].start, item[u]) => (av[u].start)' = av[u].start /\ item'[u] = item[u] /\ Before(av[u].start, item[u])'
        /\ Before(item[u], av[u].nxt) => (av[u].nxt)' = av[u].nxt /\ item'[u] = item[u] /\ Before(item[u], av[u].nxt)'
    BY <1>k, <1>2, <1>10 DEF Grows, Before
  <2> QED BY <2>1 DEF Places
<1>12. /\ pc[u] \in {"sg_strong", "sg_cas", "sg_recheck", "sg_light"} => Before(Base(u), op[u].nxt)'
       /\ dr[u].ret = "sg_dec" /\ StrongOnStart(u) => Before(Base(u), av[u].start)'
       /\ pc[u] = "reading" /\ op[u].guard = "raw" => item[u] = Base(u)'
  <2>1. /\ Base(u)' = Base(u) /\ Before(Base(u), op[u].nxt) => Before(Base(u), op[u].nxt)'
        /\ Base(u)' = Base(u) /\ Before(Base(u), av[u].start) => Before(Base(u), av[u].start)'
    BY <1>k, <1>2, <1>10 DEF Grows, Before
  <2> QED BY <1>3, <1>4, <1>5, <2>1 DEF Places
<1> QED BY <1>6, <1>8, <1>9, <1>10, <1>11, <1>12 DEF Places, HasNext, Before

(* A step of an advance moves to the right.*)
LEMMA AdvancePlaces ==
  ASSUME OrderInv, NEW t \in Threads, Shape(t), Places(t), Grows, AdvanceStep(t)
  PROVE  Places(t)'
<1>k. TypeOK /\ Knows(pc[t], item[t], av[t], pd[t], jn[t], op[t])
  BY RegistersTyped DEF OrderInv
<1>r. /\ pc \in [Threads -> Labels] /\ item \in [Threads -> Nodes] /\ av \in [Threads -> AdvanceFrames]
      /\ pd \in [Threads -> PayloadFrames] /\ jn \in [Threads -> JanitorFrames]
      /\ dr \in [Threads -> DropFrames] /\ op \in [Threads -> CallFrames]
      /\ strong \in [Nodes -> 0..UsizeMax] /\ UsizeMax \in Nat /\ weak \in [Nodes -> WeakWords]
      /\ mem \in [Nodes -> {"unused", "private", "live", "freed"}] /\ prev \in [Nodes -> Ptrs]
      /\ stamp \in [Nodes -> Nat] /\ next \in [Nodes -> NextWords] /\ adv \in [Nodes -> Int]
      /\ handle \in [Handles -> HandleStates]
  BY HeapAssumption DEF OrderInv, TypeOK
<1>o. ChainOrdered /\ \A h \in Handles : Published(handle[h].node)
  BY DEF OrderInv
<1>s. Shape(t) /\ Places(t) /\ Grows
  OBVIOUS
<1>1. CASE AdvanceLoad(t)
  BY <1>k, <1>o, <1>r, <1>s, <1>1, SMTT(30) DEF AdvanceLoad, Goto, ReturnAdvance, ReadOnly,
     IdleAdvance, AdvanceFrames, Places, Before, HasNext, Grows, StrongOnStart, Knows, Frames,
     OnChain, Shape, Continues, DropShape, Janitoring, Updating, Upgrading, Dying, Base,
     HandleKept, Published, locals, client, heap, CallFrames, HandleStates, AdvanceFrames
<1>2. CASE AdvanceInc(t)
  BY <1>k, <1>o, <1>r, <1>s, <1>2, SMTT(30) DEF AdvanceInc, Goto, OnlyAdv, Places, Before,
     HasNext, Grows, StrongOnStart, Knows, Frames, OnChain, Shape, Continues, DropShape,
     Janitoring, Updating, Upgrading, Dying, Base, HandleKept, Published, locals, client, heap,
     CallFrames, HandleStates, AdvanceFrames
<1>3. CASE AdvanceReload(t)
  BY <1>k, <1>o, <1>r, <1>s, <1>3, SMTT(30) DEF AdvanceReload, Goto, ReadOnly, Places, Before,
     HasNext, Grows, StrongOnStart, Knows, Frames, OnChain, Shape, Continues, DropShape,
     Janitoring, Updating, Upgrading, Dying, Base, HandleKept, Published, locals, client, heap,
     CallFrames, HandleStates, AdvanceFrames, ChainOrdered
<1>4. CASE AdvanceWeakInc(t)
  BY <1>k, <1>o, <1>r, <1>s, <1>4, SMTT(30) DEF AdvanceWeakInc, AddWeak, Goto, OnlyWeak, Places,
     Before, HasNext, Grows, StrongOnStart, Knows, Frames, OnChain, Shape, Continues, DropShape,
     Janitoring, Updating, Upgrading, Dying, Base, HandleKept, Published, locals, client, heap,
     CallFrames, HandleStates, AdvanceFrames
<1>5. CASE AdvanceDec(t)
  BY <1>k, <1>o, <1>r, <1>s, <1>5, SMTT(30) DEF AdvanceDec, Goto, OnlyAdv, Places, Before,
     HasNext, Grows, StrongOnStart, Knows, Frames, OnChain, Shape, Continues, DropShape,
     Janitoring, Updating, Upgrading, Dying, Base, HandleKept, Published, locals, client, heap,
     CallFrames, HandleStates, AdvanceFrames
<1>6. CASE AdvanceWeakDec(t)
  BY <1>k, <1>o, <1>r, <1>s, <1>6, SMTT(30) DEF AdvanceWeakDec, SubWeak, Goto, OnlyWeak, Places,
     Before, HasNext, Grows, StrongOnStart, Knows, Frames, OnChain, Shape, Continues, DropShape,
     Janitoring, Updating, Upgrading, Dying, Base, HandleKept, Published, locals, client, heap,
     CallFrames, HandleStates, AdvanceFrames
<1>7. CASE WeakLeaveStart(t)
  BY <1>k, <1>o, <1>r, <1>s, <1>7, SMTT(30) DEF WeakLeaveStart, SubWeak, ReturnAdvance,
     OnlyWeak, Goto, IdleAdvance, AdvanceFrames, Places, Before, HasNext, Grows, StrongOnStart,
     Knows, Frames, OnChain, Shape, Continues, DropShape, Janitoring, Updating, Upgrading,
     Dying, Base, HandleKept, Published, locals, client, heap, CallFrames, HandleStates,
     AdvanceFrames
<1>8. CASE PayloadMark(t)
  <2>1. CASE pd[t].ret = "advs_a_decw"
    BY <1>k, <1>o, <1>r, <1>s, <1>8, <2>1, SMTT(30) DEF PayloadMark, Goto, OnlyNext,
     IdlePayload, Places, Before, HasNext, Grows, StrongOnStart, Knows, Frames, OnChain, Shape,
     Continues, DropShape, Janitoring, Updating, Upgrading, Dying, Base, HandleKept, Published,
     locals, client, heap, CallFrames, HandleStates, AdvanceFrames, NextWords
  <2>2. CASE pd[t].ret = "dw_cas"
    BY <1>k, <1>o, <1>r, <1>s, <1>8, <2>2, SMTT(30) DEF PayloadMark, Goto, OnlyNext,
     IdlePayload, Places, Before, HasNext, Grows, StrongOnStart, Knows, Frames, OnChain, Shape,
     Continues, DropShape, Janitoring, Updating, Upgrading, Dying, Base, HandleKept, Published,
     locals, client, heap, CallFrames, HandleStates, AdvanceFrames, NextWords
  <2>3. CASE pd[t].ret = "upd_decw"
    BY <1>k, <1>o, <1>r, <1>s, <1>8, <2>3, SMTT(30) DEF PayloadMark, Goto, OnlyNext,
     IdlePayload, Places, Before, HasNext, Grows, StrongOnStart, Knows, Frames, OnChain, Shape,
     Continues, DropShape, Janitoring, Updating, Upgrading, Dying, Base, HandleKept, Published,
     locals, client, heap, CallFrames, HandleStates, AdvanceFrames, NextWords
  <2>r. pd[t].ret \in {"advs_a_decw", "dw_cas", "upd_decw"}
    BY <1>r, <1>s, <1>8 DEF
     PayloadFrames, Shape, PayloadMark
  <2> QED BY <2>1, <2>2, <2>3, <2>r
<1>9. CASE PayloadDrop(t)
  <2>1. CASE pd[t].ret = "advs_a_decw"
    BY <1>k, <1>o, <1>r, <1>s, <1>9, <2>1, SMTT(30) DEF PayloadDrop, DropPayload, Goto,
     IdlePayload, Places, Before, HasNext, Grows, StrongOnStart, Knows, Frames, OnChain, Shape,
     Continues, DropShape, Janitoring, Updating, Upgrading, Dying, Base, HandleKept, Published,
     locals, client, heap, CallFrames, HandleStates, AdvanceFrames
  <2>2. CASE pd[t].ret = "dw_cas"
    BY <1>k, <1>o, <1>r, <1>s, <1>9, <2>2, SMTT(30) DEF PayloadDrop, DropPayload, Goto,
     IdlePayload, Places, Before, HasNext, Grows, StrongOnStart, Knows, Frames, OnChain, Shape,
     Continues, DropShape, Janitoring, Updating, Upgrading, Dying, Base, HandleKept, Published,
     locals, client, heap, CallFrames, HandleStates, AdvanceFrames
  <2>3. CASE pd[t].ret = "upd_decw"
    BY <1>k, <1>o, <1>r, <1>s, <1>9, <2>3, SMTT(30) DEF PayloadDrop, DropPayload, Goto,
     IdlePayload, Places, Before, HasNext, Grows, StrongOnStart, Knows, Frames, OnChain, Shape,
     Continues, DropShape, Janitoring, Updating, Upgrading, Dying, Base, HandleKept, Published,
     locals, client, heap, CallFrames, HandleStates, AdvanceFrames
  <2>r. pd[t].ret \in {"advs_a_decw", "dw_cas", "upd_decw"}
    BY <1>r, <1>s, <1>9 DEF
     PayloadFrames, Shape, PayloadDrop
  <2> QED BY <2>1, <2>2, <2>3, <2>r
<1>10. CASE StrongLoad(t)
  BY <1>k, <1>o, <1>r, <1>s, <1>10, SMTT(30) DEF StrongLoad, TryStrong, ReadOnly, Goto,
     IdleAdvance, AdvanceFrames, Places, Before, HasNext, Grows, StrongOnStart, Knows, Frames,
     OnChain, Shape, Continues, DropShape, Janitoring, Updating, Upgrading, Dying, Base,
     HandleKept, Published, locals, client, heap, CallFrames, HandleStates, AdvanceFrames
<1>11. CASE StrongIncWeak(t)
  BY <1>k, <1>o, <1>r, <1>s, <1>11, SMTT(30) DEF StrongIncWeak, AddWeak, Goto, OnlyWeak, Places,
     Before, HasNext, Grows, StrongOnStart, Knows, Frames, OnChain, Shape, Continues, DropShape,
     Janitoring, Updating, Upgrading, Dying, Base, HandleKept, Published, locals, client, heap,
     CallFrames, HandleStates, AdvanceFrames
<1>13. CASE StrongRaceDecWeak(t)
  BY <1>k, <1>o, <1>r, <1>s, <1>13, SMTT(30) DEF StrongRaceDecWeak, SubWeak, TryStrong,
     OnlyWeak, Goto, IdleAdvance, AdvanceFrames, Places, Before, HasNext, Grows, StrongOnStart,
     Knows, Frames, OnChain, Shape, Continues, DropShape, Janitoring, Updating, Upgrading,
     Dying, Base, HandleKept, Published, locals, client, heap, CallFrames, HandleStates,
     AdvanceFrames
<1>14. CASE StrongRecheck(t)
  BY <1>k, <1>o, <1>r, <1>s, <1>14, SMTT(30) DEF StrongRecheck, Goto, ReadOnly, Places, Before,
     HasNext, Grows, StrongOnStart, Knows, Frames, OnChain, Shape, Continues, DropShape,
     Janitoring, Updating, Upgrading, Dying, Base, HandleKept, Published, locals, client, heap,
     CallFrames, HandleStates, AdvanceFrames
<1>16. CASE StrongUndoDecWeak(t)
  BY <1>k, <1>o, <1>r, <1>s, <1>16, SMTT(30) DEF StrongUndoDecWeak, SubWeak, RetryAdvance,
     OnlyWeak, Goto, IdleAdvance, AdvanceFrames, Places, Before, HasNext, Grows, StrongOnStart,
     Knows, Frames, OnChain, Shape, Continues, DropShape, Janitoring, Updating, Upgrading,
     Dying, Base, HandleKept, Published, locals, client, heap, CallFrames, HandleStates,
     AdvanceFrames
<1>17. CASE StrongDecWeakB(t)
  BY <1>k, <1>o, <1>r, <1>s, <1>17, SMTT(30) DEF StrongDecWeakB, SubWeak, Goto, OnlyWeak,
     Places, Before, HasNext, Grows, StrongOnStart, Knows, Frames, OnChain, Shape, Continues,
     DropShape, Janitoring, Updating, Upgrading, Dying, Base, HandleKept, Published, locals,
     client, heap, CallFrames, HandleStates, AdvanceFrames
<1>19. CASE StrongDecWeakA(t)
  BY <1>k, <1>o, <1>r, <1>s, <1>19, SMTT(30) DEF StrongDecWeakA, SubWeak, ReturnAdvance,
     OnlyWeak, Goto, IdleAdvance, AdvanceFrames, Places, Before, HasNext, Grows, StrongOnStart,
     Knows, Frames, OnChain, Shape, Continues, DropShape, Janitoring, Updating, Upgrading,
     Dying, Base, HandleKept, Published, locals, client, heap, CallFrames, HandleStates,
     AdvanceFrames
<1>12. CASE StrongCas(t)
  <2>1. /\ pc[t] = "advs_cas" /\ pc'[t] \in {"advs_recheck", "advs_race", "advs_cas", "advs_incw"} /\ UNCHANGED <<stamp, next, handle, item, pd, dr, op>>
        /\ av'[t].start = av[t].start
    BY <1>r, <1>12 DEF StrongCas, Goto, TryStrong, OnlyStrong, client, AdvanceFrames
  <2> QED BY <1>r, <1>s, <2>1 DEF Places, Before, HasNext, StrongOnStart, Base, Shape
<1>15. CASE StrongUndo(t)
  <2>1. /\ pc[t] = "advs_undo" /\ pc'[t] \in {"advs_undo_decw", "adv_load"} /\ UNCHANGED <<stamp, next, handle, item, pd, dr, op>>
        /\ av'[t].start = av[t].start
    BY <1>r, <1>15 DEF StrongUndo, Goto, RetryAdvance, OnlyStrong, client, AdvanceFrames
  <2> QED BY <1>r, <1>s, <2>1 DEF Places, Before, HasNext, StrongOnStart, Base, Shape
<1>18. CASE StrongLeaveStart(t)
  <2>0. pc[t] = "advs_a_dec" /\ UNCHANGED <<stamp, next, handle, item, dr, op>>
    BY <1>r, <1>18 DEF StrongLeaveStart, OnlyStrong, client
  <2>s. Before(av[t].start, item[t]) /\ av[t].start \in Nodes /\ pd[t].ret = "idle"
    BY <1>k, <1>r, <1>s, <2>0 DEF Places, AdvanceFrames, Knows, Frames, PayloadFrames
  <2>n. HasNext(av[t].start)
    BY <1>k, <1>o, <1>r, <2>s DEF ChainOrdered, Before, Knows, OnChain, Published
  <2>1. CASE LastStrong(av[t].start)
    <3>1. /\ pc'[t] = "pay_mark" /\ pd'[t].tgt = av[t].start /\ pd'[t].ret = "advs_a_decw" /\ av' = av
      BY <1>r, <1>18, <2>1 DEF StrongLeaveStart, Goto, StartPayloadDrop
    <3> QED BY <1>r, <1>s, <2>0, <2>s, <2>n, <3>1 DEF Places, Before, HasNext, StrongOnStart, Base, Shape
  <2>2. CASE ~LastStrong(av[t].start)
    <3>1. /\ pc'[t] = av[t].ret /\ pd' = pd
      BY <1>r, <1>18, <2>2 DEF StrongLeaveStart, Goto, ReturnAdvance
    <3>2. av[t].ret \in {"jan_lock", "ds_dec", "upd_next", "reading", "ret"} /\ (av[t].ret = "reading" => op[t].guard = "full")
      BY <1>r, <1>s, <2>0 DEF Shape, Continues, AdvanceFrames
    <3> QED BY <1>r, <1>s, <2>0, <2>s, <3>1, <3>2 DEF Places, Before, HasNext, StrongOnStart, Base, Shape
  <2> QED BY <2>1, <2>2
<1> QED BY <1>1, <1>2, <1>3, <1>4, <1>5, <1>6, <1>7, <1>8, <1>9, <1>10, <1>11, <1>13, <1>14,
  <1>16, <1>17, <1>19, <1>12, <1>15, <1>18 DEF AdvanceStep

(* A step of a drop moves to the right.*)
LEMMA DropPlaces ==
  ASSUME OrderInv, NEW t \in Threads, Shape(t), Places(t), Grows, DropStep(t)
  PROVE  Places(t)'
<1>k. TypeOK /\ Knows(pc[t], item[t], av[t], pd[t], jn[t], op[t])
  BY RegistersTyped DEF OrderInv
<1>r. /\ pc \in [Threads -> Labels] /\ item \in [Threads -> Nodes] /\ av \in [Threads -> AdvanceFrames]
      /\ pd \in [Threads -> PayloadFrames] /\ jn \in [Threads -> JanitorFrames]
      /\ dr \in [Threads -> DropFrames] /\ op \in [Threads -> CallFrames]
      /\ strong \in [Nodes -> 0..UsizeMax] /\ UsizeMax \in Nat /\ weak \in [Nodes -> WeakWords]
      /\ mem \in [Nodes -> {"unused", "private", "live", "freed"}] /\ prev \in [Nodes -> Ptrs]
      /\ stamp \in [Nodes -> Nat] /\ next \in [Nodes -> NextWords] /\ adv \in [Nodes -> Int]
      /\ handle \in [Handles -> HandleStates]
  BY HeapAssumption DEF OrderInv, TypeOK
<1>o. ChainOrdered /\ \A h \in Handles : Published(handle[h].node)
  BY DEF OrderInv
<1>s. Shape(t) /\ Places(t) /\ Grows
  OBVIOUS
<1>1. CASE DropStrongDec(t)
  <2>1. CASE LastStrong(item[t])
    <3>1. /\ pc[t] = "ds_dec"
          /\ SubStrong(item[t])
          /\ OnlyStrong
          /\ UNCHANGED <<pd, op>>
          /\ Starts(t, item[t], "weak", "jan_lock")
          /\ jn'[t] = [IdleJanitor EXCEPT !.ret = "dw_weak"]
          /\ dr'[t] = [IdleDrop EXCEPT !.ret = dr[t].ret]
      BY <1>k, <1>1, <2>1, DropStrongDecEffect
    <3> QED BY <1>k, <1>o, <1>r, <1>s, <2>1, <3>1, SMTT(30) DEF Starts, SubStrong, OnlyStrong,
     IdleJanitor, IdleDrop, Places, Before, HasNext, Grows, StrongOnStart, Knows, Frames,
     OnChain, Shape, Continues, DropShape, Janitoring, Updating, Upgrading, Dying, Base,
     HandleKept, Published, locals, client, heap, CallFrames, HandleStates, AdvanceFrames
  <2>2. CASE ~LastStrong(item[t])
    <3>1. /\ pc[t] = "ds_dec"
          /\ SubStrong(item[t])
          /\ OnlyStrong
          /\ UNCHANGED <<pd, op>>
          /\ pc'[t] = dr[t].ret
          /\ dr'[t] = IdleDrop
          /\ jn'[t] = IdleJanitor
          /\ UNCHANGED <<item, av>>
      BY <1>k, <1>1, <2>2, DropStrongDecEffect
    <3>3. CASE dr[t].ret = "ret"
      BY <1>k, <1>o, <1>r, <1>s, <2>2, <3>1, <3>3, SMTT(30) DEF Starts, SubStrong, OnlyStrong,
     IdleDrop, IdleJanitor, Places, Before, HasNext, Grows, StrongOnStart, Knows, Frames,
     OnChain, Shape, Continues, DropShape, Janitoring, Updating, Upgrading, Dying, Base,
     HandleKept, Published, locals, client, heap, CallFrames, HandleStates, AdvanceFrames
    <3>4. CASE dr[t].ret = "sg_dec"
      BY <1>k, <1>o, <1>r, <1>s, <2>2, <3>1, <3>4, SMTT(30) DEF Starts, SubStrong, OnlyStrong,
     IdleDrop, IdleJanitor, Places, Before, HasNext, Grows, StrongOnStart, Knows, Frames,
     OnChain, Shape, Continues, DropShape, Janitoring, Updating, Upgrading, Dying, Base,
     HandleKept, Published, locals, client, heap, CallFrames, HandleStates, AdvanceFrames
    <3>9. dr[t].ret = "ret" \/ dr[t].ret = "sg_dec"
      BY <1>k, <1>r, <1>s, <3>1, <2>2 DEF DropFrames, Shape, Dying, CallFrames, Continues,
     Janitoring
    <3> QED BY <3>3, <3>4, <3>9
  <2> QED BY <2>1, <2>2
<1>2. CASE DropWeakLoad(t)
  <2>1. CASE jn[t].rerun
    <3>1. /\ pc[t] = "dw_weak"
          /\ ReadOnly
          /\ UNCHANGED <<pd, op>>
          /\ Starts(t, item[t], "weak", "jan_lock")
          /\ jn'[t] = [IdleJanitor EXCEPT !.ret = "dw_weak"]
          /\ UNCHANGED dr
      BY <1>k, <1>2, <2>1, DropWeakLoadEffect
    <3> QED BY <1>k, <1>o, <1>r, <1>s, <2>1, <3>1, SMTT(30) DEF Starts, ReadOnly, IdleJanitor,
     Places, Before, HasNext, Grows, StrongOnStart, Knows, Frames, OnChain, Shape, Continues,
     DropShape, Janitoring, Updating, Upgrading, Dying, Base, HandleKept, Published, locals,
     client, heap, CallFrames, HandleStates, AdvanceFrames
  <2>2. CASE ~jn[t].rerun
    <3>1. /\ pc[t] = "dw_weak"
          /\ ReadOnly
          /\ UNCHANGED <<pd, op>>
          /\ pc'[t] = "dw_next"
          /\ dr'[t] = [dr[t] EXCEPT !.ww = weak[item[t]]]
          /\ UNCHANGED <<item, av, jn>>
      BY <1>k, <1>2, <2>2, DropWeakLoadEffect
    <3> QED BY <1>k, <1>o, <1>r, <1>s, <2>2, <3>1, SMTT(30) DEF Starts, ReadOnly, Places,
     Before, HasNext, Grows, StrongOnStart, Knows, Frames, OnChain, Shape, Continues, DropShape,
     Janitoring, Updating, Upgrading, Dying, Base, HandleKept, Published, locals, client, heap,
     CallFrames, HandleStates, AdvanceFrames
  <2> QED BY <2>1, <2>2
<1>3. CASE DropWeakNext(t)
  <2>1. CASE HasNext(item[t])
    <3>1. /\ pc[t] = "dw_next"
          /\ ReadOnly
          /\ UNCHANGED <<pd, op>>
          /\ Starts(t, item[t], "weak", "jan_lock")
          /\ jn'[t] = [IdleJanitor EXCEPT !.ret = "dw_weak"]
          /\ dr'[t] = [IdleDrop EXCEPT !.ret = dr[t].ret]
      BY <1>k, <1>3, <2>1, DropWeakNextEffect
    <3> QED BY <1>k, <1>o, <1>r, <1>s, <2>1, <3>1, SMTT(30) DEF Starts, ReadOnly, IdleJanitor,
     IdleDrop, Places, Before, HasNext, Grows, StrongOnStart, Knows, Frames, OnChain, Shape,
     Continues, DropShape, Janitoring, Updating, Upgrading, Dying, Base, HandleKept, Published,
     locals, client, heap, CallFrames, HandleStates, AdvanceFrames
  <2>2. CASE ~HasNext(item[t])
    <3>1. /\ pc[t] = "dw_next"
          /\ ReadOnly
          /\ UNCHANGED <<pd, op>>
          /\ pc'[t] = IF jn[t].status = "NoStrongRefsExist" THEN "dw_claim" ELSE "dw_cas"
          /\ UNCHANGED <<item, av, jn, dr>>
      BY <1>k, <1>3, <2>2, DropWeakNextEffect
    <3> QED BY <1>k, <1>o, <1>r, <1>s, <2>2, <3>1, SMTT(30) DEF Starts, ReadOnly, Places,
     Before, HasNext, Grows, StrongOnStart, Knows, Frames, OnChain, Shape, Continues, DropShape,
     Janitoring, Updating, Upgrading, Dying, Base, HandleKept, Published, locals, client, heap,
     CallFrames, HandleStates, AdvanceFrames
  <2> QED BY <2>1, <2>2
<1>4. CASE ClaimTeardown(t)
  BY <1>k, <1>o, <1>r, <1>s, <1>4, SMTT(30) DEF ClaimTeardown, StartPayloadDrop, Goto,
     OnlyStrong, Places, Before, HasNext, Grows, StrongOnStart, Knows, Frames, OnChain, Shape,
     Continues, DropShape, Janitoring, Updating, Upgrading, Dying, Base, HandleKept, Published,
     locals, client, heap, CallFrames, HandleStates, AdvanceFrames
<1>5. CASE DropWeakCas(t)
  <2>1. CASE ~SameWeakWord(item[t], dr[t].ww)
    <3>1. /\ pc[t] = "dw_cas"
          /\ OnlyWeak
          /\ UNCHANGED <<pd, op>>
          /\ Starts(t, item[t], "weak", "jan_lock")
          /\ jn'[t] = [IdleJanitor EXCEPT !.ret = "dw_weak"]
          /\ dr'[t] = [IdleDrop EXCEPT !.ret = dr[t].ret]
          /\ UNCHANGED weak
      BY <1>k, <1>5, <2>1, DropWeakCasEffect
    <3> QED BY <1>k, <1>o, <1>r, <1>s, <2>1, <3>1, SMTT(30) DEF Starts, OnlyWeak, IdleJanitor,
     IdleDrop, Places, Before, HasNext, Grows, StrongOnStart, Knows, Frames, OnChain, Shape,
     Continues, DropShape, Janitoring, Updating, Upgrading, Dying, Base, HandleKept, Published,
     locals, client, heap, CallFrames, HandleStates, AdvanceFrames
  <2>2. CASE SameWeakWord(item[t], dr[t].ww) /\ SoleUser(dr[t].ww)
    <3>1. /\ pc[t] = "dw_cas"
          /\ OnlyWeak
          /\ UNCHANGED <<pd, op>>
          /\ SubWeak(item[t])
          /\ pc'[t] = "dw_free"
          /\ UNCHANGED <<item, av, jn, dr>>
      BY <1>k, <1>5, <2>2, DropWeakCasEffect
    <3> QED BY <1>k, <1>o, <1>r, <1>s, <2>2, <3>1, SMTT(30) DEF Starts, OnlyWeak, SubWeak,
     Places, Before, HasNext, Grows, StrongOnStart, Knows, Frames, OnChain, Shape, Continues,
     DropShape, Janitoring, Updating, Upgrading, Dying, Base, HandleKept, Published, locals,
     client, heap, CallFrames, HandleStates, AdvanceFrames
  <2>3. CASE SameWeakWord(item[t], dr[t].ww) /\ ~SoleUser(dr[t].ww)
    <3>1. /\ pc[t] = "dw_cas"
          /\ OnlyWeak
          /\ UNCHANGED <<pd, op>>
          /\ SubWeak(item[t])
          /\ pc'[t] = dr[t].ret
          /\ dr'[t] = IdleDrop
          /\ jn'[t] = IdleJanitor
          /\ UNCHANGED <<item, av>>
      BY <1>k, <1>5, <2>3, DropWeakCasEffect
    <3>3. CASE dr[t].ret = "ret"
      BY <1>k, <1>o, <1>r, <1>s, <2>3, <3>1, <3>3, SMTT(30) DEF Starts, OnlyWeak, SubWeak,
     IdleDrop, IdleJanitor, Places, Before, HasNext, Grows, StrongOnStart, Knows, Frames,
     OnChain, Shape, Continues, DropShape, Janitoring, Updating, Upgrading, Dying, Base,
     HandleKept, Published, locals, client, heap, CallFrames, HandleStates, AdvanceFrames
    <3>4. CASE dr[t].ret = "sg_dec"
      BY <1>k, <1>o, <1>r, <1>s, <2>3, <3>1, <3>4, SMTT(30) DEF Starts, OnlyWeak, SubWeak,
     IdleDrop, IdleJanitor, Places, Before, HasNext, Grows, StrongOnStart, Knows, Frames,
     OnChain, Shape, Continues, DropShape, Janitoring, Updating, Upgrading, Dying, Base,
     HandleKept, Published, locals, client, heap, CallFrames, HandleStates, AdvanceFrames
    <3>9. dr[t].ret = "ret" \/ dr[t].ret = "sg_dec"
      BY <1>k, <1>r, <1>s, <3>1, <2>3 DEF DropFrames, Shape, Dying, CallFrames, Continues,
     Janitoring
    <3> QED BY <3>3, <3>4, <3>9
  <2> QED BY <2>1, <2>2, <2>3
<1>6. CASE DropWeakFree(t)
  <2>1. /\ pc[t] = "dw_free"
        /\ mem' = [mem EXCEPT ![item[t]] = "freed"]
        /\ drops' = IF next[item[t]].dropped THEN drops ELSE [drops EXCEPT ![item[t]] = @ + 1]
        /\ UNCHANGED <<next, prev, strong, weak, adv, client, pd>>
        /\ op'[t].f = op[t].f /\ op'[t].ok = op[t].ok /\ op'[t].guard = op[t].guard /\ op'[t].hnd = op[t].hnd /\ op'[t].out = op[t].out
        /\ pc'[t] = dr[t].ret
        /\ dr'[t] = IdleDrop
        /\ jn'[t] = IdleJanitor
        /\ UNCHANGED <<item, av>>
    BY <1>k, <1>6, DropWeakFreeEffect
  <2>3. CASE dr[t].ret = "ret"
    BY <1>k, <1>o, <1>r, <1>s, <2>1, <2>3, SMTT(30) DEF Starts, IdleDrop, IdleJanitor, Places,
     Before, HasNext, Grows, StrongOnStart, Knows, Frames, OnChain, Shape, Continues, DropShape,
     Janitoring, Updating, Upgrading, Dying, Base, HandleKept, Published, locals, client, heap,
     CallFrames, HandleStates, AdvanceFrames
  <2>4. CASE dr[t].ret = "sg_dec"
    BY <1>k, <1>o, <1>r, <1>s, <2>1, <2>4, SMTT(30) DEF Starts, IdleDrop, IdleJanitor, Places,
     Before, HasNext, Grows, StrongOnStart, Knows, Frames, OnChain, Shape, Continues, DropShape,
     Janitoring, Updating, Upgrading, Dying, Base, HandleKept, Published, locals, client, heap,
     CallFrames, HandleStates, AdvanceFrames
  <2>9. dr[t].ret = "ret" \/ dr[t].ret = "sg_dec"
    BY <1>k, <1>r, <1>s, <2>1 DEF DropFrames, Shape, Dying, CallFrames, Continues, Janitoring
  <2> QED BY <2>3, <2>4, <2>9
<1> QED BY <1>1, <1>2, <1>3, <1>4, <1>5, <1>6 DEF DropStep

(* A step of an update moves to the right.*)
LEMMA UpdatePlaces ==
  ASSUME OrderInv, NEW t \in Threads, Shape(t), Places(t), Grows, UpdateStep(t)
  PROVE  Places(t)'
<1>k. TypeOK /\ Knows(pc[t], item[t], av[t], pd[t], jn[t], op[t])
  BY RegistersTyped DEF OrderInv
<1>r. /\ pc \in [Threads -> Labels] /\ item \in [Threads -> Nodes] /\ av \in [Threads -> AdvanceFrames]
      /\ pd \in [Threads -> PayloadFrames] /\ jn \in [Threads -> JanitorFrames]
      /\ dr \in [Threads -> DropFrames] /\ op \in [Threads -> CallFrames]
      /\ strong \in [Nodes -> 0..UsizeMax] /\ UsizeMax \in Nat /\ weak \in [Nodes -> WeakWords]
      /\ mem \in [Nodes -> {"unused", "private", "live", "freed"}] /\ prev \in [Nodes -> Ptrs]
      /\ stamp \in [Nodes -> Nat] /\ next \in [Nodes -> NextWords] /\ adv \in [Nodes -> Int]
      /\ handle \in [Handles -> HandleStates]
  BY HeapAssumption DEF OrderInv, TypeOK
<1>o. ChainOrdered /\ \A h \in Handles : Published(handle[h].node)
  BY DEF OrderInv
<1>s. Shape(t) /\ Places(t) /\ Grows
  OBVIOUS
<1>1. CASE UpdateNext(t)
  <2>1. CASE HasNext(item[t])
    <3>1. /\ pc[t] = "upd_next"
          /\ UNCHANGED <<client, pd, jn, dr>>
          /\ UNCHANGED <<next, adv, drops>>
          /\ Starts(t, item[t], "strong", "upd_next")
          /\ UNCHANGED <<heap, op>>
      BY <1>k, <1>1, <2>1, UpdateNextEffect
    <3> QED BY <1>k, <1>o, <1>r, <1>s, <2>1, <3>1, SMTT(30) DEF Starts, Places, Before, HasNext,
     Grows, StrongOnStart, Knows, Frames, OnChain, Shape, Continues, DropShape, Janitoring,
     Updating, Upgrading, Dying, Base, HandleKept, Published, locals, client, heap, CallFrames,
     HandleStates, AdvanceFrames
  <2>2. CASE ~HasNext(item[t]) /\ op[t].val # Null
    <3>1. /\ pc[t] = "upd_next"
          /\ UNCHANGED <<client, pd, jn, dr>>
          /\ UNCHANGED <<next, adv, drops>>
          /\ pc'[t] = "upd_weak"
          /\ op'[t] = [op[t] EXCEPT !.nw = next[item[t]]]
          /\ prev' = [prev EXCEPT ![op[t].val] = item[t]]
          /\ UNCHANGED <<strong, weak, mem, item, av>>
      BY <1>k, <1>1, <2>2, UpdateNextEffect
    <3> QED BY <1>k, <1>o, <1>r, <1>s, <2>2, <3>1, SMTT(30) DEF Starts, Places, Before, HasNext,
     Grows, StrongOnStart, Knows, Frames, OnChain, Shape, Continues, DropShape, Janitoring,
     Updating, Upgrading, Dying, Base, HandleKept, Published, locals, client, heap, CallFrames,
     HandleStates, AdvanceFrames
  <2>3. CASE ~HasNext(item[t]) /\ op[t].val = Null
    <3>1. /\ pc[t] = "upd_next"
          /\ UNCHANGED <<client, pd, jn, dr>>
          /\ UNCHANGED <<next, adv, drops>>
          /\ Unused # {}
          /\ pc'[t] = "upd_weak"
          /\ op'[t] = [op[t] EXCEPT !.val = FreshNode, !.nw = next[item[t]]]
          /\ NewHolder(FreshNode, item[t])
          /\ UNCHANGED <<item, av>>
      BY <1>k, <1>1, <2>3, UpdateNextEffect
    <3>2. FreshNode \in Nodes /\ mem[FreshNode] = "unused" /\ ~Published(FreshNode)
      BY <3>1, FreshIsUnused
    <3> QED BY <1>k, <1>o, <1>r, <1>s, <2>3, <3>1, <3>2, SMTT(30) DEF Starts, NewHolder, Places,
     Before, HasNext, Grows, StrongOnStart, Knows, Frames, OnChain, Shape, Continues, DropShape,
     Janitoring, Updating, Upgrading, Dying, Base, HandleKept, Published, locals, client, heap,
     CallFrames, HandleStates, AdvanceFrames
  <2> QED BY <2>1, <2>2, <2>3
<1>2. CASE RcuCancel(t)
  BY <1>k, <1>o, <1>r, <1>s, <1>2, SMTT(30) DEF RcuCancel, Goto, Places, Before, HasNext, Grows,
     StrongOnStart, Knows, Frames, OnChain, Shape, Continues, DropShape, Janitoring, Updating,
     Upgrading, Dying, Base, HandleKept, Published, locals, client, heap, CallFrames,
     HandleStates, AdvanceFrames
<1>3. CASE UpdateWeakInc(t)
  BY <1>k, <1>o, <1>r, <1>s, <1>3, SMTT(30) DEF UpdateWeakInc, AddWeak, Goto, OnlyWeak, Places,
     Before, HasNext, Grows, StrongOnStart, Knows, Frames, OnChain, Shape, Continues, DropShape,
     Janitoring, Updating, Upgrading, Dying, Base, HandleKept, Published, locals, client, heap,
     CallFrames, HandleStates, AdvanceFrames
<1>5. CASE UpdateFail(t)
  <2>1. /\ pc[t] = "upd_fail"
        /\ SubWeak(item[t])
        /\ OnlyWeak
        /\ UNCHANGED <<pd, jn, dr, op>>
        /\ Starts(t, item[t], "strong", "upd_next")
    BY <1>k, <1>5, UpdateFailEffect
  <2> QED BY <1>k, <1>o, <1>r, <1>s, <2>1, SMTT(30) DEF Starts, SubWeak, OnlyWeak, Places,
     Before, HasNext, Grows, StrongOnStart, Knows, Frames, OnChain, Shape, Continues, DropShape,
     Janitoring, Updating, Upgrading, Dying, Base, HandleKept, Published, locals, client, heap,
     CallFrames, HandleStates, AdvanceFrames
<1>6. CASE UpdateMark(t)
  BY <1>k, <1>o, <1>r, <1>s, <1>6, SMTT(30) DEF UpdateMark, Goto, OnlyWeak, Places, Before,
     HasNext, Grows, StrongOnStart, Knows, Frames, OnChain, Shape, Continues, DropShape,
     Janitoring, Updating, Upgrading, Dying, Base, HandleKept, Published, locals, client, heap,
     CallFrames, HandleStates, AdvanceFrames
<1>8. CASE UpdateDecWeak(t)
  BY <1>k, <1>o, <1>r, <1>s, <1>8, SMTT(30) DEF UpdateDecWeak, SubWeak, Goto, OnlyWeak, Places,
     Before, HasNext, Grows, StrongOnStart, Knows, Frames, OnChain, Shape, Continues, DropShape,
     Janitoring, Updating, Upgrading, Dying, Base, HandleKept, Published, locals, client, heap,
     CallFrames, HandleStates, AdvanceFrames
<1>9. CASE UpdateDone(t)
  <2>1. CASE jn[t].rerun
    <3>1. /\ pc[t] = "upd_done"
          /\ ReadOnly
          /\ UNCHANGED <<pd, jn, dr, op>>
          /\ Starts(t, item[t], "strong", "jan_lock")
      BY <1>k, <1>9, <2>1, UpdateDoneEffect
    <3> QED BY <1>k, <1>o, <1>r, <1>s, <2>1, <3>1, SMTT(30) DEF Starts, ReadOnly, Places,
     Before, HasNext, Grows, StrongOnStart, Knows, Frames, OnChain, Shape, Continues, DropShape,
     Janitoring, Updating, Upgrading, Dying, Base, HandleKept, Published, locals, client, heap,
     CallFrames, HandleStates, AdvanceFrames
  <2>2. CASE ~jn[t].rerun
    <3>1. /\ pc[t] = "upd_done"
          /\ ReadOnly
          /\ UNCHANGED <<pd, jn, dr, op>>
          /\ pc'[t] = "ret"
          /\ UNCHANGED <<item, av>>
      BY <1>k, <1>9, <2>2, UpdateDoneEffect
    <3> QED BY <1>k, <1>o, <1>r, <1>s, <2>2, <3>1, SMTT(30) DEF Starts, ReadOnly, Places,
     Before, HasNext, Grows, StrongOnStart, Knows, Frames, OnChain, Shape, Continues, DropShape,
     Janitoring, Updating, Upgrading, Dying, Base, HandleKept, Published, locals, client, heap,
     CallFrames, HandleStates, AdvanceFrames
  <2> QED BY <2>1, <2>2
<1>4. CASE UpdateCas(t)
  <2>1. CASE CanLink(item[t], op[t].nw)
    <3>1. Links(t, item[t], op[t].val)
      BY <1>4, <2>1, UpdateLinks
    <3>2. /\ pc[t] = "upd_cas" /\ pc'[t] = "upd_mark" /\ UNCHANGED <<handle, locals>> /\ HasNext(item[t])'
      BY <1>r, <3>1 DEF Links, HasNext, locals, Nodes, Null
    <3>3. pd[t].ret = "idle" /\ dr[t].ret = "idle"
      BY <1>k, <1>r, <1>s, <3>2 DEF Knows, Frames, Shape, Updating, PayloadFrames
    <3> QED BY <3>2, <3>3 DEF Places, StrongOnStart, Base, locals
  <2>2. CASE ~CanLink(item[t], op[t].nw)
    <3>1. /\ pc[t] = "upd_cas" /\ pc'[t] = "upd_fail" /\ UNCHANGED <<handle, locals>>
      BY <1>r, <1>4, <2>2 DEF UpdateCas, Goto
    <3>3. pd[t].ret = "idle" /\ dr[t].ret = "idle"
      BY <1>k, <1>r, <1>s, <3>1 DEF Knows, Frames, Shape, Updating, PayloadFrames
    <3> QED BY <3>1, <3>3 DEF Places, StrongOnStart, Base, locals
  <2> QED BY <2>1, <2>2
<1>7. CASE UpdateDec(t)
  <2>0. pc[t] = "upd_dec" /\ UNCHANGED <<stamp, next, handle, av, dr, op>> /\ HasNext(item[t])
    BY <1>r, <1>s, <1>7 DEF UpdateDec, OnlyStrong, client, Places
  <2>1. CASE LastStrong(item[t])
    <3>1. /\ pc'[t] = "pay_mark" /\ pd'[t].tgt = item[t] /\ pd'[t].ret = "upd_decw" /\ item' = item
      BY <1>r, <1>7, <2>1 DEF UpdateDec, Goto, StartPayloadDrop
    <3> QED BY <1>r, <1>s, <2>0, <3>1 DEF Places, Before, HasNext, StrongOnStart, Base, Shape
  <2>2. CASE ~LastStrong(item[t])
    <3>1. /\ pc'[t] = "ret" /\ pd' = pd
      BY <1>r, <1>7, <2>2 DEF UpdateDec, Goto
    <3>2. pd[t].ret = "idle" /\ dr[t].ret = "idle"
      BY <1>k, <1>r, <1>s, <2>0 DEF Knows, Frames, Shape, Updating, PayloadFrames
    <3> QED BY <1>r, <1>s, <2>0, <3>1, <3>2 DEF Places, Before, HasNext, StrongOnStart, Base, Shape
  <2> QED BY <2>1, <2>2
<1> QED BY <1>1, <1>2, <1>3, <1>5, <1>6, <1>8, <1>9, <1>4, <1>7 DEF UpdateStep

(* A step of an upgrade moves to the right.*)
LEMMA UpgradePlaces ==
  ASSUME OrderInv, NEW t \in Threads, Shape(t), Places(t), Grows, UpgradeStep(t)
  PROVE  Places(t)'
<1>k. TypeOK /\ Knows(pc[t], item[t], av[t], pd[t], jn[t], op[t])
  BY RegistersTyped DEF OrderInv
<1>r. /\ pc \in [Threads -> Labels] /\ item \in [Threads -> Nodes] /\ av \in [Threads -> AdvanceFrames]
      /\ pd \in [Threads -> PayloadFrames] /\ jn \in [Threads -> JanitorFrames]
      /\ dr \in [Threads -> DropFrames] /\ op \in [Threads -> CallFrames]
      /\ strong \in [Nodes -> 0..UsizeMax] /\ UsizeMax \in Nat /\ weak \in [Nodes -> WeakWords]
      /\ mem \in [Nodes -> {"unused", "private", "live", "freed"}] /\ prev \in [Nodes -> Ptrs]
      /\ stamp \in [Nodes -> Nat] /\ next \in [Nodes -> NextWords] /\ adv \in [Nodes -> Int]
      /\ handle \in [Handles -> HandleStates]
  BY HeapAssumption DEF OrderInv, TypeOK
<1>o. ChainOrdered /\ \A h \in Handles : Published(handle[h].node)
  BY DEF OrderInv
<1>s. Shape(t) /\ Places(t) /\ Grows
  OBVIOUS
<1>1. CASE UpgradeLoadStrong(t)
  BY <1>k, <1>o, <1>r, <1>s, <1>1, SMTT(30) DEF UpgradeLoadStrong, Goto, ReadOnly, Places,
     Before, HasNext, Grows, StrongOnStart, Knows, Frames, OnChain, Shape, Continues, DropShape,
     Janitoring, Updating, Upgrading, Dying, Base, HandleKept, Published, locals, client, heap,
     CallFrames, HandleStates, AdvanceFrames
<1>2. CASE UpgradeLoadNext(t)
  <2>1. CASE HasNext(item[t])
    <3>1. /\ pc[t] = "upg_next"
          /\ ReadOnly
          /\ UNCHANGED pd
          /\ Starts(t, item[t], "weak", "upg_strong")
          /\ UNCHANGED <<jn, dr, op>>
      BY <1>k, <1>2, <2>1, UpgradeLoadNextEffect
    <3> QED BY <1>k, <1>o, <1>r, <1>s, <2>1, <3>1, SMTT(30) DEF Starts, ReadOnly, Places,
     Before, HasNext, Grows, StrongOnStart, Knows, Frames, OnChain, Shape, Continues, DropShape,
     Janitoring, Updating, Upgrading, Dying, Base, HandleKept, Published, locals, client, heap,
     CallFrames, HandleStates, AdvanceFrames
  <2>2. CASE ~HasNext(item[t]) /\ ValueIsGone(item[t], op[t].cs)
    <3>1. /\ pc[t] = "upg_next"
          /\ ReadOnly
          /\ UNCHANGED pd
          /\ Starts(t, item[t], "weak", "jan_lock")
          /\ jn'[t] = [IdleJanitor EXCEPT !.ret = "dw_weak"]
          /\ dr'[t] = [IdleDrop EXCEPT !.ret = "ret"]
          /\ op'[t] = [op[t] EXCEPT !.ok = FALSE]
      BY <1>k, <1>2, <2>2, UpgradeLoadNextEffect
    <3> QED BY <1>k, <1>o, <1>r, <1>s, <2>2, <3>1, SMTT(30) DEF Starts, ReadOnly, IdleJanitor,
     IdleDrop, Places, Before, HasNext, Grows, StrongOnStart, Knows, Frames, OnChain, Shape,
     Continues, DropShape, Janitoring, Updating, Upgrading, Dying, Base, HandleKept, Published,
     locals, client, heap, CallFrames, HandleStates, AdvanceFrames
  <2>3. CASE ~HasNext(item[t]) /\ ~ValueIsGone(item[t], op[t].cs)
    <3>1. /\ pc[t] = "upg_next"
          /\ ReadOnly
          /\ UNCHANGED pd
          /\ pc'[t] = IF op[t].cs = 0 THEN "upg_incw" ELSE "upg_cas"
          /\ UNCHANGED <<item, av, jn, dr, op>>
      BY <1>k, <1>2, <2>3, UpgradeLoadNextEffect
    <3> QED BY <1>k, <1>o, <1>r, <1>s, <2>3, <3>1, SMTT(30) DEF Starts, ReadOnly, Places,
     Before, HasNext, Grows, StrongOnStart, Knows, Frames, OnChain, Shape, Continues, DropShape,
     Janitoring, Updating, Upgrading, Dying, Base, HandleKept, Published, locals, client, heap,
     CallFrames, HandleStates, AdvanceFrames
  <2> QED BY <2>1, <2>2, <2>3
<1>3. CASE UpgradeIncWeak(t)
  BY <1>k, <1>o, <1>r, <1>s, <1>3, SMTT(30) DEF UpgradeIncWeak, AddWeak, Goto, OnlyWeak, Places,
     Before, HasNext, Grows, StrongOnStart, Knows, Frames, OnChain, Shape, Continues, DropShape,
     Janitoring, Updating, Upgrading, Dying, Base, HandleKept, Published, locals, client, heap,
     CallFrames, HandleStates, AdvanceFrames
<1>4. CASE UpgradeCas(t)
  <2>1. CASE strong[item[t]] = op[t].cs
    <3>1. /\ pc[t] = "upg_cas"
          /\ OnlyStrong
          /\ UNCHANGED <<pd, jn, dr, op>>
          /\ AddStrong(item[t])
          /\ pc'[t] = "upg_check"
          /\ UNCHANGED <<item, av>>
      BY <1>k, <1>4, <2>1, UpgradeCasEffect
    <3> QED BY <1>k, <1>o, <1>r, <1>s, <2>1, <3>1, SMTT(30) DEF Starts, OnlyStrong, AddStrong,
     Places, Before, HasNext, Grows, StrongOnStart, Knows, Frames, OnChain, Shape, Continues,
     DropShape, Janitoring, Updating, Upgrading, Dying, Base, HandleKept, Published, locals,
     client, heap, CallFrames, HandleStates, AdvanceFrames
  <2>2. CASE strong[item[t]] # op[t].cs /\ op[t].cs = 0
    <3>1. /\ pc[t] = "upg_cas"
          /\ OnlyStrong
          /\ UNCHANGED <<pd, jn, dr, op>>
          /\ pc'[t] = "upg_race"
          /\ UNCHANGED <<strong, item, av>>
      BY <1>k, <1>4, <2>2, UpgradeCasEffect
    <3> QED BY <1>k, <1>o, <1>r, <1>s, <2>2, <3>1, SMTT(30) DEF Starts, OnlyStrong, Places,
     Before, HasNext, Grows, StrongOnStart, Knows, Frames, OnChain, Shape, Continues, DropShape,
     Janitoring, Updating, Upgrading, Dying, Base, HandleKept, Published, locals, client, heap,
     CallFrames, HandleStates, AdvanceFrames
  <2>3. CASE strong[item[t]] # op[t].cs /\ op[t].cs # 0
    <3>1. /\ pc[t] = "upg_cas"
          /\ OnlyStrong
          /\ UNCHANGED <<pd, jn, dr, op>>
          /\ Starts(t, item[t], "weak", "upg_strong")
          /\ UNCHANGED strong
      BY <1>k, <1>4, <2>3, UpgradeCasEffect
    <3> QED BY <1>k, <1>o, <1>r, <1>s, <2>3, <3>1, SMTT(30) DEF Starts, OnlyStrong, Places,
     Before, HasNext, Grows, StrongOnStart, Knows, Frames, OnChain, Shape, Continues, DropShape,
     Janitoring, Updating, Upgrading, Dying, Base, HandleKept, Published, locals, client, heap,
     CallFrames, HandleStates, AdvanceFrames
  <2> QED BY <2>1, <2>2, <2>3
<1>5. CASE UpgradeRaceDecWeak(t)
  <2>1. /\ pc[t] = "upg_race"
        /\ SubWeak(item[t])
        /\ OnlyWeak
        /\ UNCHANGED <<pd, jn, dr, op>>
        /\ Starts(t, item[t], "weak", "upg_strong")
    BY <1>k, <1>5, UpgradeRaceDecWeakEffect
  <2> QED BY <1>k, <1>o, <1>r, <1>s, <2>1, SMTT(30) DEF Starts, SubWeak, OnlyWeak, Places,
     Before, HasNext, Grows, StrongOnStart, Knows, Frames, OnChain, Shape, Continues, DropShape,
     Janitoring, Updating, Upgrading, Dying, Base, HandleKept, Published, locals, client, heap,
     CallFrames, HandleStates, AdvanceFrames
<1>6. CASE UpgradeCheck(t)
  BY <1>k, <1>o, <1>r, <1>s, <1>6, SMTT(30) DEF UpgradeCheck, Goto, ReadOnly, Places, Before,
     HasNext, Grows, StrongOnStart, Knows, Frames, OnChain, Shape, Continues, DropShape,
     Janitoring, Updating, Upgrading, Dying, Base, HandleKept, Published, locals, client, heap,
     CallFrames, HandleStates, AdvanceFrames
<1>7. CASE UpgradeUndo(t)
  <2>1. CASE LastStrong(item[t])
    <3>1. /\ pc[t] = "upg_undo"
          /\ SubStrong(item[t])
          /\ OnlyStrong
          /\ UNCHANGED <<pd, jn, dr, op>>
          /\ pc'[t] = "upg_undo_decw"
          /\ UNCHANGED <<item, av>>
      BY <1>k, <1>7, <2>1, UpgradeUndoEffect
    <3> QED BY <1>k, <1>o, <1>r, <1>s, <2>1, <3>1, SMTT(30) DEF Starts, SubStrong, OnlyStrong,
     Places, Before, HasNext, Grows, StrongOnStart, Knows, Frames, OnChain, Shape, Continues,
     DropShape, Janitoring, Updating, Upgrading, Dying, Base, HandleKept, Published, locals,
     client, heap, CallFrames, HandleStates, AdvanceFrames
  <2>2. CASE ~LastStrong(item[t])
    <3>1. /\ pc[t] = "upg_undo"
          /\ SubStrong(item[t])
          /\ OnlyStrong
          /\ UNCHANGED <<pd, jn, dr, op>>
          /\ Starts(t, item[t], "weak", "upg_strong")
      BY <1>k, <1>7, <2>2, UpgradeUndoEffect
    <3> QED BY <1>k, <1>o, <1>r, <1>s, <2>2, <3>1, SMTT(30) DEF Starts, SubStrong, OnlyStrong,
     Places, Before, HasNext, Grows, StrongOnStart, Knows, Frames, OnChain, Shape, Continues,
     DropShape, Janitoring, Updating, Upgrading, Dying, Base, HandleKept, Published, locals,
     client, heap, CallFrames, HandleStates, AdvanceFrames
  <2> QED BY <2>1, <2>2
<1>8. CASE UpgradeUndoDecWeak(t)
  <2>1. /\ pc[t] = "upg_undo_decw"
        /\ SubWeak(item[t])
        /\ OnlyWeak
        /\ UNCHANGED <<pd, jn, dr, op>>
        /\ Starts(t, item[t], "weak", "upg_strong")
    BY <1>k, <1>8, UpgradeUndoDecWeakEffect
  <2> QED BY <1>k, <1>o, <1>r, <1>s, <2>1, SMTT(30) DEF Starts, SubWeak, OnlyWeak, Places,
     Before, HasNext, Grows, StrongOnStart, Knows, Frames, OnChain, Shape, Continues, DropShape,
     Janitoring, Updating, Upgrading, Dying, Base, HandleKept, Published, locals, client, heap,
     CallFrames, HandleStates, AdvanceFrames
<1>9. CASE UpgradeDone(t)
  BY <1>k, <1>o, <1>r, <1>s, <1>9, SMTT(30) DEF UpgradeDone, SubWeak, Goto, OnlyWeak, Places,
     Before, HasNext, Grows, StrongOnStart, Knows, Frames, OnChain, Shape, Continues, DropShape,
     Janitoring, Updating, Upgrading, Dying, Base, HandleKept, Published, locals, client, heap,
     CallFrames, HandleStates, AdvanceFrames
<1> QED BY <1>1, <1>2, <1>3, <1>4, <1>5, <1>6, <1>7, <1>8, <1>9 DEF UpgradeStep

(* A step of a public function moves to the right.*)
LEMMA ApiPlaces ==
  ASSUME OrderInv, NEW t \in Threads, Shape(t), Places(t), Grows, ApiStep(t)
  PROVE  Places(t)'
<1>k. TypeOK /\ Knows(pc[t], item[t], av[t], pd[t], jn[t], op[t])
  BY RegistersTyped DEF OrderInv
<1>r. /\ pc \in [Threads -> Labels] /\ item \in [Threads -> Nodes] /\ av \in [Threads -> AdvanceFrames]
      /\ pd \in [Threads -> PayloadFrames] /\ jn \in [Threads -> JanitorFrames]
      /\ dr \in [Threads -> DropFrames] /\ op \in [Threads -> CallFrames]
      /\ strong \in [Nodes -> 0..UsizeMax] /\ UsizeMax \in Nat /\ weak \in [Nodes -> WeakWords]
      /\ mem \in [Nodes -> {"unused", "private", "live", "freed"}] /\ prev \in [Nodes -> Ptrs]
      /\ stamp \in [Nodes -> Nat] /\ next \in [Nodes -> NextWords] /\ adv \in [Nodes -> Int]
      /\ handle \in [Handles -> HandleStates]
  BY HeapAssumption DEF OrderInv, TypeOK
<1>o. ChainOrdered /\ \A h \in Handles : Published(handle[h].node)
  BY DEF OrderInv
<1>s. Shape(t) /\ Places(t) /\ Grows
  OBVIOUS
<1>1. CASE GetLoad(t)
  <2>1. CASE NeedsReload(op[t].f, item[t])
    <3>1. /\ pc[t] = "get_load"
          /\ ReadOnly
          /\ UNCHANGED <<pd, dr, op>>
          /\ Starts(t, item[t], "strong", "jan_lock")
          /\ jn'[t].ret = "get_done"
      BY <1>k, <1>1, <2>1, GetLoadEffect
    <3> QED BY <1>k, <1>o, <1>r, <1>s, <2>1, <3>1, SMTT(30) DEF Starts, ReadOnly, Places,
     Before, HasNext, Grows, StrongOnStart, Knows, Frames, OnChain, Shape, Continues, DropShape,
     Janitoring, Updating, Upgrading, Dying, Base, HandleKept, Published, locals, client, heap,
     CallFrames, HandleStates, AdvanceFrames
  <2>2. CASE ~NeedsReload(op[t].f, item[t])
    <3>1. /\ pc[t] = "get_load"
          /\ ReadOnly
          /\ UNCHANGED <<pd, dr, op>>
          /\ pc'[t] = AfterReload(op[t].f)
          /\ UNCHANGED <<item, av, jn>>
      BY <1>k, <1>1, <2>2, GetLoadEffect
    <3> QED BY <1>k, <1>o, <1>r, <1>s, <2>2, <3>1, SMTT(30) DEF Starts, ReadOnly, AfterReload,
     Places, Before, HasNext, Grows, StrongOnStart, Knows, Frames, OnChain, Shape, Continues,
     DropShape, Janitoring, Updating, Upgrading, Dying, Base, HandleKept, Published, locals,
     client, heap, CallFrames, HandleStates, AdvanceFrames
  <2> QED BY <2>1, <2>2
<1>2. CASE GetDone(t)
  <2>1. CASE jn[t].rerun
    <3>1. /\ pc[t] = "get_done"
          /\ ReadOnly
          /\ UNCHANGED <<pd, jn, dr, op>>
          /\ Starts(t, item[t], "strong", "jan_lock")
      BY <1>k, <1>2, <2>1, GetDoneEffect
    <3> QED BY <1>k, <1>o, <1>r, <1>s, <2>1, <3>1, SMTT(30) DEF Starts, ReadOnly, Places,
     Before, HasNext, Grows, StrongOnStart, Knows, Frames, OnChain, Shape, Continues, DropShape,
     Janitoring, Updating, Upgrading, Dying, Base, HandleKept, Published, locals, client, heap,
     CallFrames, HandleStates, AdvanceFrames
  <2>2. CASE ~jn[t].rerun
    <3>1. /\ pc[t] = "get_done"
          /\ ReadOnly
          /\ UNCHANGED <<pd, jn, dr, op>>
          /\ pc'[t] = AfterReload(op[t].f)
          /\ UNCHANGED <<item, av>>
      BY <1>k, <1>2, <2>2, GetDoneEffect
    <3> QED BY <1>k, <1>o, <1>r, <1>s, <2>2, <3>1, SMTT(30) DEF Starts, ReadOnly, AfterReload,
     Places, Before, HasNext, Grows, StrongOnStart, Knows, Frames, OnChain, Shape, Continues,
     DropShape, Janitoring, Updating, Upgrading, Dying, Base, HandleKept, Published, locals,
     client, heap, CallFrames, HandleStates, AdvanceFrames
  <2> QED BY <2>1, <2>2
<1>3. CASE TryGetMutWeak(t)
  BY <1>k, <1>o, <1>r, <1>s, <1>3, SMTT(30) DEF TryGetMutWeak, Goto, ReadOnly, Places, Before,
     HasNext, Grows, StrongOnStart, Knows, Frames, OnChain, Shape, Continues, DropShape,
     Janitoring, Updating, Upgrading, Dying, Base, HandleKept, Published, locals, client, heap,
     CallFrames, HandleStates, AdvanceFrames
<1>4. CASE TryGetMutStrong(t)
  BY <1>k, <1>o, <1>r, <1>s, <1>4, SMTT(30) DEF TryGetMutStrong, Goto, ReadOnly, Places, Before,
     HasNext, Grows, StrongOnStart, Knows, Frames, OnChain, Shape, Continues, DropShape,
     Janitoring, Updating, Upgrading, Dying, Base, HandleKept, Published, locals, client, heap,
     CallFrames, HandleStates, AdvanceFrames
<1>5. CASE TryGetMutAgain(t)
  BY <1>k, <1>o, <1>r, <1>s, <1>5, SMTT(30) DEF TryGetMutAgain, Goto, ReadOnly, Places, Before,
     HasNext, Grows, StrongOnStart, Knows, Frames, OnChain, Shape, Continues, DropShape,
     Janitoring, Updating, Upgrading, Dying, Base, HandleKept, Published, locals, client, heap,
     CallFrames, HandleStates, AdvanceFrames
<1>7. CASE SharedGetInc(t)
  BY <1>k, <1>o, <1>r, <1>s, <1>7, SMTT(30) DEF SharedGetInc, Goto, OnlyAdv, Places, Before,
     HasNext, Grows, StrongOnStart, Knows, Frames, OnChain, Shape, Continues, DropShape,
     Janitoring, Updating, Upgrading, Dying, Base, HandleKept, Published, locals, client, heap,
     CallFrames, HandleStates, AdvanceFrames
<1>8. CASE SharedGetNext(t)
  BY <1>k, <1>o, <1>r, <1>s, <1>8, SMTT(30) DEF SharedGetNext, Goto, ReadOnly, Places, Before,
     HasNext, Grows, StrongOnStart, Knows, Frames, OnChain, Shape, Continues, DropShape,
     Janitoring, Updating, Upgrading, Dying, Base, HandleKept, Published, locals, client, heap,
     CallFrames, HandleStates, AdvanceFrames, ChainOrdered
<1>9. CASE SharedGetStrong(t)
  BY <1>k, <1>o, <1>r, <1>s, <1>9, SMTT(30) DEF SharedGetStrong, Goto, ReadOnly, Places, Before,
     HasNext, Grows, StrongOnStart, Knows, Frames, OnChain, Shape, Continues, DropShape,
     Janitoring, Updating, Upgrading, Dying, Base, HandleKept, Published, locals, client, heap,
     CallFrames, HandleStates, AdvanceFrames
<1>10. CASE SharedGetCas(t)
  <2>1. CASE strong[op[t].nxt] = op[t].cs
    BY <1>k, <1>o, <1>r, <1>s, <1>10, <2>1, SMTT(30) DEF SharedGetCas, AddStrong, Goto,
     OnlyStrong, Places, Before, HasNext, Grows, StrongOnStart, Knows, Frames, OnChain, Shape,
     Continues, DropShape, Janitoring, Updating, Upgrading, Dying, Base, HandleKept, Published,
     locals, client, heap, CallFrames, HandleStates, AdvanceFrames
  <2>2. CASE strong[op[t].nxt] # op[t].cs
    BY <1>k, <1>o, <1>r, <1>s, <1>10, <2>2, SMTT(30) DEF SharedGetCas, AddStrong, Goto,
     OnlyStrong, Places, Before, HasNext, Grows, StrongOnStart, Knows, Frames, OnChain, Shape,
     Continues, DropShape, Janitoring, Updating, Upgrading, Dying, Base, HandleKept, Published,
     locals, client, heap, CallFrames, HandleStates, AdvanceFrames
  <2> QED BY <2>1, <2>2
<1>11. CASE SharedGetRecheck(t)
  <2>1. CASE HasNext(op[t].nxt)
    <3>1. /\ pc[t] = "sg_recheck"
          /\ ReadOnly
          /\ UNCHANGED <<pd, jn, op>>
          /\ Starts(t, op[t].nxt, "strong", "ds_dec")
          /\ dr'[t] = [IdleDrop EXCEPT !.ret = "sg_dec"]
      BY <1>k, <1>11, <2>1, SharedGetRecheckEffect
    <3> QED BY <1>k, <1>o, <1>r, <1>s, <2>1, <3>1, SMTT(30) DEF Starts, ReadOnly, IdleDrop,
     Places, Before, HasNext, Grows, StrongOnStart, Knows, Frames, OnChain, Shape, Continues,
     DropShape, Janitoring, Updating, Upgrading, Dying, Base, HandleKept, Published, locals,
     client, heap, CallFrames, HandleStates, AdvanceFrames
  <2>2. CASE ~HasNext(op[t].nxt)
    <3>1. /\ pc[t] = "sg_recheck"
          /\ ReadOnly
          /\ UNCHANGED <<pd, jn, op>>
          /\ pc'[t] = "sg_light"
          /\ UNCHANGED <<item, av, dr>>
      BY <1>k, <1>11, <2>2, SharedGetRecheckEffect
    <3> QED BY <1>k, <1>o, <1>r, <1>s, <2>2, <3>1, SMTT(30) DEF Starts, ReadOnly, Places,
     Before, HasNext, Grows, StrongOnStart, Knows, Frames, OnChain, Shape, Continues, DropShape,
     Janitoring, Updating, Upgrading, Dying, Base, HandleKept, Published, locals, client, heap,
     CallFrames, HandleStates, AdvanceFrames
  <2> QED BY <2>1, <2>2
<1>12. CASE SharedGetLight(t)
  BY <1>k, <1>o, <1>r, <1>s, <1>12, SMTT(30) DEF SharedGetLight, Goto, OnlyAdv, Places, Before,
     HasNext, Grows, StrongOnStart, Knows, Frames, OnChain, Shape, Continues, DropShape,
     Janitoring, Updating, Upgrading, Dying, Base, HandleKept, Published, locals, client, heap,
     CallFrames, HandleStates, AdvanceFrames
<1>13. CASE SharedGetDec(t)
  BY <1>k, <1>o, <1>r, <1>s, <1>13, SMTT(30) DEF SharedGetDec, Goto, OnlyAdv, Places, Before,
     HasNext, Grows, StrongOnStart, Knows, Frames, OnChain, Shape, Continues, DropShape,
     Janitoring, Updating, Upgrading, Dying, Base, HandleKept, Published, locals, client, heap,
     CallFrames, HandleStates, AdvanceFrames
<1>14. CASE SharedGetClone(t)
  <2>1. /\ pc[t] = "sg_clone"
        /\ AddStrong(Base(t))
        /\ OnlyStrong
        /\ UNCHANGED <<pd, jn, dr>>
        /\ Starts(t, Base(t), "strong", "reading")
        /\ op'[t] = [op[t] EXCEPT !.guard = "full"]
    BY <1>k, <1>14, SharedGetCloneEffect
  <2> QED BY <1>k, <1>o, <1>r, <1>s, <2>1, SMTT(30) DEF Starts, AddStrong, OnlyStrong, Places,
     Before, HasNext, Grows, StrongOnStart, Knows, Frames, OnChain, Shape, Continues, DropShape,
     Janitoring, Updating, Upgrading, Dying, Base, HandleKept, Published, locals, client, heap,
     CallFrames, HandleStates, AdvanceFrames
<1>15. CASE FinishReading(t)
  <2>1. CASE op[t].guard \in {"light", "full"}
    <3>1. /\ pc[t] \in {"reading", "mutref"}
          /\ ReadOnly
          /\ UNCHANGED <<pd, jn, op>>
          /\ Starts(t, item[t], "strong", "ds_dec")
          /\ dr'[t] = [IdleDrop EXCEPT !.ret = "ret"]
      BY <1>k, <1>15, <2>1, FinishReadingEffect
    <3> QED BY <1>k, <1>o, <1>r, <1>s, <2>1, <3>1, SMTT(30) DEF Starts, ReadOnly, IdleDrop,
     Places, Before, HasNext, Grows, StrongOnStart, Knows, Frames, OnChain, Shape, Continues,
     DropShape, Janitoring, Updating, Upgrading, Dying, Base, HandleKept, Published, locals,
     client, heap, CallFrames, HandleStates, AdvanceFrames
  <2>2. CASE op[t].guard \notin {"light", "full"}
    <3>1. /\ pc[t] \in {"reading", "mutref"}
          /\ ReadOnly
          /\ UNCHANGED <<pd, jn, op>>
          /\ pc'[t] = "ret"
          /\ UNCHANGED <<item, av, dr>>
      BY <1>k, <1>15, <2>2, FinishReadingEffect
    <3> QED BY <1>k, <1>o, <1>r, <1>s, <2>2, <3>1, SMTT(30) DEF Starts, ReadOnly, Places,
     Before, HasNext, Grows, StrongOnStart, Knows, Frames, OnChain, Shape, Continues, DropShape,
     Janitoring, Updating, Upgrading, Dying, Base, HandleKept, Published, locals, client, heap,
     CallFrames, HandleStates, AdvanceFrames
  <2> QED BY <2>1, <2>2
<1>16. CASE Return(t)
  BY <1>k, <1>o, <1>r, <1>s, <1>16, SMTT(30) DEF Return, Goto, Places, Before, HasNext, Grows,
     StrongOnStart, Knows, Frames, OnChain, Shape, Continues, DropShape, Janitoring, Updating,
     Upgrading, Dying, Base, HandleKept, Published, locals, client, heap, CallFrames,
     HandleStates, AdvanceFrames
<1>6. CASE SharedGetLoad(t)
  <2>1. CASE HasNext(Base(t))
    BY <1>k, <1>o, <1>r, <1>s, <1>6, <2>1, SMTT(30) DEF SharedGetLoad, Goto, ReadOnly, Places, Before, HasNext, StrongOnStart, Shape, SharedGetting, Base, client, heap
  <2>2. CASE ~HasNext(Base(t))
    <3>1. /\ pc[t] = "sg_load" /\ pc'[t] = "reading" /\ UNCHANGED <<stamp, next, handle, av, pd, dr>> /\ item'[t] = Base(t)
          /\ op'[t] = [op[t] EXCEPT !.guard = "raw"]
      BY <1>r, <1>6, <2>2 DEF SharedGetLoad, Goto, ReadOnly, heap, client
    <3>2. op'[t].hnd = op[t].hnd /\ op'[t].nxt = op[t].nxt
      BY <1>r, <3>1 DEF CallFrames
    <3>3. pd[t].ret = "idle" /\ dr[t].ret = "idle"
      BY <1>k, <1>r, <1>s, <3>1 DEF Knows, Frames, Shape, PayloadFrames, Dying, Janitoring, DropFrames
    <3> QED BY <3>1, <3>2, <3>3 DEF Places, StrongOnStart, Base
  <2> QED BY <2>1, <2>2
<1> QED BY <1>1, <1>2, <1>3, <1>4, <1>5, <1>7, <1>8, <1>9, <1>10, <1>11, <1>12, <1>13, <1>14,
  <1>15, <1>16, <1>6 DEF ApiStep

(* A janitor goes on, or returns to where it was called.                    *)
LEMMA JanitorLabels ==
  ASSUME TypeOK, NEW t \in Threads, JanitorStep(t)
  PROVE  pc[t] \in Janitoring /\ (pc'[t] \in Janitoring \/ pc'[t] = jn[t].ret) /\ UNCHANGED <<item, av, pd, dr>>
<1>r. pc \in [Threads -> Labels]
  BY DEF TypeOK
<1>1. CASE JanitorLockStart(t)
  BY <1>r, <1>1 DEF Janitoring, JanitorLockStart, Janitor,
     ReturnJanitor, Goto
<1>2. CASE JanitorSweep(t)
  BY <1>r, <1>2 DEF Janitoring, JanitorSweep, Janitor, Goto
<1>3. CASE JanitorCleanup(t)
  BY <1>r, <1>3 DEF Janitoring, JanitorCleanup, Janitor, Goto
<1>4. CASE JanitorUnlockStart(t)
  BY <1>r, <1>4 DEF Janitoring, JanitorUnlockStart, Janitor,
     ReturnJanitor, Goto
<1>5. CASE JanitorStrong(t)
  BY <1>r, <1>5 DEF Janitoring, JanitorStrong, Janitor, Goto
<1>6. CASE JanitorSetNext(t)
  BY <1>r, <1>6 DEF Janitoring, JanitorSetNext, Janitor, Goto
<1>7. CASE JanitorCheckAdvance(t)
  BY <1>r, <1>7 DEF Janitoring, JanitorCheckAdvance, Janitor,
     Goto
<1>8. CASE JanitorFinal(t)
  BY <1>r, <1>8 DEF Janitoring, JanitorFinal, Janitor, Goto
<1>9. CASE JanitorDelete(t)
  BY <1>r, <1>9 DEF Janitoring, JanitorDelete, Janitor, Goto
<1>10. CASE JanitorFree(t)
  BY <1>r, <1>10 DEF Janitoring, JanitorFree, Janitor, Goto
<1>11. CASE JanitorClearPrev(t)
  BY <1>r, <1>11 DEF Janitoring, JanitorClearPrev, Janitor, Goto
<1>12. CASE JanitorUnlink(t)
  BY <1>r, <1>12 DEF Janitoring, JanitorUnlink, Janitor, Goto
<1>13. CASE JanitorCarry(t)
  BY <1>r, <1>13 DEF Janitoring, JanitorCarry, Janitor, Goto
<1>14. CASE JanitorUncarry(t)
  BY <1>r, <1>14 DEF Janitoring, JanitorUncarry, Janitor, Goto
<1> QED BY <1>1, <1>2, <1>3, <1>4, <1>5, <1>6, <1>7, <1>8, <1>9, <1>10, <1>11, <1>12, <1>13,
  <1>14 DEF JanitorStep

(* A janitor moves no call.                                                 *)
LEMMA JanitorPlaces ==
  ASSUME OrderInv, NEW t \in Threads, Shape(t), JanitorStep(t)
  PROVE  Places(t)'
<1>k. TypeOK /\ Knows(pc[t], item[t], av[t], pd[t], jn[t], op[t])
  BY RegistersTyped DEF OrderInv
<1>r. /\ pc \in [Threads -> Labels] /\ item \in [Threads -> Nodes] /\ av \in [Threads -> AdvanceFrames]
      /\ pd \in [Threads -> PayloadFrames] /\ jn \in [Threads -> JanitorFrames]
      /\ dr \in [Threads -> DropFrames] /\ op \in [Threads -> CallFrames]
      /\ strong \in [Nodes -> 0..UsizeMax] /\ UsizeMax \in Nat /\ weak \in [Nodes -> WeakWords]
      /\ mem \in [Nodes -> {"unused", "private", "live", "freed"}] /\ prev \in [Nodes -> Ptrs]
      /\ stamp \in [Nodes -> Nat] /\ next \in [Nodes -> NextWords] /\ adv \in [Nodes -> Int]
      /\ handle \in [Handles -> HandleStates]
  BY HeapAssumption DEF OrderInv, TypeOK
<1>1. pc[t] \in Janitoring /\ (pc'[t] \in Janitoring \/ pc'[t] = jn[t].ret) /\ UNCHANGED <<pd, dr>>
  BY <1>k, JanitorLabels
<1>2. pd'[t].ret = "idle"
  BY <1>k, <1>1 DEF Knows, Frames, Janitoring
<1>3. jn[t].ret \in {"dw_weak", "upd_done", "get_done"}
  BY <1>1 DEF Shape, Continues
<1> QED BY <1>1, <1>2, <1>3 DEF Places, StrongOnStart, Janitoring

(* A call begins where its handle points to.                               *)
LEMMA CallPlaces ==
  ASSUME OrderInv, NEW t \in Threads, Shape(t), Places(t), Grows, Call(t)
  PROVE  Places(t)'
<1>k. TypeOK /\ Knows(pc[t], item[t], av[t], pd[t], jn[t], op[t])
  BY RegistersTyped DEF OrderInv
<1>r. /\ pc \in [Threads -> Labels] /\ item \in [Threads -> Nodes] /\ av \in [Threads -> AdvanceFrames]
      /\ pd \in [Threads -> PayloadFrames] /\ jn \in [Threads -> JanitorFrames]
      /\ dr \in [Threads -> DropFrames] /\ op \in [Threads -> CallFrames]
      /\ strong \in [Nodes -> 0..UsizeMax] /\ UsizeMax \in Nat /\ weak \in [Nodes -> WeakWords]
      /\ mem \in [Nodes -> {"unused", "private", "live", "freed"}] /\ prev \in [Nodes -> Ptrs]
      /\ stamp \in [Nodes -> Nat] /\ next \in [Nodes -> NextWords] /\ adv \in [Nodes -> Int]
      /\ handle \in [Handles -> HandleStates]
  BY HeapAssumption DEF OrderInv, TypeOK
<1>o. ChainOrdered /\ \A h \in Handles : Published(handle[h].node)
  BY DEF OrderInv
<1>s. Shape(t) /\ Places(t) /\ Grows
  OBVIOUS
<1>1. ASSUME NEW h \in Handles, NEW o \in Handles, Clone(t, h, o)
      PROVE  Places(t)'
  <2>1. /\ Entered(t, "clone", h, o, Null)
        /\ handle[h].kind = "strong"
        /\ handle[o].kind = "none"
        /\ handle' = [handle EXCEPT ![o] = Busy]
        /\ AddStrong(handle[h].node)
        /\ Starts(t, handle[h].node, "strong", "ret")
        /\ UNCHANGED <<next, prev, weak, adv, mem, drops, jn, dr>>
    BY <1>k, <1>1, CloneEffect
  <2> QED BY <1>k, <1>o, <1>r, <1>s, <2>1, SMTT(30) DEF Entered, Starts, Busy, AddStrong,
     Places, Before, HasNext, Grows, StrongOnStart, Knows, Frames, OnChain, Shape, Continues,
     DropShape, Janitoring, Updating, Upgrading, Dying, Base, HandleKept, Published, locals,
     client, heap, CallFrames, HandleStates, AdvanceFrames, IdlePayload, PayloadFrames
<1>2. ASSUME NEW f, NEW h \in Handles, NEW o \in Handles, CloneWeak(t, f, h, o)
      PROVE  Places(t)'
  <2>1. /\ pc[t] = "idle"
        /\ handle[h].kind = IF f = "downgrade" THEN "strong" ELSE "weak"
        /\ handle[o].kind = "none"
        /\ handle' = [handle EXCEPT ![o] = [kind |-> "weak", node |-> handle[h].node]]
        /\ AddWeak(handle[h].node)
        /\ UNCHANGED <<next, prev, strong, adv, mem, drops, stamp, count, pc, locals>>
    BY <1>k, <1>2, CloneWeakEffect
  <2> QED BY <1>k, <1>o, <1>r, <1>s, <2>1, SMTT(30) DEF Entered, Starts, AddWeak, Places,
     Before, HasNext, Grows, StrongOnStart, Knows, Frames, OnChain, Shape, Continues, DropShape,
     Janitoring, Updating, Upgrading, Dying, Base, HandleKept, Published, locals, client, heap,
     CallFrames, HandleStates, AdvanceFrames, IdlePayload, PayloadFrames
<1>3. ASSUME NEW h \in Handles, NEW o \in Handles, Upgrade(t, h, o)
      PROVE  Places(t)'
  <2>1. /\ Entered(t, "upgrade", h, o, Null)
        /\ handle[h].kind = "weak"
        /\ handle[o].kind = "none"
        /\ handle' = [handle EXCEPT ![o] = Busy]
        /\ AddWeak(handle[h].node)
        /\ Starts(t, handle[h].node, "weak", "upg_strong")
        /\ UNCHANGED <<next, prev, strong, adv, mem, drops, jn, dr>>
    BY <1>k, <1>3, UpgradeEffect
  <2> QED BY <1>k, <1>o, <1>r, <1>s, <2>1, SMTT(30) DEF Entered, Starts, Busy, AddWeak, Places,
     Before, HasNext, Grows, StrongOnStart, Knows, Frames, OnChain, Shape, Continues, DropShape,
     Janitoring, Updating, Upgrading, Dying, Base, HandleKept, Published, locals, client, heap,
     CallFrames, HandleStates, AdvanceFrames, IdlePayload, PayloadFrames
<1>4. ASSUME NEW h \in Handles, Update(t, h)
      PROVE  Places(t)'
  <2>1. /\ Unused # {}
        /\ Entered(t, "update", h, h, FreshNode)
        /\ handle[h].kind = "strong"
        /\ \A u \in Threads : pc[u] # "idle" => op[u].hnd # h
        /\ handle' = [handle EXCEPT ![h] = Busy]
        /\ NewHolder(FreshNode, handle[h].node)
        /\ Starts(t, handle[h].node, "strong", "upd_next")
        /\ UNCHANGED <<next, adv, drops, jn, dr>>
    BY <1>k, <1>4, UpdateEffect
  <2>2. FreshNode \in Nodes /\ mem[FreshNode] = "unused" /\ ~Published(FreshNode)
    BY <2>1, FreshIsUnused
  <2> QED BY <1>k, <1>o, <1>r, <1>s, <2>1, <2>2, SMTT(30) DEF Entered, Starts, Busy, NewHolder,
     Places, Before, HasNext, Grows, StrongOnStart, Knows, Frames, OnChain, Shape, Continues,
     DropShape, Janitoring, Updating, Upgrading, Dying, Base, HandleKept, Published, locals,
     client, heap, CallFrames, HandleStates, AdvanceFrames, IdlePayload, PayloadFrames
<1>5. ASSUME NEW h \in Handles, Rcu(t, h)
      PROVE  Places(t)'
  <2>1. /\ Entered(t, "rcu", h, h, Null)
        /\ handle[h].kind = "strong"
        /\ \A u \in Threads : pc[u] # "idle" => op[u].hnd # h
        /\ handle' = [handle EXCEPT ![h] = Busy]
        /\ Starts(t, handle[h].node, "strong", "upd_next")
        /\ UNCHANGED <<heap, jn, dr>>
    BY <1>k, <1>5, RcuEffect
  <2> QED BY <1>k, <1>o, <1>r, <1>s, <2>1, SMTT(30) DEF Entered, Starts, Busy, Places, Before,
     HasNext, Grows, StrongOnStart, Knows, Frames, OnChain, Shape, Continues, DropShape,
     Janitoring, Updating, Upgrading, Dying, Base, HandleKept, Published, locals, client, heap,
     CallFrames, HandleStates, AdvanceFrames, IdlePayload, PayloadFrames
<1>6. ASSUME NEW f, NEW h \in Handles, DropShift(t, f, h)
      PROVE  Places(t)'
  <2>1. /\ f \in {"drop", "intoInner"}
        /\ Entered(t, f, h, h, Null)
        /\ handle[h].kind = "strong"
        /\ \A u \in Threads : pc[u] # "idle" => op[u].hnd # h
        /\ handle' = [handle EXCEPT ![h] = Busy]
        /\ Starts(t, handle[h].node, "strong", "ds_dec")
        /\ dr'[t] = [IdleDrop EXCEPT !.ret = "ret"]
        /\ UNCHANGED <<heap, jn>>
    BY <1>k, <1>6, DropShiftEffect
  <2> QED BY <1>k, <1>o, <1>r, <1>s, <2>1, SMTT(30) DEF Entered, Starts, Busy, IdleDrop, Places,
     Before, HasNext, Grows, StrongOnStart, Knows, Frames, OnChain, Shape, Continues, DropShape,
     Janitoring, Updating, Upgrading, Dying, Base, HandleKept, Published, locals, client, heap,
     CallFrames, HandleStates, AdvanceFrames, IdlePayload, PayloadFrames
<1>7. ASSUME NEW h \in Handles, DropShiftWeak(t, h)
      PROVE  Places(t)'
  <2>1. /\ Entered(t, "dropWeak", h, h, Null)
        /\ handle[h].kind = "weak"
        /\ \A u \in Threads : pc[u] # "idle" => op[u].hnd # h
        /\ handle' = [handle EXCEPT ![h] = Busy]
        /\ Starts(t, handle[h].node, "weak", "jan_lock")
        /\ jn'[t] = [IdleJanitor EXCEPT !.ret = "dw_weak"]
        /\ dr'[t] = [IdleDrop EXCEPT !.ret = "ret"]
        /\ UNCHANGED heap
    BY <1>k, <1>7, DropShiftWeakEffect
  <2> QED BY <1>k, <1>o, <1>r, <1>s, <2>1, SMTT(30) DEF Entered, Starts, Busy, IdleJanitor,
     IdleDrop, Places, Before, HasNext, Grows, StrongOnStart, Knows, Frames, OnChain, Shape,
     Continues, DropShape, Janitoring, Updating, Upgrading, Dying, Base, HandleKept, Published,
     locals, client, heap, CallFrames, HandleStates, AdvanceFrames, IdlePayload, PayloadFrames
<1>8. ASSUME NEW f, NEW h \in Handles, Reload(t, f, h)
      PROVE  Places(t)'
  <2>1. /\ f \in {"get", "reload", "tryGetMut"}
        /\ Entered(t, f, h, h, Null)
        /\ handle[h].kind = "strong"
        /\ \A u \in Threads : pc[u] # "idle" => op[u].hnd # h
        /\ handle' = [handle EXCEPT ![h] = Busy]
        /\ item'[t] = handle[h].node
        /\ pc'[t] = "get_load"
        /\ UNCHANGED <<heap, av, jn, dr>>
    BY <1>k, <1>8, ReloadEffect
  <2> QED BY <1>k, <1>o, <1>r, <1>s, <2>1, SMTT(30) DEF Entered, Starts, Busy, Places, Before,
     HasNext, Grows, StrongOnStart, Knows, Frames, OnChain, Shape, Continues, DropShape,
     Janitoring, Updating, Upgrading, Dying, Base, HandleKept, Published, locals, client, heap,
     CallFrames, HandleStates, AdvanceFrames, IdlePayload, PayloadFrames
<1>9. ASSUME NEW h \in Handles, SharedGet(t, h)
      PROVE  Places(t)'
  <2>1. /\ Entered(t, "sharedGet", h, h, Null)
        /\ handle[h].kind = "strong"
        /\ pc'[t] = "sg_load"
        /\ UNCHANGED <<heap, handle, item, av, jn, dr>>
    BY <1>k, <1>9, SharedGetEffect
  <2> QED BY <1>k, <1>o, <1>r, <1>s, <2>1, SMTT(30) DEF Entered, Starts, Places, Before,
     HasNext, Grows, StrongOnStart, Knows, Frames, OnChain, Shape, Continues, DropShape,
     Janitoring, Updating, Upgrading, Dying, Base, HandleKept, Published, locals, client, heap,
     CallFrames, HandleStates, AdvanceFrames, IdlePayload, PayloadFrames
<1> QED BY <1>1, <1>2, <1>3, <1>4, <1>5, <1>6, <1>7, <1>8, <1>9 DEF Call

-----------------------------------------------------------------------------
(* advance_count is the number of advances that have announced themselves. *)

(* The announcements at n that thread t has made.                           *)
Announced(t, n) == Ind(Walks(t, n)) + Ind(Shares(t, n))

(* A step of thread t changes the announcements by those of t.              *)
LEMMA AnnounceChange ==
  ASSUME NEW t \in Threads, NEW n, \A u \in Threads \ {t} : Still(u) /\ Shape(u), BaseKept
  PROVE  /\ Cardinality(Announcers(n)) \in Nat /\ Cardinality(Announcers(n)') \in Nat
         /\ Cardinality(Announcers(n)') - Announced(t, n)' = Cardinality(Announcers(n)) - Announced(t, n)
<1> DEFINE S == Announcers(n)
           P == Announcers(n)'
           a == <<"walk", t>>
           b == <<"share", t>>
<1>1. IsFiniteSet(S) /\ IsFiniteSet(P)
  <2>1. IsFiniteSet({<<"walk", u>> : u \in Threads}) /\ IsFiniteSet({<<"share", u>> : u \in Threads})
    BY TaggedSet, HeapAssumption
  <2>2. IsFiniteSet({<<"walk", u>> : u \in Threads} \cup {<<"share", u>> : u \in Threads})
    BY <2>1, FS_Union
  <2>3. /\ S \in SUBSET ({<<"walk", u>> : u \in Threads} \cup {<<"share", u>> : u \in Threads})
        /\ P \in SUBSET ({<<"walk", u>> : u \in Threads} \cup {<<"share", u>> : u \in Threads})
    BY DEF Announcers
  <2> HIDE DEF S, P
  <2> QED BY <2>2, <2>3, FS_Subset
<1>2. Announced(t, n) = Ind(a \in S) + Ind(b \in S)
  <2>1. (a \in S <=> Walks(t, n)) /\ (b \in S <=> Shares(t, n))
    BY DEF Announcers
  <2> QED BY <2>1 DEF Announced, Ind
<1>3. Announced(t, n)' = Ind(a \in P) + Ind(b \in P)
  <2>1. (a \in P <=> Walks(t, n)') /\ (b \in P <=> Shares(t, n)')
    BY DEF Announcers
  <2> QED BY <2>1 DEF Announced, Ind
<1>4. (S \ {a}) \ {b} = (P \ {a}) \ {b}
  <2>1. ASSUME NEW u \in Threads \ {t}
        PROVE  (Walks(u, n)' <=> Walks(u, n)) /\ (Shares(u, n)' <=> Shares(u, n))
    <3>1. pc'[u] = pc[u] /\ item'[u] = item[u] /\ dr'[u] = dr[u] /\ op'[u] = op[u]
      BY DEF Still
    <3>2. (pc[u] \in {"sg_next", "sg_strong", "sg_cas", "sg_recheck", "sg_light", "sg_dec"} \/ dr[u].ret = "sg_dec")
             => pc[u] # "idle" /\ op[u].f = "sharedGet"
      BY DEF Shape, DropShape, Dying, Janitoring
    <3>3. (pc[u] \in {"sg_next", "sg_strong", "sg_cas", "sg_recheck", "sg_light", "sg_dec"} \/ dr[u].ret = "sg_dec")
             => handle'[op[u].hnd] = handle[op[u].hnd]
      BY <3>2 DEF BaseKept
    <3> QED BY <3>1, <3>3 DEF Walks, Shares, Base
  <2> QED BY <2>1 DEF Announcers
<1>5. /\ Ind(a \in S) \in Int /\ Ind(b \in S) \in Int /\ Ind(a \in P) \in Int /\ Ind(b \in P) \in Int
      /\ Ind(b \in S \ {a}) = Ind(b \in S) /\ Ind(b \in P \ {a}) = Ind(b \in P)
  BY DEF Ind
<1> HIDE DEF S, P, a, b
<1>6. /\ Cardinality(S) \in Nat /\ Cardinality((S \ {a}) \ {b}) \in Nat
      /\ Cardinality(S) = Cardinality((S \ {a}) \ {b}) + Ind(a \in S) + Ind(b \in S)
  <2>1. IsFiniteSet(S \ {a}) /\ Cardinality(S \ {a}) \in Nat /\ Cardinality(S) \in Nat
        /\ Cardinality(S) = Cardinality(S \ {a}) + Ind(a \in S)
    BY <1>1, WithoutOne
  <2>2. /\ Cardinality((S \ {a}) \ {b}) \in Nat
        /\ Cardinality(S \ {a}) = Cardinality((S \ {a}) \ {b}) + Ind(b \in S \ {a})
    BY <2>1, WithoutOne
  <2> QED BY <1>5, <2>1, <2>2
<1>7. /\ Cardinality(P) \in Nat /\ Cardinality((P \ {a}) \ {b}) \in Nat
      /\ Cardinality(P) = Cardinality((P \ {a}) \ {b}) + Ind(a \in P) + Ind(b \in P)
  <2>1. IsFiniteSet(P \ {a}) /\ Cardinality(P \ {a}) \in Nat /\ Cardinality(P) \in Nat
        /\ Cardinality(P) = Cardinality(P \ {a}) + Ind(a \in P)
    BY <1>1, WithoutOne
  <2>2. /\ Cardinality((P \ {a}) \ {b}) \in Nat
        /\ Cardinality(P \ {a}) = Cardinality((P \ {a}) \ {b}) + Ind(b \in P \ {a})
    BY <2>1, WithoutOne
  <2> QED BY <1>5, <2>1, <2>2
<1>8. Cardinality(P) - Announced(t, n)' = Cardinality(S) - Announced(t, n)
  <2> DEFINE r == Cardinality((S \ {a}) \ {b})
  <2>1. r \in Nat /\ r = Cardinality((P \ {a}) \ {b})
    BY <1>4, <1>6
  <2> HIDE DEF r
  <2>2. Cardinality(S) = r + Announced(t, n) /\ Cardinality(P) = r + Announced(t, n)'
    BY <1>2, <1>3, <1>5, <1>6, <1>7, <2>1 DEF r
  <2>3. Announced(t, n) \in Int /\ Announced(t, n)' \in Int
    BY <1>2, <1>3, <1>5
  <2> QED BY <2>1, <2>2, <2>3
<1> QED BY <1>6, <1>7, <1>8 DEF S, P

(* What a step of t does to advance_count it announces, or takes back.      *)
Announces(t) == \A n \in Nodes : adv'[n] - Announced(t, n)' = adv[n] - Announced(t, n)

(* advance_count in a step of an advance.*)
LEMMA AdvanceAnnounces ==
  ASSUME OrderInv, NEW t \in Threads, Shape(t), BaseKept, AdvanceStep(t)
  PROVE  Announces(t)
<1>k. TypeOK /\ Knows(pc[t], item[t], av[t], pd[t], jn[t], op[t])
  BY RegistersTyped DEF OrderInv
<1>r. /\ pc \in [Threads -> Labels] /\ item \in [Threads -> Nodes] /\ av \in [Threads -> AdvanceFrames]
      /\ pd \in [Threads -> PayloadFrames] /\ jn \in [Threads -> JanitorFrames]
      /\ dr \in [Threads -> DropFrames] /\ op \in [Threads -> CallFrames]
      /\ strong \in [Nodes -> 0..UsizeMax] /\ UsizeMax \in Nat /\ weak \in [Nodes -> WeakWords]
      /\ mem \in [Nodes -> {"unused", "private", "live", "freed"}] /\ prev \in [Nodes -> Ptrs]
      /\ stamp \in [Nodes -> Nat] /\ next \in [Nodes -> NextWords] /\ adv \in [Nodes -> Int]
      /\ handle \in [Handles -> HandleStates]
  BY HeapAssumption DEF OrderInv, TypeOK
<1>s. Shape(t) /\ (pc[t] # "idle" /\ op[t].f = "sharedGet" => handle'[op[t].hnd] = handle[op[t].hnd])
  BY DEF BaseKept
<1>1. CASE AdvanceLoad(t)
  <2>1. CASE HasNext(item[t])
    BY <1>k, <1>r, <1>s, <1>1, <2>1, SMTT(30) DEF AdvanceLoad, Goto, ReturnAdvance, ReadOnly,
     IdleAdvance, AdvanceFrames, Announces, Announced, Walks, Shares, Ind, Base, Shape,
     DropShape, Continues, Knows, Frames, Dying, Janitoring, Updating, Upgrading, locals,
     client, heap, CallFrames, HandleStates
  <2>2. CASE ~HasNext(item[t]) /\ item[t] = av[t].start
    BY <1>k, <1>r, <1>s, <1>1, <2>2, SMTT(30) DEF AdvanceLoad, Goto, ReturnAdvance, ReadOnly,
     IdleAdvance, AdvanceFrames, Announces, Announced, Walks, Shares, Ind, Base, Shape,
     DropShape, Continues, Knows, Frames, Dying, Janitoring, Updating, Upgrading, locals,
     client, heap, CallFrames, HandleStates
  <2>3. CASE ~HasNext(item[t]) /\ item[t] # av[t].start
    BY <1>k, <1>r, <1>s, <1>1, <2>3, SMTT(30) DEF AdvanceLoad, Goto, ReturnAdvance, ReadOnly,
     IdleAdvance, AdvanceFrames, Announces, Announced, Walks, Shares, Ind, Base, Shape,
     DropShape, Continues, Knows, Frames, Dying, Janitoring, Updating, Upgrading, locals,
     client, heap, CallFrames, HandleStates
  <2> QED BY <2>1, <2>2, <2>3
<1>2. CASE AdvanceInc(t)
  BY <1>k, <1>r, <1>s, <1>2, SMTT(30) DEF AdvanceInc, Goto, OnlyAdv, Announces, Announced,
     Walks, Shares, Ind, Base, Shape, DropShape, Continues, Knows, Frames, Dying, Janitoring,
     Updating, Upgrading, locals, client, heap, CallFrames, HandleStates
<1>3. CASE AdvanceReload(t)
  BY <1>k, <1>r, <1>s, <1>3, SMTT(30) DEF AdvanceReload, Goto, ReadOnly, Announces, Announced,
     Walks, Shares, Ind, Base, Shape, DropShape, Continues, Knows, Frames, Dying, Janitoring,
     Updating, Upgrading, locals, client, heap, CallFrames, HandleStates
<1>4. CASE AdvanceWeakInc(t)
  BY <1>k, <1>r, <1>s, <1>4, SMTT(30) DEF AdvanceWeakInc, AddWeak, Goto, OnlyWeak, Announces,
     Announced, Walks, Shares, Ind, Base, Shape, DropShape, Continues, Knows, Frames, Dying,
     Janitoring, Updating, Upgrading, locals, client, heap, CallFrames, HandleStates
<1>5. CASE AdvanceDec(t)
  BY <1>k, <1>r, <1>s, <1>5, SMTT(30) DEF AdvanceDec, Goto, OnlyAdv, Announces, Announced,
     Walks, Shares, Ind, Base, Shape, DropShape, Continues, Knows, Frames, Dying, Janitoring,
     Updating, Upgrading, locals, client, heap, CallFrames, HandleStates
<1>6. CASE AdvanceWeakDec(t)
  BY <1>k, <1>r, <1>s, <1>6, SMTT(30) DEF AdvanceWeakDec, SubWeak, Goto, OnlyWeak, Announces,
     Announced, Walks, Shares, Ind, Base, Shape, DropShape, Continues, Knows, Frames, Dying,
     Janitoring, Updating, Upgrading, locals, client, heap, CallFrames, HandleStates
<1>7. CASE WeakLeaveStart(t)
  BY <1>k, <1>r, <1>s, <1>7, SMTT(30) DEF WeakLeaveStart, SubWeak, ReturnAdvance, OnlyWeak,
     Goto, IdleAdvance, AdvanceFrames, Announces, Announced, Walks, Shares, Ind, Base, Shape,
     DropShape, Continues, Knows, Frames, Dying, Janitoring, Updating, Upgrading, locals,
     client, heap, CallFrames, HandleStates
<1>8. CASE PayloadMark(t)
  <2>1. CASE pd[t].ret = "advs_a_decw"
    BY <1>k, <1>r, <1>s, <1>8, <2>1, SMTT(30) DEF PayloadMark, Goto, OnlyNext, IdlePayload,
     Announces, Announced, Walks, Shares, Ind, Base, Shape, DropShape, Continues, Knows, Frames,
     Dying, Janitoring, Updating, Upgrading, locals, client, heap, CallFrames, HandleStates
  <2>2. CASE pd[t].ret = "dw_cas"
    BY <1>k, <1>r, <1>s, <1>8, <2>2, SMTT(30) DEF PayloadMark, Goto, OnlyNext, IdlePayload,
     Announces, Announced, Walks, Shares, Ind, Base, Shape, DropShape, Continues, Knows, Frames,
     Dying, Janitoring, Updating, Upgrading, locals, client, heap, CallFrames, HandleStates
  <2>3. CASE pd[t].ret = "upd_decw"
    BY <1>k, <1>r, <1>s, <1>8, <2>3, SMTT(30) DEF PayloadMark, Goto, OnlyNext, IdlePayload,
     Announces, Announced, Walks, Shares, Ind, Base, Shape, DropShape, Continues, Knows, Frames,
     Dying, Janitoring, Updating, Upgrading, locals, client, heap, CallFrames, HandleStates
  <2>r. pd[t].ret \in {"advs_a_decw", "dw_cas", "upd_decw"}
    BY <1>r, <1>s, <1>8 DEF
     PayloadFrames, Shape, PayloadMark
  <2> QED BY <2>1, <2>2, <2>3, <2>r
<1>9. CASE PayloadDrop(t)
  <2>1. CASE pd[t].ret = "advs_a_decw"
    BY <1>k, <1>r, <1>s, <1>9, <2>1, SMTT(30) DEF PayloadDrop, DropPayload, Goto, IdlePayload,
     Announces, Announced, Walks, Shares, Ind, Base, Shape, DropShape, Continues, Knows, Frames,
     Dying, Janitoring, Updating, Upgrading, locals, client, heap, CallFrames, HandleStates
  <2>2. CASE pd[t].ret = "dw_cas"
    BY <1>k, <1>r, <1>s, <1>9, <2>2, SMTT(30) DEF PayloadDrop, DropPayload, Goto, IdlePayload,
     Announces, Announced, Walks, Shares, Ind, Base, Shape, DropShape, Continues, Knows, Frames,
     Dying, Janitoring, Updating, Upgrading, locals, client, heap, CallFrames, HandleStates
  <2>3. CASE pd[t].ret = "upd_decw"
    BY <1>k, <1>r, <1>s, <1>9, <2>3, SMTT(30) DEF PayloadDrop, DropPayload, Goto, IdlePayload,
     Announces, Announced, Walks, Shares, Ind, Base, Shape, DropShape, Continues, Knows, Frames,
     Dying, Janitoring, Updating, Upgrading, locals, client, heap, CallFrames, HandleStates
  <2>r. pd[t].ret \in {"advs_a_decw", "dw_cas", "upd_decw"}
    BY <1>r, <1>s, <1>9 DEF
     PayloadFrames, Shape, PayloadDrop
  <2> QED BY <2>1, <2>2, <2>3, <2>r
<1>10. CASE StrongLoad(t)
  BY <1>k, <1>r, <1>s, <1>10, SMTT(30) DEF StrongLoad, TryStrong, ReadOnly, Goto, IdleAdvance,
     AdvanceFrames, Announces, Announced, Walks, Shares, Ind, Base, Shape, DropShape, Continues,
     Knows, Frames, Dying, Janitoring, Updating, Upgrading, locals, client, heap, CallFrames,
     HandleStates
<1>11. CASE StrongIncWeak(t)
  BY <1>k, <1>r, <1>s, <1>11, SMTT(30) DEF StrongIncWeak, AddWeak, Goto, OnlyWeak, Announces,
     Announced, Walks, Shares, Ind, Base, Shape, DropShape, Continues, Knows, Frames, Dying,
     Janitoring, Updating, Upgrading, locals, client, heap, CallFrames, HandleStates
<1>12. CASE StrongCas(t)
  <2>1. CASE strong[item[t]] = av[t].cs
    BY <1>k, <1>r, <1>s, <1>12, <2>1, SMTT(30) DEF StrongCas, AddStrong, Goto, TryStrong,
     OnlyStrong, IdleAdvance, AdvanceFrames, Announces, Announced, Walks, Shares, Ind, Base,
     Shape, DropShape, Continues, Knows, Frames, Dying, Janitoring, Updating, Upgrading, locals,
     client, heap, CallFrames, HandleStates
  <2>2. CASE strong[item[t]] # av[t].cs /\ av[t].cs = 0
    BY <1>k, <1>r, <1>s, <1>12, <2>2, SMTT(30) DEF StrongCas, AddStrong, Goto, TryStrong,
     OnlyStrong, IdleAdvance, AdvanceFrames, Announces, Announced, Walks, Shares, Ind, Base,
     Shape, DropShape, Continues, Knows, Frames, Dying, Janitoring, Updating, Upgrading, locals,
     client, heap, CallFrames, HandleStates
  <2>3. CASE strong[item[t]] # av[t].cs /\ av[t].cs # 0
    BY <1>k, <1>r, <1>s, <1>12, <2>3, SMTT(30) DEF StrongCas, AddStrong, Goto, TryStrong,
     OnlyStrong, IdleAdvance, AdvanceFrames, Announces, Announced, Walks, Shares, Ind, Base,
     Shape, DropShape, Continues, Knows, Frames, Dying, Janitoring, Updating, Upgrading, locals,
     client, heap, CallFrames, HandleStates
  <2> QED BY <2>1, <2>2, <2>3
<1>13. CASE StrongRaceDecWeak(t)
  BY <1>k, <1>r, <1>s, <1>13, SMTT(30) DEF StrongRaceDecWeak, SubWeak, TryStrong, OnlyWeak,
     Goto, IdleAdvance, AdvanceFrames, Announces, Announced, Walks, Shares, Ind, Base, Shape,
     DropShape, Continues, Knows, Frames, Dying, Janitoring, Updating, Upgrading, locals,
     client, heap, CallFrames, HandleStates
<1>14. CASE StrongRecheck(t)
  BY <1>k, <1>r, <1>s, <1>14, SMTT(30) DEF StrongRecheck, Goto, ReadOnly, Announces, Announced,
     Walks, Shares, Ind, Base, Shape, DropShape, Continues, Knows, Frames, Dying, Janitoring,
     Updating, Upgrading, locals, client, heap, CallFrames, HandleStates
<1>15. CASE StrongUndo(t)
  <2>1. CASE LastStrong(item[t])
    BY <1>k, <1>r, <1>s, <1>15, <2>1, SMTT(30) DEF StrongUndo, SubStrong, Goto, RetryAdvance,
     OnlyStrong, IdleAdvance, AdvanceFrames, Announces, Announced, Walks, Shares, Ind, Base,
     Shape, DropShape, Continues, Knows, Frames, Dying, Janitoring, Updating, Upgrading, locals,
     client, heap, CallFrames, HandleStates
  <2>2. CASE ~LastStrong(item[t])
    BY <1>k, <1>r, <1>s, <1>15, <2>2, SMTT(30) DEF StrongUndo, SubStrong, Goto, RetryAdvance,
     OnlyStrong, IdleAdvance, AdvanceFrames, Announces, Announced, Walks, Shares, Ind, Base,
     Shape, DropShape, Continues, Knows, Frames, Dying, Janitoring, Updating, Upgrading, locals,
     client, heap, CallFrames, HandleStates
  <2> QED BY <2>1, <2>2
<1>16. CASE StrongUndoDecWeak(t)
  BY <1>k, <1>r, <1>s, <1>16, SMTT(30) DEF StrongUndoDecWeak, SubWeak, RetryAdvance, OnlyWeak,
     Goto, IdleAdvance, AdvanceFrames, Announces, Announced, Walks, Shares, Ind, Base, Shape,
     DropShape, Continues, Knows, Frames, Dying, Janitoring, Updating, Upgrading, locals,
     client, heap, CallFrames, HandleStates
<1>17. CASE StrongDecWeakB(t)
  BY <1>k, <1>r, <1>s, <1>17, SMTT(30) DEF StrongDecWeakB, SubWeak, Goto, OnlyWeak, Announces,
     Announced, Walks, Shares, Ind, Base, Shape, DropShape, Continues, Knows, Frames, Dying,
     Janitoring, Updating, Upgrading, locals, client, heap, CallFrames, HandleStates
<1>18. CASE StrongLeaveStart(t)
  <2>1. CASE LastStrong(av[t].start)
    BY <1>k, <1>r, <1>s, <1>18, <2>1, SMTT(30) DEF StrongLeaveStart, SubStrong,
     StartPayloadDrop, ReturnAdvance, OnlyStrong, Goto, IdleAdvance, AdvanceFrames, Announces,
     Announced, Walks, Shares, Ind, Base, Shape, DropShape, Continues, Knows, Frames, Dying,
     Janitoring, Updating, Upgrading, locals, client, heap, CallFrames, HandleStates
  <2>2. CASE ~LastStrong(av[t].start)
    BY <1>k, <1>r, <1>s, <1>18, <2>2, SMTT(30) DEF StrongLeaveStart, SubStrong,
     StartPayloadDrop, ReturnAdvance, OnlyStrong, Goto, IdleAdvance, AdvanceFrames, Announces,
     Announced, Walks, Shares, Ind, Base, Shape, DropShape, Continues, Knows, Frames, Dying,
     Janitoring, Updating, Upgrading, locals, client, heap, CallFrames, HandleStates
  <2> QED BY <2>1, <2>2
<1>19. CASE StrongDecWeakA(t)
  BY <1>k, <1>r, <1>s, <1>19, SMTT(30) DEF StrongDecWeakA, SubWeak, ReturnAdvance, OnlyWeak,
     Goto, IdleAdvance, AdvanceFrames, Announces, Announced, Walks, Shares, Ind, Base, Shape,
     DropShape, Continues, Knows, Frames, Dying, Janitoring, Updating, Upgrading, locals,
     client, heap, CallFrames, HandleStates
<1> QED BY <1>1, <1>2, <1>3, <1>4, <1>5, <1>6, <1>7, <1>8, <1>9, <1>10, <1>11, <1>12, <1>13,
  <1>14, <1>15, <1>16, <1>17, <1>18, <1>19 DEF AdvanceStep

(* advance_count in a step of a janitor.*)
LEMMA JanitorAnnounces ==
  ASSUME OrderInv, NEW t \in Threads, Shape(t), BaseKept, JanitorStep(t)
  PROVE  Announces(t)
<1>k. TypeOK /\ Knows(pc[t], item[t], av[t], pd[t], jn[t], op[t])
  BY RegistersTyped DEF OrderInv
<1>r. /\ pc \in [Threads -> Labels] /\ item \in [Threads -> Nodes] /\ av \in [Threads -> AdvanceFrames]
      /\ pd \in [Threads -> PayloadFrames] /\ jn \in [Threads -> JanitorFrames]
      /\ dr \in [Threads -> DropFrames] /\ op \in [Threads -> CallFrames]
      /\ strong \in [Nodes -> 0..UsizeMax] /\ UsizeMax \in Nat /\ weak \in [Nodes -> WeakWords]
      /\ mem \in [Nodes -> {"unused", "private", "live", "freed"}] /\ prev \in [Nodes -> Ptrs]
      /\ stamp \in [Nodes -> Nat] /\ next \in [Nodes -> NextWords] /\ adv \in [Nodes -> Int]
      /\ handle \in [Handles -> HandleStates]
  BY HeapAssumption DEF OrderInv, TypeOK
<1>s. Shape(t) /\ (pc[t] # "idle" /\ op[t].f = "sharedGet" => handle'[op[t].hnd] = handle[op[t].hnd])
  BY DEF BaseKept
<1>1. CASE JanitorLockStart(t)
  <2>1. CASE next[item[t]].locked
    <3>1. /\ pc[t] = "jan_lock"
          /\ OnlyNext
          /\ UNCHANGED <<item, av, pd, dr, op>>
          /\ Disturb(item[t])
          /\ pc'[t] = jn[t].ret
          /\ jn'[t].ret = jn[t].ret /\ ~jn'[t].rerun /\ jn'[t].status = "Indeterminate"
      BY <1>k, <1>1, <2>1, JanitorLockStartEffect
    <3> QED BY <1>k, <1>r, <1>s, <2>1, <3>1, SMTT(30) DEF Starts, OnlyNext, Disturb, Announces,
     Announced, Walks, Shares, Ind, Base, Shape, DropShape, Continues, Knows, Frames, Dying,
     Janitoring, Updating, Upgrading, locals, client, heap, CallFrames, HandleStates
  <2>2. CASE ~next[item[t]].locked
    <3>1. /\ pc[t] = "jan_lock"
          /\ OnlyNext
          /\ UNCHANGED <<item, av, pd, dr, op>>
          /\ Lock(item[t])
          /\ pc'[t] = IF prev[item[t]] = Null THEN "jan_unlock" ELSE "jan_sweep"
          /\ jn'[t].ret = jn[t].ret /\ jn'[t].cur = prev[item[t]] /\ jn'[t].cand = prev[item[t]] /\ jn'[t].fail = Null
          /\ jn'[t].rdel = Null /\ jn'[t].right = Null /\ jn'[t].carry = Null /\ jn'[t].del = Null
          /\ ~jn'[t].seen /\ ~jn'[t].rerun
      BY <1>k, <1>1, <2>2, JanitorLockStartEffect
    <3> QED BY <1>k, <1>r, <1>s, <2>2, <3>1, SMTT(30) DEF Starts, OnlyNext, Lock, Announces,
     Announced, Walks, Shares, Ind, Base, Shape, DropShape, Continues, Knows, Frames, Dying,
     Janitoring, Updating, Upgrading, locals, client, heap, CallFrames, HandleStates
  <2> QED BY <2>1, <2>2
<1>2. CASE JanitorSweep(t)
  BY <1>k, <1>r, <1>s, <1>2, SMTT(30) DEF JanitorSweep, Janitor, Disturb, Goto, Lock, OnlyNext,
     Announces, Announced, Walks, Shares, Ind, Base, Shape, DropShape, Continues, Knows, Frames,
     Dying, Janitoring, Updating, Upgrading, locals, client, heap, CallFrames, HandleStates
<1>3. CASE JanitorCleanup(t)
  BY <1>k, <1>r, <1>s, <1>3, SMTT(30) DEF JanitorCleanup, Janitor, Unlock, Goto, OnlyNext,
     Announces, Announced, Walks, Shares, Ind, Base, Shape, DropShape, Continues, Knows, Frames,
     Dying, Janitoring, Updating, Upgrading, locals, client, heap, CallFrames, HandleStates
<1>4. CASE JanitorUnlockStart(t)
  <2>1. /\ pc[t] = "jan_unlock"
        /\ OnlyNext
        /\ UNCHANGED <<item, av, pd, dr, op>>
        /\ Unlock(item[t])
        /\ pc'[t] = jn[t].ret
        /\ jn'[t].ret = jn[t].ret /\ jn'[t].rerun = (jn[t].rerun \/ next[item[t]].disturbed) /\ jn'[t].status = StrongStatus(jn[t])
    BY <1>k, <1>4, JanitorUnlockStartEffect
  <2> QED BY <1>k, <1>r, <1>s, <2>1, SMTT(30) DEF Starts, OnlyNext, Unlock, Announces,
     Announced, Walks, Shares, Ind, Base, Shape, DropShape, Continues, Knows, Frames, Dying,
     Janitoring, Updating, Upgrading, locals, client, heap, CallFrames, HandleStates
<1>5. CASE JanitorStrong(t)
  BY <1>k, <1>r, <1>s, <1>5, SMTT(30) DEF JanitorStrong, Janitor, Goto, ReadOnly, Announces,
     Announced, Walks, Shares, Ind, Base, Shape, DropShape, Continues, Knows, Frames, Dying,
     Janitoring, Updating, Upgrading, locals, client, heap, CallFrames, HandleStates
<1>6. CASE JanitorSetNext(t)
  BY <1>k, <1>r, <1>s, <1>6, SMTT(30) DEF JanitorSetNext, Janitor, SetNext, Goto, OnlyNext,
     Announces, Announced, Walks, Shares, Ind, Base, Shape, DropShape, Continues, Knows, Frames,
     Dying, Janitoring, Updating, Upgrading, locals, client, heap, CallFrames, HandleStates
<1>7. CASE JanitorCheckAdvance(t)
  BY <1>k, <1>r, <1>s, <1>7, SMTT(30) DEF JanitorCheckAdvance, Janitor, Goto, ReadOnly,
     Announces, Announced, Walks, Shares, Ind, Base, Shape, DropShape, Continues, Knows, Frames,
     Dying, Janitoring, Updating, Upgrading, locals, client, heap, CallFrames, HandleStates
<1>8. CASE JanitorFinal(t)
  BY <1>k, <1>r, <1>s, <1>8, SMTT(30) DEF JanitorFinal, Janitor, Goto, ReadOnly, Announces,
     Announced, Walks, Shares, Ind, Base, Shape, DropShape, Continues, Knows, Frames, Dying,
     Janitoring, Updating, Upgrading, locals, client, heap, CallFrames, HandleStates
<1>9. CASE JanitorDelete(t)
  BY <1>k, <1>r, <1>s, <1>9, SMTT(30) DEF JanitorDelete, Janitor, Goto, ReadOnly, Announces,
     Announced, Walks, Shares, Ind, Base, Shape, DropShape, Continues, Knows, Frames, Dying,
     Janitoring, Updating, Upgrading, locals, client, heap, CallFrames, HandleStates
<1>10. CASE JanitorFree(t)
  BY <1>k, <1>r, <1>s, <1>10, SMTT(30) DEF JanitorFree, Janitor, Deallocate, Goto, DropPayload,
     Announces, Announced, Walks, Shares, Ind, Base, Shape, DropShape, Continues, Knows, Frames,
     Dying, Janitoring, Updating, Upgrading, locals, client, heap, CallFrames, HandleStates
<1>11. CASE JanitorClearPrev(t)
  BY <1>k, <1>r, <1>s, <1>11, SMTT(30) DEF JanitorClearPrev, Janitor, Goto, OnlyWeak, Announces,
     Announced, Walks, Shares, Ind, Base, Shape, DropShape, Continues, Knows, Frames, Dying,
     Janitoring, Updating, Upgrading, locals, client, heap, CallFrames, HandleStates
<1>12. CASE JanitorUnlink(t)
  BY <1>k, <1>r, <1>s, <1>12, SMTT(30) DEF JanitorUnlink, Janitor, Goto, OnlyPrev, Announces,
     Announced, Walks, Shares, Ind, Base, Shape, DropShape, Continues, Knows, Frames, Dying,
     Janitoring, Updating, Upgrading, locals, client, heap, CallFrames, HandleStates
<1>13. CASE JanitorCarry(t)
  BY <1>k, <1>r, <1>s, <1>13, SMTT(30) DEF JanitorCarry, Janitor, ReleaseCarry, Goto, OnlyNext,
     Unlock, Announces, Announced, Walks, Shares, Ind, Base, Shape, DropShape, Continues, Knows,
     Frames, Dying, Janitoring, Updating, Upgrading, locals, client, heap, CallFrames,
     HandleStates
<1>14. CASE JanitorUncarry(t)
  BY <1>k, <1>r, <1>s, <1>14, SMTT(30) DEF JanitorUncarry, Janitor, ReleaseCarry, Goto,
     OnlyNext, Unlock, Announces, Announced, Walks, Shares, Ind, Base, Shape, DropShape,
     Continues, Knows, Frames, Dying, Janitoring, Updating, Upgrading, locals, client, heap,
     CallFrames, HandleStates
<1> QED BY <1>1, <1>2, <1>3, <1>4, <1>5, <1>6, <1>7, <1>8, <1>9, <1>10, <1>11, <1>12, <1>13,
  <1>14 DEF JanitorStep

(* advance_count in a step of a drop.*)
LEMMA DropAnnounces ==
  ASSUME OrderInv, NEW t \in Threads, Shape(t), BaseKept, DropStep(t)
  PROVE  Announces(t)
<1>k. TypeOK /\ Knows(pc[t], item[t], av[t], pd[t], jn[t], op[t])
  BY RegistersTyped DEF OrderInv
<1>r. /\ pc \in [Threads -> Labels] /\ item \in [Threads -> Nodes] /\ av \in [Threads -> AdvanceFrames]
      /\ pd \in [Threads -> PayloadFrames] /\ jn \in [Threads -> JanitorFrames]
      /\ dr \in [Threads -> DropFrames] /\ op \in [Threads -> CallFrames]
      /\ strong \in [Nodes -> 0..UsizeMax] /\ UsizeMax \in Nat /\ weak \in [Nodes -> WeakWords]
      /\ mem \in [Nodes -> {"unused", "private", "live", "freed"}] /\ prev \in [Nodes -> Ptrs]
      /\ stamp \in [Nodes -> Nat] /\ next \in [Nodes -> NextWords] /\ adv \in [Nodes -> Int]
      /\ handle \in [Handles -> HandleStates]
  BY HeapAssumption DEF OrderInv, TypeOK
<1>s. Shape(t) /\ (pc[t] # "idle" /\ op[t].f = "sharedGet" => handle'[op[t].hnd] = handle[op[t].hnd])
  BY DEF BaseKept
<1>1. CASE DropStrongDec(t)
  <2>1. CASE LastStrong(item[t])
    <3>1. /\ pc[t] = "ds_dec"
          /\ SubStrong(item[t])
          /\ OnlyStrong
          /\ UNCHANGED <<pd, op>>
          /\ Starts(t, item[t], "weak", "jan_lock")
          /\ jn'[t] = [IdleJanitor EXCEPT !.ret = "dw_weak"]
          /\ dr'[t] = [IdleDrop EXCEPT !.ret = dr[t].ret]
      BY <1>k, <1>1, <2>1, DropStrongDecEffect
    <3> QED BY <1>k, <1>r, <1>s, <2>1, <3>1, SMTT(30) DEF Starts, SubStrong, OnlyStrong,
     IdleJanitor, IdleDrop, Announces, Announced, Walks, Shares, Ind, Base, Shape, DropShape,
     Continues, Knows, Frames, Dying, Janitoring, Updating, Upgrading, locals, client, heap,
     CallFrames, HandleStates
  <2>2. CASE ~LastStrong(item[t])
    <3>1. /\ pc[t] = "ds_dec"
          /\ SubStrong(item[t])
          /\ OnlyStrong
          /\ UNCHANGED <<pd, op>>
          /\ pc'[t] = dr[t].ret
          /\ dr'[t] = IdleDrop
          /\ jn'[t] = IdleJanitor
          /\ UNCHANGED <<item, av>>
      BY <1>k, <1>1, <2>2, DropStrongDecEffect
    <3>3. CASE dr[t].ret = "ret"
      BY <1>k, <1>r, <1>s, <2>2, <3>1, <3>3, SMTT(30) DEF Starts, SubStrong, OnlyStrong,
     IdleDrop, IdleJanitor, Announces, Announced, Walks, Shares, Ind, Base, Shape, DropShape,
     Continues, Knows, Frames, Dying, Janitoring, Updating, Upgrading, locals, client, heap,
     CallFrames, HandleStates
    <3>4. CASE dr[t].ret = "sg_dec"
      BY <1>k, <1>r, <1>s, <2>2, <3>1, <3>4, SMTT(30) DEF Starts, SubStrong, OnlyStrong,
     IdleDrop, IdleJanitor, Announces, Announced, Walks, Shares, Ind, Base, Shape, DropShape,
     Continues, Knows, Frames, Dying, Janitoring, Updating, Upgrading, locals, client, heap,
     CallFrames, HandleStates
    <3>9. dr[t].ret = "ret" \/ dr[t].ret = "sg_dec"
      BY <1>k, <1>r, <1>s, <3>1, <2>2 DEF DropFrames, Shape, Dying, CallFrames, Continues,
     Janitoring
    <3> QED BY <3>3, <3>4, <3>9
  <2> QED BY <2>1, <2>2
<1>2. CASE DropWeakLoad(t)
  <2>1. CASE jn[t].rerun
    <3>1. /\ pc[t] = "dw_weak"
          /\ ReadOnly
          /\ UNCHANGED <<pd, op>>
          /\ Starts(t, item[t], "weak", "jan_lock")
          /\ jn'[t] = [IdleJanitor EXCEPT !.ret = "dw_weak"]
          /\ UNCHANGED dr
      BY <1>k, <1>2, <2>1, DropWeakLoadEffect
    <3> QED BY <1>k, <1>r, <1>s, <2>1, <3>1, SMTT(30) DEF Starts, ReadOnly, IdleJanitor,
     Announces, Announced, Walks, Shares, Ind, Base, Shape, DropShape, Continues, Knows, Frames,
     Dying, Janitoring, Updating, Upgrading, locals, client, heap, CallFrames, HandleStates
  <2>2. CASE ~jn[t].rerun
    <3>1. /\ pc[t] = "dw_weak"
          /\ ReadOnly
          /\ UNCHANGED <<pd, op>>
          /\ pc'[t] = "dw_next"
          /\ dr'[t] = [dr[t] EXCEPT !.ww = weak[item[t]]]
          /\ UNCHANGED <<item, av, jn>>
      BY <1>k, <1>2, <2>2, DropWeakLoadEffect
    <3> QED BY <1>k, <1>r, <1>s, <2>2, <3>1, SMTT(30) DEF Starts, ReadOnly, Announces,
     Announced, Walks, Shares, Ind, Base, Shape, DropShape, Continues, Knows, Frames, Dying,
     Janitoring, Updating, Upgrading, locals, client, heap, CallFrames, HandleStates
  <2> QED BY <2>1, <2>2
<1>3. CASE DropWeakNext(t)
  <2>1. CASE HasNext(item[t])
    <3>1. /\ pc[t] = "dw_next"
          /\ ReadOnly
          /\ UNCHANGED <<pd, op>>
          /\ Starts(t, item[t], "weak", "jan_lock")
          /\ jn'[t] = [IdleJanitor EXCEPT !.ret = "dw_weak"]
          /\ dr'[t] = [IdleDrop EXCEPT !.ret = dr[t].ret]
      BY <1>k, <1>3, <2>1, DropWeakNextEffect
    <3> QED BY <1>k, <1>r, <1>s, <2>1, <3>1, SMTT(30) DEF Starts, ReadOnly, IdleJanitor,
     IdleDrop, Announces, Announced, Walks, Shares, Ind, Base, Shape, DropShape, Continues,
     Knows, Frames, Dying, Janitoring, Updating, Upgrading, locals, client, heap, CallFrames,
     HandleStates
  <2>2. CASE ~HasNext(item[t])
    <3>1. /\ pc[t] = "dw_next"
          /\ ReadOnly
          /\ UNCHANGED <<pd, op>>
          /\ pc'[t] = IF jn[t].status = "NoStrongRefsExist" THEN "dw_claim" ELSE "dw_cas"
          /\ UNCHANGED <<item, av, jn, dr>>
      BY <1>k, <1>3, <2>2, DropWeakNextEffect
    <3> QED BY <1>k, <1>r, <1>s, <2>2, <3>1, SMTT(30) DEF Starts, ReadOnly, Announces,
     Announced, Walks, Shares, Ind, Base, Shape, DropShape, Continues, Knows, Frames, Dying,
     Janitoring, Updating, Upgrading, locals, client, heap, CallFrames, HandleStates
  <2> QED BY <2>1, <2>2
<1>4. CASE ClaimTeardown(t)
  BY <1>k, <1>r, <1>s, <1>4, SMTT(30) DEF ClaimTeardown, StartPayloadDrop, Goto, OnlyStrong,
     Announces, Announced, Walks, Shares, Ind, Base, Shape, DropShape, Continues, Knows, Frames,
     Dying, Janitoring, Updating, Upgrading, locals, client, heap, CallFrames, HandleStates
<1>5. CASE DropWeakCas(t)
  <2>1. CASE ~SameWeakWord(item[t], dr[t].ww)
    <3>1. /\ pc[t] = "dw_cas"
          /\ OnlyWeak
          /\ UNCHANGED <<pd, op>>
          /\ Starts(t, item[t], "weak", "jan_lock")
          /\ jn'[t] = [IdleJanitor EXCEPT !.ret = "dw_weak"]
          /\ dr'[t] = [IdleDrop EXCEPT !.ret = dr[t].ret]
          /\ UNCHANGED weak
      BY <1>k, <1>5, <2>1, DropWeakCasEffect
    <3> QED BY <1>k, <1>r, <1>s, <2>1, <3>1, SMTT(30) DEF Starts, OnlyWeak, IdleJanitor,
     IdleDrop, Announces, Announced, Walks, Shares, Ind, Base, Shape, DropShape, Continues,
     Knows, Frames, Dying, Janitoring, Updating, Upgrading, locals, client, heap, CallFrames,
     HandleStates
  <2>2. CASE SameWeakWord(item[t], dr[t].ww) /\ SoleUser(dr[t].ww)
    <3>1. /\ pc[t] = "dw_cas"
          /\ OnlyWeak
          /\ UNCHANGED <<pd, op>>
          /\ SubWeak(item[t])
          /\ pc'[t] = "dw_free"
          /\ UNCHANGED <<item, av, jn, dr>>
      BY <1>k, <1>5, <2>2, DropWeakCasEffect
    <3> QED BY <1>k, <1>r, <1>s, <2>2, <3>1, SMTT(30) DEF Starts, OnlyWeak, SubWeak, Announces,
     Announced, Walks, Shares, Ind, Base, Shape, DropShape, Continues, Knows, Frames, Dying,
     Janitoring, Updating, Upgrading, locals, client, heap, CallFrames, HandleStates
  <2>3. CASE SameWeakWord(item[t], dr[t].ww) /\ ~SoleUser(dr[t].ww)
    <3>1. /\ pc[t] = "dw_cas"
          /\ OnlyWeak
          /\ UNCHANGED <<pd, op>>
          /\ SubWeak(item[t])
          /\ pc'[t] = dr[t].ret
          /\ dr'[t] = IdleDrop
          /\ jn'[t] = IdleJanitor
          /\ UNCHANGED <<item, av>>
      BY <1>k, <1>5, <2>3, DropWeakCasEffect
    <3>3. CASE dr[t].ret = "ret"
      BY <1>k, <1>r, <1>s, <2>3, <3>1, <3>3, SMTT(30) DEF Starts, OnlyWeak, SubWeak, IdleDrop,
     IdleJanitor, Announces, Announced, Walks, Shares, Ind, Base, Shape, DropShape, Continues,
     Knows, Frames, Dying, Janitoring, Updating, Upgrading, locals, client, heap, CallFrames,
     HandleStates
    <3>4. CASE dr[t].ret = "sg_dec"
      BY <1>k, <1>r, <1>s, <2>3, <3>1, <3>4, SMTT(30) DEF Starts, OnlyWeak, SubWeak, IdleDrop,
     IdleJanitor, Announces, Announced, Walks, Shares, Ind, Base, Shape, DropShape, Continues,
     Knows, Frames, Dying, Janitoring, Updating, Upgrading, locals, client, heap, CallFrames,
     HandleStates
    <3>9. dr[t].ret = "ret" \/ dr[t].ret = "sg_dec"
      BY <1>k, <1>r, <1>s, <3>1, <2>3 DEF DropFrames, Shape, Dying, CallFrames, Continues,
     Janitoring
    <3> QED BY <3>3, <3>4, <3>9
  <2> QED BY <2>1, <2>2, <2>3
<1>6. CASE DropWeakFree(t)
  <2>1. /\ pc[t] = "dw_free"
        /\ mem' = [mem EXCEPT ![item[t]] = "freed"]
        /\ drops' = IF next[item[t]].dropped THEN drops ELSE [drops EXCEPT ![item[t]] = @ + 1]
        /\ UNCHANGED <<next, prev, strong, weak, adv, client, pd>>
        /\ op'[t].f = op[t].f /\ op'[t].ok = op[t].ok /\ op'[t].guard = op[t].guard /\ op'[t].hnd = op[t].hnd /\ op'[t].out = op[t].out
        /\ pc'[t] = dr[t].ret
        /\ dr'[t] = IdleDrop
        /\ jn'[t] = IdleJanitor
        /\ UNCHANGED <<item, av>>
    BY <1>k, <1>6, DropWeakFreeEffect
  <2>3. CASE dr[t].ret = "ret"
    BY <1>k, <1>r, <1>s, <2>1, <2>3, SMTT(30) DEF Starts, IdleDrop, IdleJanitor, Announces,
     Announced, Walks, Shares, Ind, Base, Shape, DropShape, Continues, Knows, Frames, Dying,
     Janitoring, Updating, Upgrading, locals, client, heap, CallFrames, HandleStates
  <2>4. CASE dr[t].ret = "sg_dec"
    BY <1>k, <1>r, <1>s, <2>1, <2>4, SMTT(30) DEF Starts, IdleDrop, IdleJanitor, Announces,
     Announced, Walks, Shares, Ind, Base, Shape, DropShape, Continues, Knows, Frames, Dying,
     Janitoring, Updating, Upgrading, locals, client, heap, CallFrames, HandleStates
  <2>9. dr[t].ret = "ret" \/ dr[t].ret = "sg_dec"
    BY <1>k, <1>r, <1>s, <2>1 DEF DropFrames, Shape, Dying, CallFrames, Continues, Janitoring
  <2> QED BY <2>3, <2>4, <2>9
<1> QED BY <1>1, <1>2, <1>3, <1>4, <1>5, <1>6 DEF DropStep

(* advance_count in a step of an update.*)
LEMMA UpdateAnnounces ==
  ASSUME OrderInv, NEW t \in Threads, Shape(t), BaseKept, UpdateStep(t)
  PROVE  Announces(t)
<1>k. TypeOK /\ Knows(pc[t], item[t], av[t], pd[t], jn[t], op[t])
  BY RegistersTyped DEF OrderInv
<1>r. /\ pc \in [Threads -> Labels] /\ item \in [Threads -> Nodes] /\ av \in [Threads -> AdvanceFrames]
      /\ pd \in [Threads -> PayloadFrames] /\ jn \in [Threads -> JanitorFrames]
      /\ dr \in [Threads -> DropFrames] /\ op \in [Threads -> CallFrames]
      /\ strong \in [Nodes -> 0..UsizeMax] /\ UsizeMax \in Nat /\ weak \in [Nodes -> WeakWords]
      /\ mem \in [Nodes -> {"unused", "private", "live", "freed"}] /\ prev \in [Nodes -> Ptrs]
      /\ stamp \in [Nodes -> Nat] /\ next \in [Nodes -> NextWords] /\ adv \in [Nodes -> Int]
      /\ handle \in [Handles -> HandleStates]
  BY HeapAssumption DEF OrderInv, TypeOK
<1>s. Shape(t) /\ (pc[t] # "idle" /\ op[t].f = "sharedGet" => handle'[op[t].hnd] = handle[op[t].hnd])
  BY DEF BaseKept
<1>1. CASE UpdateNext(t)
  <2>1. CASE HasNext(item[t])
    <3>1. /\ pc[t] = "upd_next"
          /\ UNCHANGED <<client, pd, jn, dr>>
          /\ UNCHANGED <<next, adv, drops>>
          /\ Starts(t, item[t], "strong", "upd_next")
          /\ UNCHANGED <<heap, op>>
      BY <1>k, <1>1, <2>1, UpdateNextEffect
    <3> QED BY <1>k, <1>r, <1>s, <2>1, <3>1, SMTT(30) DEF Starts, Announces, Announced, Walks,
     Shares, Ind, Base, Shape, DropShape, Continues, Knows, Frames, Dying, Janitoring, Updating,
     Upgrading, locals, client, heap, CallFrames, HandleStates
  <2>2. CASE ~HasNext(item[t]) /\ op[t].val # Null
    <3>1. /\ pc[t] = "upd_next"
          /\ UNCHANGED <<client, pd, jn, dr>>
          /\ UNCHANGED <<next, adv, drops>>
          /\ pc'[t] = "upd_weak"
          /\ op'[t] = [op[t] EXCEPT !.nw = next[item[t]]]
          /\ prev' = [prev EXCEPT ![op[t].val] = item[t]]
          /\ UNCHANGED <<strong, weak, mem, item, av>>
      BY <1>k, <1>1, <2>2, UpdateNextEffect
    <3> QED BY <1>k, <1>r, <1>s, <2>2, <3>1, SMTT(30) DEF Starts, Announces, Announced, Walks,
     Shares, Ind, Base, Shape, DropShape, Continues, Knows, Frames, Dying, Janitoring, Updating,
     Upgrading, locals, client, heap, CallFrames, HandleStates
  <2>3. CASE ~HasNext(item[t]) /\ op[t].val = Null
    <3>1. /\ pc[t] = "upd_next"
          /\ UNCHANGED <<client, pd, jn, dr>>
          /\ UNCHANGED <<next, adv, drops>>
          /\ Unused # {}
          /\ pc'[t] = "upd_weak"
          /\ op'[t] = [op[t] EXCEPT !.val = FreshNode, !.nw = next[item[t]]]
          /\ NewHolder(FreshNode, item[t])
          /\ UNCHANGED <<item, av>>
      BY <1>k, <1>1, <2>3, UpdateNextEffect
    <3>2. FreshNode \in Nodes /\ mem[FreshNode] = "unused" /\ ~Published(FreshNode)
      BY <3>1, FreshIsUnused
    <3> QED BY <1>k, <1>r, <1>s, <2>3, <3>1, <3>2, SMTT(30) DEF Starts, NewHolder, Announces,
     Announced, Walks, Shares, Ind, Base, Shape, DropShape, Continues, Knows, Frames, Dying,
     Janitoring, Updating, Upgrading, locals, client, heap, CallFrames, HandleStates
  <2> QED BY <2>1, <2>2, <2>3
<1>2. CASE RcuCancel(t)
  BY <1>k, <1>r, <1>s, <1>2, SMTT(30) DEF RcuCancel, Goto, Announces, Announced, Walks, Shares,
     Ind, Base, Shape, DropShape, Continues, Knows, Frames, Dying, Janitoring, Updating,
     Upgrading, locals, client, heap, CallFrames, HandleStates
<1>3. CASE UpdateWeakInc(t)
  BY <1>k, <1>r, <1>s, <1>3, SMTT(30) DEF UpdateWeakInc, AddWeak, Goto, OnlyWeak, Announces,
     Announced, Walks, Shares, Ind, Base, Shape, DropShape, Continues, Knows, Frames, Dying,
     Janitoring, Updating, Upgrading, locals, client, heap, CallFrames, HandleStates
<1>4. CASE UpdateCas(t)
  <2>1. CASE CanLink(item[t], op[t].nw)
    BY <1>k, <1>r, <1>s, <1>4, <2>1, SMTT(30) DEF UpdateCas, SetNext, Publish, Goto, Announces,
     Announced, Walks, Shares, Ind, Base, Shape, DropShape, Continues, Knows, Frames, Dying,
     Janitoring, Updating, Upgrading, locals, client, heap, CallFrames, HandleStates
  <2>2. CASE ~CanLink(item[t], op[t].nw)
    BY <1>k, <1>r, <1>s, <1>4, <2>2, SMTT(30) DEF UpdateCas, SetNext, Publish, Goto, Announces,
     Announced, Walks, Shares, Ind, Base, Shape, DropShape, Continues, Knows, Frames, Dying,
     Janitoring, Updating, Upgrading, locals, client, heap, CallFrames, HandleStates
  <2> QED BY <2>1, <2>2
<1>5. CASE UpdateFail(t)
  <2>1. /\ pc[t] = "upd_fail"
        /\ SubWeak(item[t])
        /\ OnlyWeak
        /\ UNCHANGED <<pd, jn, dr, op>>
        /\ Starts(t, item[t], "strong", "upd_next")
    BY <1>k, <1>5, UpdateFailEffect
  <2> QED BY <1>k, <1>r, <1>s, <2>1, SMTT(30) DEF Starts, SubWeak, OnlyWeak, Announces,
     Announced, Walks, Shares, Ind, Base, Shape, DropShape, Continues, Knows, Frames, Dying,
     Janitoring, Updating, Upgrading, locals, client, heap, CallFrames, HandleStates
<1>6. CASE UpdateMark(t)
  BY <1>k, <1>r, <1>s, <1>6, SMTT(30) DEF UpdateMark, Goto, OnlyWeak, Announces, Announced,
     Walks, Shares, Ind, Base, Shape, DropShape, Continues, Knows, Frames, Dying, Janitoring,
     Updating, Upgrading, locals, client, heap, CallFrames, HandleStates
<1>7. CASE UpdateDec(t)
  <2>1. CASE LastStrong(item[t])
    BY <1>k, <1>r, <1>s, <1>7, <2>1, SMTT(30) DEF UpdateDec, SubStrong, StartPayloadDrop, Goto,
     OnlyStrong, Announces, Announced, Walks, Shares, Ind, Base, Shape, DropShape, Continues,
     Knows, Frames, Dying, Janitoring, Updating, Upgrading, locals, client, heap, CallFrames,
     HandleStates
  <2>2. CASE ~LastStrong(item[t])
    BY <1>k, <1>r, <1>s, <1>7, <2>2, SMTT(30) DEF UpdateDec, SubStrong, StartPayloadDrop, Goto,
     OnlyStrong, Announces, Announced, Walks, Shares, Ind, Base, Shape, DropShape, Continues,
     Knows, Frames, Dying, Janitoring, Updating, Upgrading, locals, client, heap, CallFrames,
     HandleStates
  <2> QED BY <2>1, <2>2
<1>8. CASE UpdateDecWeak(t)
  BY <1>k, <1>r, <1>s, <1>8, SMTT(30) DEF UpdateDecWeak, SubWeak, Goto, OnlyWeak, Announces,
     Announced, Walks, Shares, Ind, Base, Shape, DropShape, Continues, Knows, Frames, Dying,
     Janitoring, Updating, Upgrading, locals, client, heap, CallFrames, HandleStates
<1>9. CASE UpdateDone(t)
  <2>1. CASE jn[t].rerun
    <3>1. /\ pc[t] = "upd_done"
          /\ ReadOnly
          /\ UNCHANGED <<pd, jn, dr, op>>
          /\ Starts(t, item[t], "strong", "jan_lock")
      BY <1>k, <1>9, <2>1, UpdateDoneEffect
    <3> QED BY <1>k, <1>r, <1>s, <2>1, <3>1, SMTT(30) DEF Starts, ReadOnly, Announces,
     Announced, Walks, Shares, Ind, Base, Shape, DropShape, Continues, Knows, Frames, Dying,
     Janitoring, Updating, Upgrading, locals, client, heap, CallFrames, HandleStates
  <2>2. CASE ~jn[t].rerun
    <3>1. /\ pc[t] = "upd_done"
          /\ ReadOnly
          /\ UNCHANGED <<pd, jn, dr, op>>
          /\ pc'[t] = "ret"
          /\ UNCHANGED <<item, av>>
      BY <1>k, <1>9, <2>2, UpdateDoneEffect
    <3> QED BY <1>k, <1>r, <1>s, <2>2, <3>1, SMTT(30) DEF Starts, ReadOnly, Announces,
     Announced, Walks, Shares, Ind, Base, Shape, DropShape, Continues, Knows, Frames, Dying,
     Janitoring, Updating, Upgrading, locals, client, heap, CallFrames, HandleStates
  <2> QED BY <2>1, <2>2
<1> QED BY <1>1, <1>2, <1>3, <1>4, <1>5, <1>6, <1>7, <1>8, <1>9 DEF UpdateStep

(* advance_count in a step of an upgrade.*)
LEMMA UpgradeAnnounces ==
  ASSUME OrderInv, NEW t \in Threads, Shape(t), BaseKept, UpgradeStep(t)
  PROVE  Announces(t)
<1>k. TypeOK /\ Knows(pc[t], item[t], av[t], pd[t], jn[t], op[t])
  BY RegistersTyped DEF OrderInv
<1>r. /\ pc \in [Threads -> Labels] /\ item \in [Threads -> Nodes] /\ av \in [Threads -> AdvanceFrames]
      /\ pd \in [Threads -> PayloadFrames] /\ jn \in [Threads -> JanitorFrames]
      /\ dr \in [Threads -> DropFrames] /\ op \in [Threads -> CallFrames]
      /\ strong \in [Nodes -> 0..UsizeMax] /\ UsizeMax \in Nat /\ weak \in [Nodes -> WeakWords]
      /\ mem \in [Nodes -> {"unused", "private", "live", "freed"}] /\ prev \in [Nodes -> Ptrs]
      /\ stamp \in [Nodes -> Nat] /\ next \in [Nodes -> NextWords] /\ adv \in [Nodes -> Int]
      /\ handle \in [Handles -> HandleStates]
  BY HeapAssumption DEF OrderInv, TypeOK
<1>s. Shape(t) /\ (pc[t] # "idle" /\ op[t].f = "sharedGet" => handle'[op[t].hnd] = handle[op[t].hnd])
  BY DEF BaseKept
<1>1. CASE UpgradeLoadStrong(t)
  BY <1>k, <1>r, <1>s, <1>1, SMTT(30) DEF UpgradeLoadStrong, Goto, ReadOnly, Announces,
     Announced, Walks, Shares, Ind, Base, Shape, DropShape, Continues, Knows, Frames, Dying,
     Janitoring, Updating, Upgrading, locals, client, heap, CallFrames, HandleStates
<1>2. CASE UpgradeLoadNext(t)
  <2>1. CASE HasNext(item[t])
    <3>1. /\ pc[t] = "upg_next"
          /\ ReadOnly
          /\ UNCHANGED pd
          /\ Starts(t, item[t], "weak", "upg_strong")
          /\ UNCHANGED <<jn, dr, op>>
      BY <1>k, <1>2, <2>1, UpgradeLoadNextEffect
    <3> QED BY <1>k, <1>r, <1>s, <2>1, <3>1, SMTT(30) DEF Starts, ReadOnly, Announces,
     Announced, Walks, Shares, Ind, Base, Shape, DropShape, Continues, Knows, Frames, Dying,
     Janitoring, Updating, Upgrading, locals, client, heap, CallFrames, HandleStates
  <2>2. CASE ~HasNext(item[t]) /\ ValueIsGone(item[t], op[t].cs)
    <3>1. /\ pc[t] = "upg_next"
          /\ ReadOnly
          /\ UNCHANGED pd
          /\ Starts(t, item[t], "weak", "jan_lock")
          /\ jn'[t] = [IdleJanitor EXCEPT !.ret = "dw_weak"]
          /\ dr'[t] = [IdleDrop EXCEPT !.ret = "ret"]
          /\ op'[t] = [op[t] EXCEPT !.ok = FALSE]
      BY <1>k, <1>2, <2>2, UpgradeLoadNextEffect
    <3> QED BY <1>k, <1>r, <1>s, <2>2, <3>1, SMTT(30) DEF Starts, ReadOnly, IdleJanitor,
     IdleDrop, Announces, Announced, Walks, Shares, Ind, Base, Shape, DropShape, Continues,
     Knows, Frames, Dying, Janitoring, Updating, Upgrading, locals, client, heap, CallFrames,
     HandleStates
  <2>3. CASE ~HasNext(item[t]) /\ ~ValueIsGone(item[t], op[t].cs)
    <3>1. /\ pc[t] = "upg_next"
          /\ ReadOnly
          /\ UNCHANGED pd
          /\ pc'[t] = IF op[t].cs = 0 THEN "upg_incw" ELSE "upg_cas"
          /\ UNCHANGED <<item, av, jn, dr, op>>
      BY <1>k, <1>2, <2>3, UpgradeLoadNextEffect
    <3> QED BY <1>k, <1>r, <1>s, <2>3, <3>1, SMTT(30) DEF Starts, ReadOnly, Announces,
     Announced, Walks, Shares, Ind, Base, Shape, DropShape, Continues, Knows, Frames, Dying,
     Janitoring, Updating, Upgrading, locals, client, heap, CallFrames, HandleStates
  <2> QED BY <2>1, <2>2, <2>3
<1>3. CASE UpgradeIncWeak(t)
  BY <1>k, <1>r, <1>s, <1>3, SMTT(30) DEF UpgradeIncWeak, AddWeak, Goto, OnlyWeak, Announces,
     Announced, Walks, Shares, Ind, Base, Shape, DropShape, Continues, Knows, Frames, Dying,
     Janitoring, Updating, Upgrading, locals, client, heap, CallFrames, HandleStates
<1>4. CASE UpgradeCas(t)
  <2>1. CASE strong[item[t]] = op[t].cs
    <3>1. /\ pc[t] = "upg_cas"
          /\ OnlyStrong
          /\ UNCHANGED <<pd, jn, dr, op>>
          /\ AddStrong(item[t])
          /\ pc'[t] = "upg_check"
          /\ UNCHANGED <<item, av>>
      BY <1>k, <1>4, <2>1, UpgradeCasEffect
    <3> QED BY <1>k, <1>r, <1>s, <2>1, <3>1, SMTT(30) DEF Starts, OnlyStrong, AddStrong,
     Announces, Announced, Walks, Shares, Ind, Base, Shape, DropShape, Continues, Knows, Frames,
     Dying, Janitoring, Updating, Upgrading, locals, client, heap, CallFrames, HandleStates
  <2>2. CASE strong[item[t]] # op[t].cs /\ op[t].cs = 0
    <3>1. /\ pc[t] = "upg_cas"
          /\ OnlyStrong
          /\ UNCHANGED <<pd, jn, dr, op>>
          /\ pc'[t] = "upg_race"
          /\ UNCHANGED <<strong, item, av>>
      BY <1>k, <1>4, <2>2, UpgradeCasEffect
    <3> QED BY <1>k, <1>r, <1>s, <2>2, <3>1, SMTT(30) DEF Starts, OnlyStrong, Announces,
     Announced, Walks, Shares, Ind, Base, Shape, DropShape, Continues, Knows, Frames, Dying,
     Janitoring, Updating, Upgrading, locals, client, heap, CallFrames, HandleStates
  <2>3. CASE strong[item[t]] # op[t].cs /\ op[t].cs # 0
    <3>1. /\ pc[t] = "upg_cas"
          /\ OnlyStrong
          /\ UNCHANGED <<pd, jn, dr, op>>
          /\ Starts(t, item[t], "weak", "upg_strong")
          /\ UNCHANGED strong
      BY <1>k, <1>4, <2>3, UpgradeCasEffect
    <3> QED BY <1>k, <1>r, <1>s, <2>3, <3>1, SMTT(30) DEF Starts, OnlyStrong, Announces,
     Announced, Walks, Shares, Ind, Base, Shape, DropShape, Continues, Knows, Frames, Dying,
     Janitoring, Updating, Upgrading, locals, client, heap, CallFrames, HandleStates
  <2> QED BY <2>1, <2>2, <2>3
<1>5. CASE UpgradeRaceDecWeak(t)
  <2>1. /\ pc[t] = "upg_race"
        /\ SubWeak(item[t])
        /\ OnlyWeak
        /\ UNCHANGED <<pd, jn, dr, op>>
        /\ Starts(t, item[t], "weak", "upg_strong")
    BY <1>k, <1>5, UpgradeRaceDecWeakEffect
  <2> QED BY <1>k, <1>r, <1>s, <2>1, SMTT(30) DEF Starts, SubWeak, OnlyWeak, Announces,
     Announced, Walks, Shares, Ind, Base, Shape, DropShape, Continues, Knows, Frames, Dying,
     Janitoring, Updating, Upgrading, locals, client, heap, CallFrames, HandleStates
<1>6. CASE UpgradeCheck(t)
  BY <1>k, <1>r, <1>s, <1>6, SMTT(30) DEF UpgradeCheck, Goto, ReadOnly, Announces, Announced,
     Walks, Shares, Ind, Base, Shape, DropShape, Continues, Knows, Frames, Dying, Janitoring,
     Updating, Upgrading, locals, client, heap, CallFrames, HandleStates
<1>7. CASE UpgradeUndo(t)
  <2>1. CASE LastStrong(item[t])
    <3>1. /\ pc[t] = "upg_undo"
          /\ SubStrong(item[t])
          /\ OnlyStrong
          /\ UNCHANGED <<pd, jn, dr, op>>
          /\ pc'[t] = "upg_undo_decw"
          /\ UNCHANGED <<item, av>>
      BY <1>k, <1>7, <2>1, UpgradeUndoEffect
    <3> QED BY <1>k, <1>r, <1>s, <2>1, <3>1, SMTT(30) DEF Starts, SubStrong, OnlyStrong,
     Announces, Announced, Walks, Shares, Ind, Base, Shape, DropShape, Continues, Knows, Frames,
     Dying, Janitoring, Updating, Upgrading, locals, client, heap, CallFrames, HandleStates
  <2>2. CASE ~LastStrong(item[t])
    <3>1. /\ pc[t] = "upg_undo"
          /\ SubStrong(item[t])
          /\ OnlyStrong
          /\ UNCHANGED <<pd, jn, dr, op>>
          /\ Starts(t, item[t], "weak", "upg_strong")
      BY <1>k, <1>7, <2>2, UpgradeUndoEffect
    <3> QED BY <1>k, <1>r, <1>s, <2>2, <3>1, SMTT(30) DEF Starts, SubStrong, OnlyStrong,
     Announces, Announced, Walks, Shares, Ind, Base, Shape, DropShape, Continues, Knows, Frames,
     Dying, Janitoring, Updating, Upgrading, locals, client, heap, CallFrames, HandleStates
  <2> QED BY <2>1, <2>2
<1>8. CASE UpgradeUndoDecWeak(t)
  <2>1. /\ pc[t] = "upg_undo_decw"
        /\ SubWeak(item[t])
        /\ OnlyWeak
        /\ UNCHANGED <<pd, jn, dr, op>>
        /\ Starts(t, item[t], "weak", "upg_strong")
    BY <1>k, <1>8, UpgradeUndoDecWeakEffect
  <2> QED BY <1>k, <1>r, <1>s, <2>1, SMTT(30) DEF Starts, SubWeak, OnlyWeak, Announces,
     Announced, Walks, Shares, Ind, Base, Shape, DropShape, Continues, Knows, Frames, Dying,
     Janitoring, Updating, Upgrading, locals, client, heap, CallFrames, HandleStates
<1>9. CASE UpgradeDone(t)
  BY <1>k, <1>r, <1>s, <1>9, SMTT(30) DEF UpgradeDone, SubWeak, Goto, OnlyWeak, Announces,
     Announced, Walks, Shares, Ind, Base, Shape, DropShape, Continues, Knows, Frames, Dying,
     Janitoring, Updating, Upgrading, locals, client, heap, CallFrames, HandleStates
<1> QED BY <1>1, <1>2, <1>3, <1>4, <1>5, <1>6, <1>7, <1>8, <1>9 DEF UpgradeStep

(* advance_count in a step of a public function.*)
LEMMA ApiAnnounces ==
  ASSUME OrderInv, NEW t \in Threads, Shape(t), BaseKept, ApiStep(t)
  PROVE  Announces(t)
<1>k. TypeOK /\ Knows(pc[t], item[t], av[t], pd[t], jn[t], op[t])
  BY RegistersTyped DEF OrderInv
<1>r. /\ pc \in [Threads -> Labels] /\ item \in [Threads -> Nodes] /\ av \in [Threads -> AdvanceFrames]
      /\ pd \in [Threads -> PayloadFrames] /\ jn \in [Threads -> JanitorFrames]
      /\ dr \in [Threads -> DropFrames] /\ op \in [Threads -> CallFrames]
      /\ strong \in [Nodes -> 0..UsizeMax] /\ UsizeMax \in Nat /\ weak \in [Nodes -> WeakWords]
      /\ mem \in [Nodes -> {"unused", "private", "live", "freed"}] /\ prev \in [Nodes -> Ptrs]
      /\ stamp \in [Nodes -> Nat] /\ next \in [Nodes -> NextWords] /\ adv \in [Nodes -> Int]
      /\ handle \in [Handles -> HandleStates]
  BY HeapAssumption DEF OrderInv, TypeOK
<1>s. Shape(t) /\ (pc[t] # "idle" /\ op[t].f = "sharedGet" => handle'[op[t].hnd] = handle[op[t].hnd])
  BY DEF BaseKept
<1>1. CASE GetLoad(t)
  <2>1. CASE NeedsReload(op[t].f, item[t])
    <3>1. /\ pc[t] = "get_load"
          /\ ReadOnly
          /\ UNCHANGED <<pd, dr, op>>
          /\ Starts(t, item[t], "strong", "jan_lock")
          /\ jn'[t].ret = "get_done"
      BY <1>k, <1>1, <2>1, GetLoadEffect
    <3> QED BY <1>k, <1>r, <1>s, <2>1, <3>1, SMTT(30) DEF Starts, ReadOnly, Announces,
     Announced, Walks, Shares, Ind, Base, Shape, DropShape, Continues, Knows, Frames, Dying,
     Janitoring, Updating, Upgrading, locals, client, heap, CallFrames, HandleStates
  <2>2. CASE ~NeedsReload(op[t].f, item[t])
    <3>1. /\ pc[t] = "get_load"
          /\ ReadOnly
          /\ UNCHANGED <<pd, dr, op>>
          /\ pc'[t] = AfterReload(op[t].f)
          /\ UNCHANGED <<item, av, jn>>
      BY <1>k, <1>1, <2>2, GetLoadEffect
    <3> QED BY <1>k, <1>r, <1>s, <2>2, <3>1, SMTT(30) DEF Starts, ReadOnly, AfterReload,
     Announces, Announced, Walks, Shares, Ind, Base, Shape, DropShape, Continues, Knows, Frames,
     Dying, Janitoring, Updating, Upgrading, locals, client, heap, CallFrames, HandleStates
  <2> QED BY <2>1, <2>2
<1>2. CASE GetDone(t)
  <2>1. CASE jn[t].rerun
    <3>1. /\ pc[t] = "get_done"
          /\ ReadOnly
          /\ UNCHANGED <<pd, jn, dr, op>>
          /\ Starts(t, item[t], "strong", "jan_lock")
      BY <1>k, <1>2, <2>1, GetDoneEffect
    <3> QED BY <1>k, <1>r, <1>s, <2>1, <3>1, SMTT(30) DEF Starts, ReadOnly, Announces,
     Announced, Walks, Shares, Ind, Base, Shape, DropShape, Continues, Knows, Frames, Dying,
     Janitoring, Updating, Upgrading, locals, client, heap, CallFrames, HandleStates
  <2>2. CASE ~jn[t].rerun
    <3>1. /\ pc[t] = "get_done"
          /\ ReadOnly
          /\ UNCHANGED <<pd, jn, dr, op>>
          /\ pc'[t] = AfterReload(op[t].f)
          /\ UNCHANGED <<item, av>>
      BY <1>k, <1>2, <2>2, GetDoneEffect
    <3> QED BY <1>k, <1>r, <1>s, <2>2, <3>1, SMTT(30) DEF Starts, ReadOnly, AfterReload,
     Announces, Announced, Walks, Shares, Ind, Base, Shape, DropShape, Continues, Knows, Frames,
     Dying, Janitoring, Updating, Upgrading, locals, client, heap, CallFrames, HandleStates
  <2> QED BY <2>1, <2>2
<1>3. CASE TryGetMutWeak(t)
  BY <1>k, <1>r, <1>s, <1>3, SMTT(30) DEF TryGetMutWeak, Goto, ReadOnly, Announces, Announced,
     Walks, Shares, Ind, Base, Shape, DropShape, Continues, Knows, Frames, Dying, Janitoring,
     Updating, Upgrading, locals, client, heap, CallFrames, HandleStates
<1>4. CASE TryGetMutStrong(t)
  BY <1>k, <1>r, <1>s, <1>4, SMTT(30) DEF TryGetMutStrong, Goto, ReadOnly, Announces, Announced,
     Walks, Shares, Ind, Base, Shape, DropShape, Continues, Knows, Frames, Dying, Janitoring,
     Updating, Upgrading, locals, client, heap, CallFrames, HandleStates
<1>5. CASE TryGetMutAgain(t)
  BY <1>k, <1>r, <1>s, <1>5, SMTT(30) DEF TryGetMutAgain, Goto, ReadOnly, Announces, Announced,
     Walks, Shares, Ind, Base, Shape, DropShape, Continues, Knows, Frames, Dying, Janitoring,
     Updating, Upgrading, locals, client, heap, CallFrames, HandleStates
<1>6. CASE SharedGetLoad(t)
  <2>1. CASE HasNext(Base(t))
    BY <1>k, <1>r, <1>s, <1>6, <2>1, SMTT(30) DEF SharedGetLoad, Goto, ReadOnly, Announces,
     Announced, Walks, Shares, Ind, Base, Shape, DropShape, Continues, Knows, Frames, Dying,
     Janitoring, Updating, Upgrading, locals, client, heap, CallFrames, HandleStates
  <2>2. CASE ~HasNext(Base(t))
    BY <1>k, <1>r, <1>s, <1>6, <2>2, SMTT(30) DEF SharedGetLoad, Goto, ReadOnly, Announces,
     Announced, Walks, Shares, Ind, Base, Shape, DropShape, Continues, Knows, Frames, Dying,
     Janitoring, Updating, Upgrading, locals, client, heap, CallFrames, HandleStates
  <2> QED BY <2>1, <2>2
<1>8. CASE SharedGetNext(t)
  BY <1>k, <1>r, <1>s, <1>8, SMTT(30) DEF SharedGetNext, Goto, ReadOnly, Announces, Announced,
     Walks, Shares, Ind, Base, Shape, DropShape, Continues, Knows, Frames, Dying, Janitoring,
     Updating, Upgrading, locals, client, heap, CallFrames, HandleStates
<1>9. CASE SharedGetStrong(t)
  BY <1>k, <1>r, <1>s, <1>9, SMTT(30) DEF SharedGetStrong, Goto, ReadOnly, Announces, Announced,
     Walks, Shares, Ind, Base, Shape, DropShape, Continues, Knows, Frames, Dying, Janitoring,
     Updating, Upgrading, locals, client, heap, CallFrames, HandleStates
<1>10. CASE SharedGetCas(t)
  <2>1. CASE strong[op[t].nxt] = op[t].cs
    BY <1>k, <1>r, <1>s, <1>10, <2>1, SMTT(30) DEF SharedGetCas, AddStrong, Goto, OnlyStrong,
     Announces, Announced, Walks, Shares, Ind, Base, Shape, DropShape, Continues, Knows, Frames,
     Dying, Janitoring, Updating, Upgrading, locals, client, heap, CallFrames, HandleStates
  <2>2. CASE strong[op[t].nxt] # op[t].cs
    BY <1>k, <1>r, <1>s, <1>10, <2>2, SMTT(30) DEF SharedGetCas, AddStrong, Goto, OnlyStrong,
     Announces, Announced, Walks, Shares, Ind, Base, Shape, DropShape, Continues, Knows, Frames,
     Dying, Janitoring, Updating, Upgrading, locals, client, heap, CallFrames, HandleStates
  <2> QED BY <2>1, <2>2
<1>11. CASE SharedGetRecheck(t)
  <2>1. CASE HasNext(op[t].nxt)
    <3>1. /\ pc[t] = "sg_recheck"
          /\ ReadOnly
          /\ UNCHANGED <<pd, jn, op>>
          /\ Starts(t, op[t].nxt, "strong", "ds_dec")
          /\ dr'[t] = [IdleDrop EXCEPT !.ret = "sg_dec"]
      BY <1>k, <1>11, <2>1, SharedGetRecheckEffect
    <3> QED BY <1>k, <1>r, <1>s, <2>1, <3>1, SMTT(30) DEF Starts, ReadOnly, IdleDrop, Announces,
     Announced, Walks, Shares, Ind, Base, Shape, DropShape, Continues, Knows, Frames, Dying,
     Janitoring, Updating, Upgrading, locals, client, heap, CallFrames, HandleStates
  <2>2. CASE ~HasNext(op[t].nxt)
    <3>1. /\ pc[t] = "sg_recheck"
          /\ ReadOnly
          /\ UNCHANGED <<pd, jn, op>>
          /\ pc'[t] = "sg_light"
          /\ UNCHANGED <<item, av, dr>>
      BY <1>k, <1>11, <2>2, SharedGetRecheckEffect
    <3> QED BY <1>k, <1>r, <1>s, <2>2, <3>1, SMTT(30) DEF Starts, ReadOnly, Announces,
     Announced, Walks, Shares, Ind, Base, Shape, DropShape, Continues, Knows, Frames, Dying,
     Janitoring, Updating, Upgrading, locals, client, heap, CallFrames, HandleStates
  <2> QED BY <2>1, <2>2
<1>12. CASE SharedGetLight(t)
  BY <1>k, <1>r, <1>s, <1>12, SMTT(30) DEF SharedGetLight, Goto, OnlyAdv, Announces, Announced,
     Walks, Shares, Ind, Base, Shape, DropShape, Continues, Knows, Frames, Dying, Janitoring,
     Updating, Upgrading, locals, client, heap, CallFrames, HandleStates
<1>13. CASE SharedGetDec(t)
  BY <1>k, <1>r, <1>s, <1>13, SMTT(30) DEF SharedGetDec, Goto, OnlyAdv, Announces, Announced,
     Walks, Shares, Ind, Base, Shape, DropShape, Continues, Knows, Frames, Dying, Janitoring,
     Updating, Upgrading, locals, client, heap, CallFrames, HandleStates
<1>14. CASE SharedGetClone(t)
  <2>1. /\ pc[t] = "sg_clone"
        /\ AddStrong(Base(t))
        /\ OnlyStrong
        /\ UNCHANGED <<pd, jn, dr>>
        /\ Starts(t, Base(t), "strong", "reading")
        /\ op'[t] = [op[t] EXCEPT !.guard = "full"]
    BY <1>k, <1>14, SharedGetCloneEffect
  <2> QED BY <1>k, <1>r, <1>s, <2>1, SMTT(30) DEF Starts, AddStrong, OnlyStrong, Announces,
     Announced, Walks, Shares, Ind, Base, Shape, DropShape, Continues, Knows, Frames, Dying,
     Janitoring, Updating, Upgrading, locals, client, heap, CallFrames, HandleStates
<1>16. CASE Return(t)
  BY <1>k, <1>r, <1>s, <1>16, SMTT(30) DEF Return, Goto, Announces, Announced, Walks, Shares,
     Ind, Base, Shape, DropShape, Continues, Knows, Frames, Dying, Janitoring, Updating,
     Upgrading, locals, client, heap, CallFrames, HandleStates
<1>7. CASE SharedGetInc(t)
  <2>1. /\ pc[t] = "sg_inc" /\ pc'[t] = "sg_next" /\ UNCHANGED <<locals, handle>>
        /\ adv' = [adv EXCEPT ![Base(t)] = @ + 1]
    BY <1>r, <1>7 DEF SharedGetInc, Goto, OnlyAdv, client
  <2>2. dr[t].ret = "idle" /\ Base(t) \in Nodes
    BY <1>r, <1>s, <2>1 DEF Shape, Dying, Janitoring, Base, HandleStates, CallFrames
  <2>3. ASSUME NEW n \in Nodes
        PROVE  /\ ~Walks(t, n) /\ ~Walks(t, n)' /\ ~Shares(t, n) /\ (Shares(t, n)' <=> n = Base(t))
               /\ adv'[n] = adv[n] + (IF n = Base(t) THEN 1 ELSE 0) /\ adv[n] \in Int
    BY <1>r, <2>1, <2>2 DEF Walks, Shares, Base, locals
  <2> QED BY <2>3 DEF Announces, Announced, Ind
<1>15. CASE FinishReading(t)
  <2>0. pc[t] \in {"reading", "mutref"} /\ adv' = adv /\ dr[t].ret = "idle"
    BY <1>r, <1>s, <1>15 DEF FinishReading, ReadOnly, heap, Shape, Dying, Janitoring
  <2>1. pc'[t] \in {"adv_load", "ret"} /\ dr'[t].ret \in {"ret", "idle"}
    <3>1. CASE op[t].guard \in {"light", "full"}
      <4>1. pc'[t] = "adv_load" /\ dr'[t] = [IdleDrop EXCEPT !.ret = "ret"]
        BY <1>k, <1>15, <3>1, FinishReadingEffect DEF Starts
      <4> QED BY <4>1 DEF IdleDrop
    <3>2. CASE op[t].guard \notin {"light", "full"}
      BY <1>k, <1>15, <2>0, <3>2, FinishReadingEffect
    <3> QED BY <3>1, <3>2
  <2> QED BY <2>0, <2>1 DEF Announces, Announced, Walks, Shares, Ind
<1> QED BY <1>1, <1>2, <1>3, <1>4, <1>5, <1>6, <1>8, <1>9, <1>10, <1>11, <1>12, <1>13, <1>14,
  <1>16, <1>7, <1>15 DEF ApiStep

(* A call begins without an announcement.                                  *)
LEMMA CallAnnounces ==
  ASSUME OrderInv, NEW t \in Threads, Shape(t), Call(t)
  PROVE  Announces(t)
<1>k. TypeOK /\ Knows(pc[t], item[t], av[t], pd[t], jn[t], op[t])
  BY RegistersTyped DEF OrderInv
<1>r. /\ pc \in [Threads -> Labels] /\ item \in [Threads -> Nodes] /\ av \in [Threads -> AdvanceFrames]
      /\ pd \in [Threads -> PayloadFrames] /\ jn \in [Threads -> JanitorFrames]
      /\ dr \in [Threads -> DropFrames] /\ op \in [Threads -> CallFrames]
      /\ strong \in [Nodes -> 0..UsizeMax] /\ UsizeMax \in Nat /\ weak \in [Nodes -> WeakWords]
      /\ mem \in [Nodes -> {"unused", "private", "live", "freed"}] /\ prev \in [Nodes -> Ptrs]
      /\ stamp \in [Nodes -> Nat] /\ next \in [Nodes -> NextWords] /\ adv \in [Nodes -> Int]
      /\ handle \in [Handles -> HandleStates]
  BY HeapAssumption DEF OrderInv, TypeOK
<1>s. Shape(t)
  OBVIOUS
<1>1. ASSUME NEW h \in Handles, NEW o \in Handles, Clone(t, h, o)
      PROVE  Announces(t)
  <2>1. /\ Entered(t, "clone", h, o, Null)
        /\ handle[h].kind = "strong"
        /\ handle[o].kind = "none"
        /\ handle' = [handle EXCEPT ![o] = Busy]
        /\ AddStrong(handle[h].node)
        /\ Starts(t, handle[h].node, "strong", "ret")
        /\ UNCHANGED <<next, prev, weak, adv, mem, drops, jn, dr>>
    BY <1>k, <1>1, CloneEffect
  <2> QED BY <1>k, <1>r, <1>s, <2>1, SMTT(30) DEF Entered, Starts, Busy, AddStrong, Announces,
     Announced, Walks, Shares, Ind, Base, Shape, DropShape, Continues, Knows, Frames, Dying,
     Janitoring, Updating, Upgrading, locals, client, heap, CallFrames, HandleStates
<1>2. ASSUME NEW f, NEW h \in Handles, NEW o \in Handles, CloneWeak(t, f, h, o)
      PROVE  Announces(t)
  <2>1. /\ pc[t] = "idle"
        /\ handle[h].kind = IF f = "downgrade" THEN "strong" ELSE "weak"
        /\ handle[o].kind = "none"
        /\ handle' = [handle EXCEPT ![o] = [kind |-> "weak", node |-> handle[h].node]]
        /\ AddWeak(handle[h].node)
        /\ UNCHANGED <<next, prev, strong, adv, mem, drops, stamp, count, pc, locals>>
    BY <1>k, <1>2, CloneWeakEffect
  <2> QED BY <1>k, <1>r, <1>s, <2>1, SMTT(30) DEF Entered, Starts, AddWeak, Announces,
     Announced, Walks, Shares, Ind, Base, Shape, DropShape, Continues, Knows, Frames, Dying,
     Janitoring, Updating, Upgrading, locals, client, heap, CallFrames, HandleStates
<1>3. ASSUME NEW h \in Handles, NEW o \in Handles, Upgrade(t, h, o)
      PROVE  Announces(t)
  <2>1. /\ Entered(t, "upgrade", h, o, Null)
        /\ handle[h].kind = "weak"
        /\ handle[o].kind = "none"
        /\ handle' = [handle EXCEPT ![o] = Busy]
        /\ AddWeak(handle[h].node)
        /\ Starts(t, handle[h].node, "weak", "upg_strong")
        /\ UNCHANGED <<next, prev, strong, adv, mem, drops, jn, dr>>
    BY <1>k, <1>3, UpgradeEffect
  <2> QED BY <1>k, <1>r, <1>s, <2>1, SMTT(30) DEF Entered, Starts, Busy, AddWeak, Announces,
     Announced, Walks, Shares, Ind, Base, Shape, DropShape, Continues, Knows, Frames, Dying,
     Janitoring, Updating, Upgrading, locals, client, heap, CallFrames, HandleStates
<1>4. ASSUME NEW h \in Handles, Update(t, h)
      PROVE  Announces(t)
  <2>1. /\ Unused # {}
        /\ Entered(t, "update", h, h, FreshNode)
        /\ handle[h].kind = "strong"
        /\ \A u \in Threads : pc[u] # "idle" => op[u].hnd # h
        /\ handle' = [handle EXCEPT ![h] = Busy]
        /\ NewHolder(FreshNode, handle[h].node)
        /\ Starts(t, handle[h].node, "strong", "upd_next")
        /\ UNCHANGED <<next, adv, drops, jn, dr>>
    BY <1>k, <1>4, UpdateEffect
  <2>2. FreshNode \in Nodes /\ mem[FreshNode] = "unused" /\ ~Published(FreshNode)
    BY <2>1, FreshIsUnused
  <2> QED BY <1>k, <1>r, <1>s, <2>1, <2>2, SMTT(30) DEF Entered, Starts, Busy, NewHolder,
     Announces, Announced, Walks, Shares, Ind, Base, Shape, DropShape, Continues, Knows, Frames,
     Dying, Janitoring, Updating, Upgrading, locals, client, heap, CallFrames, HandleStates
<1>5. ASSUME NEW h \in Handles, Rcu(t, h)
      PROVE  Announces(t)
  <2>1. /\ Entered(t, "rcu", h, h, Null)
        /\ handle[h].kind = "strong"
        /\ \A u \in Threads : pc[u] # "idle" => op[u].hnd # h
        /\ handle' = [handle EXCEPT ![h] = Busy]
        /\ Starts(t, handle[h].node, "strong", "upd_next")
        /\ UNCHANGED <<heap, jn, dr>>
    BY <1>k, <1>5, RcuEffect
  <2> QED BY <1>k, <1>r, <1>s, <2>1, SMTT(30) DEF Entered, Starts, Busy, Announces, Announced,
     Walks, Shares, Ind, Base, Shape, DropShape, Continues, Knows, Frames, Dying, Janitoring,
     Updating, Upgrading, locals, client, heap, CallFrames, HandleStates
<1>6. ASSUME NEW f, NEW h \in Handles, DropShift(t, f, h)
      PROVE  Announces(t)
  <2>1. /\ f \in {"drop", "intoInner"}
        /\ Entered(t, f, h, h, Null)
        /\ handle[h].kind = "strong"
        /\ \A u \in Threads : pc[u] # "idle" => op[u].hnd # h
        /\ handle' = [handle EXCEPT ![h] = Busy]
        /\ Starts(t, handle[h].node, "strong", "ds_dec")
        /\ dr'[t] = [IdleDrop EXCEPT !.ret = "ret"]
        /\ UNCHANGED <<heap, jn>>
    BY <1>k, <1>6, DropShiftEffect
  <2> QED BY <1>k, <1>r, <1>s, <2>1, SMTT(30) DEF Entered, Starts, Busy, IdleDrop, Announces,
     Announced, Walks, Shares, Ind, Base, Shape, DropShape, Continues, Knows, Frames, Dying,
     Janitoring, Updating, Upgrading, locals, client, heap, CallFrames, HandleStates
<1>7. ASSUME NEW h \in Handles, DropShiftWeak(t, h)
      PROVE  Announces(t)
  <2>1. /\ Entered(t, "dropWeak", h, h, Null)
        /\ handle[h].kind = "weak"
        /\ \A u \in Threads : pc[u] # "idle" => op[u].hnd # h
        /\ handle' = [handle EXCEPT ![h] = Busy]
        /\ Starts(t, handle[h].node, "weak", "jan_lock")
        /\ jn'[t] = [IdleJanitor EXCEPT !.ret = "dw_weak"]
        /\ dr'[t] = [IdleDrop EXCEPT !.ret = "ret"]
        /\ UNCHANGED heap
    BY <1>k, <1>7, DropShiftWeakEffect
  <2> QED BY <1>k, <1>r, <1>s, <2>1, SMTT(30) DEF Entered, Starts, Busy, IdleJanitor, IdleDrop,
     Announces, Announced, Walks, Shares, Ind, Base, Shape, DropShape, Continues, Knows, Frames,
     Dying, Janitoring, Updating, Upgrading, locals, client, heap, CallFrames, HandleStates
<1>8. ASSUME NEW f, NEW h \in Handles, Reload(t, f, h)
      PROVE  Announces(t)
  <2>1. /\ f \in {"get", "reload", "tryGetMut"}
        /\ Entered(t, f, h, h, Null)
        /\ handle[h].kind = "strong"
        /\ \A u \in Threads : pc[u] # "idle" => op[u].hnd # h
        /\ handle' = [handle EXCEPT ![h] = Busy]
        /\ item'[t] = handle[h].node
        /\ pc'[t] = "get_load"
        /\ UNCHANGED <<heap, av, jn, dr>>
    BY <1>k, <1>8, ReloadEffect
  <2> QED BY <1>k, <1>r, <1>s, <2>1, SMTT(30) DEF Entered, Starts, Busy, Announces, Announced,
     Walks, Shares, Ind, Base, Shape, DropShape, Continues, Knows, Frames, Dying, Janitoring,
     Updating, Upgrading, locals, client, heap, CallFrames, HandleStates
<1>9. ASSUME NEW h \in Handles, SharedGet(t, h)
      PROVE  Announces(t)
  <2>1. /\ Entered(t, "sharedGet", h, h, Null)
        /\ handle[h].kind = "strong"
        /\ pc'[t] = "sg_load"
        /\ UNCHANGED <<heap, handle, item, av, jn, dr>>
    BY <1>k, <1>9, SharedGetEffect
  <2> QED BY <1>k, <1>r, <1>s, <2>1, SMTT(30) DEF Entered, Starts, Announces, Announced, Walks,
     Shares, Ind, Base, Shape, DropShape, Continues, Knows, Frames, Dying, Janitoring, Updating,
     Upgrading, locals, client, heap, CallFrames, HandleStates
<1> QED BY <1>1, <1>2, <1>3, <1>4, <1>5, <1>6, <1>7, <1>8, <1>9 DEF Call

-----------------------------------------------------------------------------
(* All steps together.                                                      *)

(* A step of one call moves nobody else.                                    *)
LEMMA OthersStill ==
  ASSUME OrderInv, NEW t \in Threads, AnyStep(t), NEW u \in Threads \ {t}
  PROVE  Still(u)
<1>1. TypeOK
  BY DEF OrderInv
<1> QED BY <1>1, AdvanceStill, JanitorStill, DropStill, UpdateStill, UpgradeStill, ApiStill, CallStill DEF AnyStep, Step

(* A step is a step of the specification, which keeps the order.            *)
LEMMA AnyStepKeeps ==
  ASSUME OrderInv, NEW t \in Threads, AnyStep(t)
  PROVE  OrderInv'
<1>1. [Next]_vars
  BY DEF AnyStep, Next
<1> QED BY <1>1, NextKeeps

(* Every call keeps the shape of its control flow.                          *)
LEMMA ShapesKept ==
  ASSUME OrderInv, NEW t \in Threads, AnyStep(t), \A u \in Threads : Shape(u)
  PROVE  \A u \in Threads : Shape(u)'
<1>1. Shape(t)'
  <2>1. TypeOK'
    BY AnyStepKeeps DEF OrderInv
  <2> QED BY <2>1, AdvanceShapeKept, JanitorShapeKept, DropShapeKept, UpdateShapeKept,
     UpgradeShapeKept, ApiShapeKept, CallShapeKept DEF AnyStep, Step
<1>2. ASSUME NEW u \in Threads \ {t} PROVE Shape(u)'
  <2>1. Still(u)
    BY OthersStill
  <2> QED BY <2>1 DEF Still, Shape
<1> QED BY <1>1, <1>2

(* Every call keeps to the places of its nodes.                             *)
LEMMA PlacesKept ==
  ASSUME OrderInv, NEW t \in Threads, AnyStep(t), \A u \in Threads : Shape(u) /\ Places(u)
  PROVE  \A u \in Threads : Places(u)'
<1>1. Grows /\ BaseKept
  BY AllGrow, BorrowedKept
<1>2. Places(t)'
  BY <1>1, AdvancePlaces, JanitorPlaces, DropPlaces, UpdatePlaces, UpgradePlaces, ApiPlaces, CallPlaces DEF AnyStep, Step
<1>3. ASSUME NEW u \in Threads \ {t} PROVE Places(u)'
  BY <1>1, OthersStill, PlacesStay
<1> QED BY <1>2, <1>3

(* advance_count stays exact.                                               *)
LEMMA AnnouncedKept ==
  ASSUME OrderInv, NEW t \in Threads, AnyStep(t), \A u \in Threads : Shape(u), AdvanceExact
  PROVE  AdvanceExact'
<1>1. BaseKept
  BY BorrowedKept
<1>2. Announces(t)
  BY <1>1, AdvanceAnnounces, JanitorAnnounces, DropAnnounces, UpdateAnnounces, UpgradeAnnounces, ApiAnnounces,
     CallAnnounces DEF AnyStep, Step
<1>3. adv \in [Nodes -> Int] /\ adv' \in [Nodes -> Int]
  BY AnyStepKeeps DEF OrderInv, TypeOK
<1>4. ASSUME NEW n \in Nodes PROVE adv'[n] = Cardinality(Announcers(n)')
  <2>1. /\ Cardinality(Announcers(n)) \in Nat /\ Cardinality(Announcers(n)') \in Nat
        /\ Cardinality(Announcers(n)') - Announced(t, n)' = Cardinality(Announcers(n)) - Announced(t, n)
    BY <1>1, OthersStill, AnnounceChange
  <2>2. adv'[n] - Announced(t, n)' = adv[n] - Announced(t, n) /\ adv[n] = Cardinality(Announcers(n))
    BY <1>2 DEF Announces, AdvanceExact
  <2>3. Announced(t, n) \in Int /\ Announced(t, n)' \in Int
    BY DEF Announced, Ind
  <2> DEFINE c == Cardinality(Announcers(n))
             d == Cardinality(Announcers(n)')
             a == Announced(t, n)
             b == Announced(t, n)'
  <2>4. c \in Nat /\ d \in Nat /\ d - b = c - a /\ adv'[n] - b = adv[n] - a /\ adv[n] = c /\ a \in Int /\ b \in Int
        /\ adv'[n] \in Int
    BY <1>3, <2>1, <2>2, <2>3
  <2>5. adv'[n] = d
    <3> HIDE DEF a, b, c, d
    <3> QED BY <2>4
  <2> QED BY <2>5
<1> QED BY <1>4 DEF AdvanceExact

-----------------------------------------------------------------------------

(* What the calls keep by themselves, whatever the others do.               *)
CallsInv == OrderInv /\ AdvanceExact /\ \A t \in Threads : Shape(t) /\ Places(t)

(* The program starts with no call and no announcement.                     *)
LEMMA InitCalls ==
  ASSUME Init PROVE CallsInv
<1>1. OrderInv
  BY InitOrdered
<1>2. ASSUME NEW t \in Threads PROVE Shape(t) /\ Places(t)
  <2>1. /\ pc[t] = "idle" /\ av[t] = IdleAdvance /\ pd[t] = IdlePayload /\ jn[t] = IdleJanitor /\ dr[t] = IdleDrop
        /\ op[t] = IdleOp
    BY DEF Init
  <2> QED BY <2>1 DEF Shape, Places, IdleAdvance, IdlePayload, IdleJanitor, IdleDrop, IdleOp, DropShape, Dying, Janitoring,
       Updating, Upgrading, StrongOnStart
<1>3. ASSUME NEW n \in Nodes PROVE adv[n] = Cardinality(Announcers(n))
  <2>1. ASSUME NEW t \in Threads PROVE ~Walks(t, n) /\ ~Shares(t, n)
    BY DEF Init, Walks, Shares, IdleDrop
  <2>2. Announcers(n) = {}
    BY <2>1 DEF Announcers
  <2> QED BY <2>2, FS_EmptySet DEF Init
<1> QED BY <1>1, <1>2, <1>3 DEF CallsInv, AdvanceExact

(* Every step of the program keeps it.                                      *)
LEMMA NextCalls ==
  ASSUME CallsInv, [Next]_vars PROVE CallsInv'
<1>1. OrderInv'
  BY NextKeeps DEF CallsInv
<1>2. ASSUME NEW t \in Threads, AnyStep(t)
      PROVE  AdvanceExact' /\ \A u \in Threads : Shape(u)' /\ Places(u)'
  BY <1>2, ShapesKept, PlacesKept, AnnouncedKept DEF CallsInv
<1>3. CASE UNCHANGED vars
  <2>1. AdvanceExact'
    BY <1>3 DEF CallsInv, AdvanceExact, Announcers, Walks, Shares, Base, vars, heap, client, locals
  <2>2. ASSUME NEW t \in Threads PROVE Shape(t)' /\ Places(t)'
    <3>1. Shape(t)'
      BY <1>3 DEF CallsInv, Shape, vars, locals
    <3>2. Places(t)'
      BY <1>3 DEF CallsInv, Places, Before, HasNext, Base, StrongOnStart, vars, heap, client, locals
    <3> QED BY <3>1, <3>2
  <2> QED BY <1>1, <2>1, <2>2 DEF CallsInv
<1> QED BY <1>1, <1>2, <1>3 DEF CallsInv, Next, Rest, AnyStep

(* advance_count of every node is the number of advances that are about to *)
(* follow its next, at every step of any number of threads.                *)
THEOREM AdvancesCounted == Spec => []AdvanceExact
<1>1. Init => CallsInv
  BY InitCalls
<1>2. CallsInv /\ [Next]_vars => CallsInv'
  BY NextCalls
<1>3. CallsInv => AdvanceExact
  BY DEF CallsInv
<1> QED BY <1>1, <1>2, <1>3, PTL DEF Spec

-----------------------------------------------------------------------------
(* What the exact counts say of the references, and the references of the  *)
(* counts.                                                                 *)

(* The parts of the invariant.                                             *)
LEMMA SafeParts ==
  ASSUME SafeInv
  PROVE  /\ OrderInv /\ Listed /\ LocksHeld /\ HandlesLive /\ PrivateFresh /\ Flagged
         /\ StrongExact /\ WeakExact /\ AdvanceExact /\ Followed /\ TeardownSafe /\ PayloadsSafe
         /\ \A t \in Threads : Shape(t) /\ Places(t) /\ JanitorKnows(t) /\ HeldLive(t) /\ WordKnown(t) /\ Unreferenced(t)
  BY DEF SafeInv

(* The types that the proofs below use again and again.                     *)
LEMMA NodesTyped ==
  ASSUME OrderInv
  PROVE  /\ TypeOK /\ strong \in [Nodes -> 0..UsizeMax] /\ UsizeMax \in Nat /\ weak \in [Nodes -> WeakWords]
         /\ mem \in [Nodes -> {"unused", "private", "live", "freed"}] /\ prev \in [Nodes -> Ptrs]
         /\ stamp \in [Nodes -> Nat] /\ next \in [Nodes -> NextWords] /\ adv \in [Nodes -> Int]
         /\ handle \in [Handles -> HandleStates] /\ drops \in [Nodes -> Nat] /\ count \in Nat
         /\ \A t \in Threads : item[t] \in Nodes /\ av[t].start \in Nodes /\ av[t].nxt \in Nodes /\ op[t].nxt \in Nodes
         /\ \A t \in Threads : Base(t) \in Nodes /\ pd[t].tgt \in Nodes /\ op[t].val \in Ptrs /\ op[t].hnd \in Handles
         /\ \A t \in Threads : item[t] # Null /\ Base(t) # Null
         /\ Null \notin Nodes
<1>1. /\ TypeOK /\ strong \in [Nodes -> 0..UsizeMax] /\ UsizeMax \in Nat /\ weak \in [Nodes -> WeakWords]
      /\ mem \in [Nodes -> {"unused", "private", "live", "freed"}] /\ prev \in [Nodes -> Ptrs]
      /\ stamp \in [Nodes -> Nat] /\ next \in [Nodes -> NextWords] /\ adv \in [Nodes -> Int]
      /\ handle \in [Handles -> HandleStates] /\ drops \in [Nodes -> Nat] /\ count \in Nat
      /\ item \in [Threads -> Nodes] /\ av \in [Threads -> AdvanceFrames] /\ pd \in [Threads -> PayloadFrames]
      /\ op \in [Threads -> CallFrames]
  BY HeapAssumption DEF OrderInv, TypeOK
<1>2. Null \notin Nodes
  BY DEF Nodes, Null
<1>3. ASSUME NEW t \in Threads
      PROVE  /\ item[t] \in Nodes /\ av[t].start \in Nodes /\ av[t].nxt \in Nodes /\ op[t].nxt \in Nodes
             /\ pd[t].tgt \in Nodes /\ op[t].val \in Ptrs /\ op[t].hnd \in Handles
  BY <1>1 DEF AdvanceFrames, CallFrames, PayloadFrames
<1>4. ASSUME NEW t \in Threads PROVE Base(t) \in Nodes
  BY <1>1, <1>3 DEF HandleStates, Base
<1> QED BY <1>1, <1>2, <1>3, <1>4

(* What the lemmas about the list rely on is part of the invariant.        *)
LEMMA ListParts ==
  ASSUME SafeInv
  PROVE  ListInv /\ RedirectsHold /\ \A t \in Threads : Holding(t)
<1>1. ASSUME NEW t \in Threads, pc[t] \in Janitoring PROVE Live(item[t])
  <2>1. jn[t].ret \in {"dw_weak", "upd_done", "get_done"} /\ HeldLive(t)
    BY <1>1, SafeParts DEF Shape, Continues
  <2> QED BY <1>1, <2>1 DEF HeldLive, StrongOnItem, WeakOnItem, At
<1>2. ListInv
  BY <1>1, SafeParts DEF ListInv, Collecting
<1>3. RedirectsHold
  BY SafeParts DEF RedirectsHold, Followed
<1>4. ASSUME NEW t \in Threads PROVE Holding(t)
  <2>1. HeldLive(t) /\ HandlesLive
    BY SafeParts
  <2>2. item[t] \in Nodes /\ av[t].nxt \in Nodes /\ op[t].nxt \in Nodes /\ Base(t) \in Nodes
    BY SafeParts, NodesTyped
  <2>3. pc[t] = "adv_weak" => Live(av[t].nxt)
    BY <2>2, SafeParts DEF Followed, Follows
  <2>4. pc[t] = "sg_cas" => Live(op[t].nxt)
    BY <2>2, SafeParts DEF Followed, Follows
  <2> QED BY <2>1, <2>3, <2>4 DEF Holding
<1> QED BY <1>2, <1>3, <1>4

(* The holders of a node are finitely many.                                 *)
LEMMA HoldersOf ==
  ASSUME NEW n \in Nodes
  PROVE  /\ IsFiniteSet(StrongHolders(n)) /\ Cardinality(StrongHolders(n)) \in Nat
         /\ IsFiniteSet(WeakHolders(n)) /\ Cardinality(WeakHolders(n)) \in Nat
<1> DEFINE S == StrongHolders(n)
           W == WeakHolders(n)
<1>1. S \in SUBSET Holders /\ W \in SUBSET Holders
  BY DEF StrongHolders, WeakHolders, Holders
<1> HIDE DEF S, W
<1>2. IsFiniteSet(S) /\ IsFiniteSet(W)
  BY <1>1, HoldersFinite, FS_Subset
<1>3. Cardinality(S) \in Nat /\ Cardinality(W) \in Nat
  BY <1>2, FS_CardinalityType
<1> QED BY <1>2, <1>3 DEF S, W

(* A finite set with an element has at least one.                          *)
LEMMA SomeCounted ==
  ASSUME NEW S, IsFiniteSet(S), NEW x \in S
  PROVE  Cardinality(S) \in Nat /\ Cardinality(S) >= 1
<1>1. Cardinality(S) \in Nat /\ Cardinality(S) # 0
  BY FS_CardinalityType, FS_EmptySet
<1> QED BY <1>1

(* A set with at most one element has no two.                              *)
LEMMA OnlyOne ==
  ASSUME NEW S, IsFiniteSet(S), Cardinality(S) <= 1, NEW x \in S, NEW y \in S
  PROVE  x = y
<1>1. /\ IsFiniteSet(S \ {x}) /\ Cardinality(S) \in Nat /\ Cardinality(S \ {x}) \in Nat
      /\ Cardinality(S) = Cardinality(S \ {x}) + Ind(x \in S)
  BY WithoutOne
<1>2. Cardinality(S \ {x}) = 0
  BY <1>1 DEF Ind
<1>3. S \ {x} = {}
  BY <1>1, <1>2, FS_EmptySet
<1> QED BY <1>3

(* A node with a strong holder has a count that is no sentinel, and room    *)
(* for more.                                                               *)
LEMMA StrongKnown ==
  ASSUME SafeInv, NEW n \in Nodes, Live(n)
  PROVE  /\ LiveStrong(strong[n]) = Cardinality(StrongHolders(n))
         /\ LiveStrong(strong[n]) + 1 < UsizeMax
         /\ strong[n] # STRONG_DROPPED => strong[n] < UsizeMax - 1
         /\ (\E x : x \in StrongHolders(n)) => strong[n] \in 1..(UsizeMax - 2) /\ strong[n] # STRONG_DROPPED
         /\ (\A x : x \notin StrongHolders(n)) => strong[n] \in {0, STRONG_DROPPED}
<1> DEFINE c == Cardinality(StrongHolders(n))
<1>1. c \in Nat /\ LiveStrong(strong[n]) = c /\ c + 1 < UsizeMax
  BY HoldersOf, StrongBound, SafeParts DEF StrongExact
<1>2. strong[n] \in 0..UsizeMax /\ UsizeMax \in Nat
  BY SafeParts, NodesTyped
<1>3. (\E x : x \in StrongHolders(n)) => c >= 1
  BY HoldersOf, SomeCounted
<1>4. (\A x : x \notin StrongHolders(n)) => c = 0
  <2>1. ASSUME \A x : x \notin StrongHolders(n) PROVE StrongHolders(n) = {}
    BY <2>1
  <2> QED BY <2>1, FS_EmptySet
<1> HIDE DEF c
<1>5. strong[n] # STRONG_DROPPED => strong[n] = c
  BY <1>1 DEF LiveStrong
<1>6. c # 0 => strong[n] # STRONG_DROPPED
  BY <1>1 DEF LiveStrong
<1>7. c = 0 => strong[n] \in {0, STRONG_DROPPED}
  BY <1>5
<1> QED BY <1>1, <1>2, <1>3, <1>4, <1>5, <1>6, <1>7 DEF c

(* Who has a strong reference to n.                                         *)
LEMMA StrongHolderOf ==
  ASSUME NEW n \in Nodes
  PROVE  /\ \A h \in Handles : handle \in [Handles -> HandleStates] /\ handle[h].kind = "strong" /\ handle[h].node = n
                => <<"handle", h>> \in StrongHolders(n)
         /\ \A t \in Threads :
              /\ StrongOnStart(t) /\ av[t].start = n => <<"start", t>> \in StrongHolders(n)
              /\ StrongOnItem(t) /\ item[t] = n => <<"item", t>> \in StrongHolders(n)
              /\ StrongOnNew(t) /\ op[t].val = n => <<"new", t>> \in StrongHolders(n)
              /\ pc[t] \in {"sg_recheck", "sg_light"} /\ op[t].nxt = n => <<"nxt", t>> \in StrongHolders(n)
<1>1. ASSUME NEW h \in Handles, handle \in [Handles -> HandleStates], handle[h].kind = "strong", handle[h].node = n
      PROVE  <<"handle", h>> \in StrongHolders(n)
  <2>1. handle[h] = [kind |-> "strong", node |-> n]
    BY <1>1 DEF HandleStates
  <2> QED BY <2>1 DEF StrongHolders
<1>2. ASSUME NEW t \in Threads
      PROVE  /\ StrongOnStart(t) /\ av[t].start = n => <<"start", t>> \in StrongHolders(n)
             /\ StrongOnItem(t) /\ item[t] = n => <<"item", t>> \in StrongHolders(n)
             /\ StrongOnNew(t) /\ op[t].val = n => <<"new", t>> \in StrongHolders(n)
             /\ pc[t] \in {"sg_recheck", "sg_light"} /\ op[t].nxt = n => <<"nxt", t>> \in StrongHolders(n)
  BY DEF StrongHolders
<1> QED BY <1>1, <1>2

(* A node that is kept or tried has a strong reference.                    *)
LEMMA KeptIsHeld ==
  ASSUME NEW n \in Nodes, handle \in [Handles -> HandleStates], Kept(n) \/ Tried(n)
  PROVE  \E x : x \in StrongHolders(n)
  BY StrongHolderOf DEF Kept, Keeps, Tried, Tries

(* A strong count to the right of a strong reference is no sentinel.        *)
LEMMA NotTornDown ==
  ASSUME SafeInv, NEW m \in Nodes, NEW n \in Nodes, Live(n), Kept(m) \/ Tried(m), Before(m, n)
  PROVE  strong[n] # STRONG_DROPPED
  BY SafeParts DEF TeardownSafe, NoneBefore

(* The handle that shared_get borrows has a strong reference.               *)
LEMMA Borrowed ==
  ASSUME SafeInv, NEW t \in Threads, op[t].f = "sharedGet", pc[t] # "idle"
  PROVE  /\ handle[op[t].hnd].kind = "strong" /\ handle[op[t].hnd].node = Base(t) /\ op[t].hnd \in Handles
         /\ Base(t) \in Nodes /\ Live(Base(t)) /\ Kept(Base(t))
<1>1. HandleKept(pc[t], op[t])
  BY SafeParts DEF OrderInv, Local, Knows
<1>2. op[t].hnd \in Handles /\ Base(t) \in Nodes
  BY SafeParts, NodesTyped
<1>3. handle[op[t].hnd].kind = "strong"
  BY <1>1 DEF HandleKept
<1> QED BY <1>2, <1>3, SafeParts DEF HandlesLive, Base, Kept

(* The counts a thread is about to change are far from their ends.         *)
LEMMA RoomAll ==
  ASSUME SafeInv, NEW t \in Threads
  PROVE  Room(t) /\ (pc[t] = "advs_cas" => strong[item[t]] # STRONG_DROPPED)
                 /\ (pc[t] = "upg_cas" => op[t].cs # STRONG_DROPPED)
                 /\ (pc[t] \in {"sg_strong", "sg_cas"} => strong[op[t].nxt] # STRONG_DROPPED)
                 /\ (pc[t] = "sg_clone" => Live(Base(t)) /\ strong[Base(t)] # STRONG_DROPPED)
                 /\ (pc[t] \in Swapping => strong[item[t]] # STRONG_DROPPED)
<1>1. /\ item[t] \in Nodes /\ av[t].start \in Nodes /\ op[t].nxt \in Nodes /\ UsizeMax \in Nat
      /\ strong \in [Nodes -> 0..UsizeMax] /\ handle \in [Handles -> HandleStates] /\ Base(t) \in Nodes
  BY SafeParts, NodesTyped
<1>2. Shape(t) /\ Places(t) /\ HeldLive(t) /\ Holding(t)
  BY SafeParts, ListParts
<1>3. ASSUME StrongOnStart(t) PROVE strong[av[t].start] \in 1..(UsizeMax - 2) /\ (Kept(av[t].start) \/ Tried(av[t].start))
  <2>1. Live(av[t].start)
    BY <1>2, <1>3 DEF HeldLive
  <2> QED BY <1>1, <1>3, <2>1, StrongKnown, StrongHolderOf DEF Kept, Tried, Keeps, Tries
<1>4. ASSUME StrongOnItem(t) PROVE strong[item[t]] \in 1..(UsizeMax - 2)
  <2>1. Live(item[t])
    BY <1>2, <1>4 DEF HeldLive
  <2> QED BY <1>1, <1>4, <2>1, StrongKnown, StrongHolderOf
<1>5. ASSUME pc[t] \in Swapping PROVE strong[item[t]] # STRONG_DROPPED /\ strong[item[t]] < UsizeMax - 1
  <2>1. StrongOnStart(t) /\ WeakOnItem(t) /\ Before(av[t].start, item[t])
    BY <1>2, <1>5 DEF StrongOnStart, WeakOnItem, Places
  <2>2. Live(item[t])
    BY <1>2, <2>1 DEF HeldLive
  <2>3. strong[item[t]] # STRONG_DROPPED
    BY <1>1, <1>3, <2>1, <2>2, NotTornDown
  <2> QED BY <1>1, <2>2, <2>3, StrongKnown
<1>6. ASSUME pc[t] = "upg_cas"
      PROVE  op[t].cs # STRONG_DROPPED /\ (strong[item[t]] < UsizeMax - 1 \/ (strong[item[t]] = UsizeMax /\ op[t].cs # UsizeMax))
  <2>1. Live(item[t]) /\ op[t].cs # STRONG_DROPPED
    BY <1>2, <1>6, SafeParts DEF HeldLive, WeakOnItem, At, TeardownSafe
  <2> QED BY <1>1, <2>1, StrongKnown DEF STRONG_DROPPED
<1>7. ASSUME pc[t] \in {"sg_strong", "sg_cas"} PROVE strong[op[t].nxt] # STRONG_DROPPED /\ strong[op[t].nxt] < UsizeMax - 1
  <2>1. Follows(t, Base(t), op[t].nxt)
    BY <1>7 DEF Follows
  <2>2. Live(op[t].nxt) /\ Before(Base(t), op[t].nxt)
    BY <1>1, <2>1, SafeParts DEF Followed
  <2>3. Kept(Base(t))
    BY <1>2, <1>7, Borrowed DEF Shape
  <2>4. strong[op[t].nxt] # STRONG_DROPPED
    BY <1>1, <2>2, <2>3, NotTornDown
  <2> QED BY <1>1, <2>2, <2>4, StrongKnown
<1>8. ASSUME pc[t] = "sg_clone" PROVE Live(Base(t)) /\ strong[Base(t)] \in 1..(UsizeMax - 2) /\ strong[Base(t)] # STRONG_DROPPED
  <2>1. Kept(Base(t)) /\ Live(Base(t))
    BY <1>2, <1>8, Borrowed DEF Shape
  <2> QED BY <1>1, <2>1, StrongKnown, KeptIsHeld
<1> QED BY <1>3, <1>4, <1>5, <1>6, <1>7, <1>8 DEF Room

(* What one thread and one handle have is part of the count.                *)
LEMMA StrongShare ==
  ASSUME NEW t \in Threads, NEW h \in Handles, NEW n \in Nodes
  PROVE  StrongOf(t, h, n) <= Cardinality(StrongHolders(n))
<1> DEFINE S == StrongHolders(n)
           a == <<"handle", h>>
           b == <<"start", t>>
           c == <<"item", t>>
           d == <<"new", t>>
           e == <<"nxt", t>>
<1>1. IsFiniteSet(S)
  BY HoldersOf
<1>2. /\ a # b /\ a # c /\ a # d /\ a # e /\ b # c /\ b # d /\ b # e /\ c # d /\ c # e /\ d # e
  OBVIOUS
<1>3. StrongOf(t, h, n) = Ind(a \in S) + Ind(b \in S) + Ind(c \in S) + Ind(d \in S) + Ind(e \in S)
  BY DEF StrongOf, StrongHolders
<1>4. /\ Ind(a \in S) \in Int /\ Ind(b \in S) \in Int /\ Ind(c \in S) \in Int
      /\ Ind(d \in S) \in Int /\ Ind(e \in S) \in Int
  BY DEF Ind
<1> HIDE DEF S, a, b, c, d, e
<1>5. /\ Cardinality(S) \in Nat /\ Cardinality(S \ {a, b, c, d, e}) \in Nat
      /\ Cardinality(S) = Cardinality(S \ {a, b, c, d, e}) + Ind(a \in S) + Ind(b \in S)
           + Ind(c \in S) + Ind(d \in S) + Ind(e \in S)
  BY <1>1, <1>2, WithoutFive
<1> DEFINE r == Cardinality(S \ {a, b, c, d, e})
<1>6. r \in Nat /\ Cardinality(S) = r + StrongOf(t, h, n) /\ StrongOf(t, h, n) \in Int
  BY <1>3, <1>4, <1>5
<1> HIDE DEF r
<1>7. StrongOf(t, h, n) <= Cardinality(S)
  BY <1>6
<1> QED BY <1>7 DEF S

(* So are the counts of the nodes of the handles.                          *)
LEMMA StrongRoomAll ==
  ASSUME SafeInv, NEW t \in Threads, NEW h \in Handles
  PROVE  StrongRoom(t, h)
<1>1. ASSUME NEW n \in Nodes, Live(n)
      PROVE  LiveStrong(strong[n]) + 1 < UsizeMax /\ StrongOf(t, h, n) <= LiveStrong(strong[n])
  BY <1>1, StrongKnown, StrongShare
<1> QED BY <1>1, RoomAll, SafeParts DEF StrongRoom

-----------------------------------------------------------------------------
(* No step touches freed memory, and every step makes one of a few kinds   *)
(* of changes to the nodes.                                                *)

(* Every node that the next step of a call dereferences is alive.           *)
LEMMA DerefsLive ==
  ASSUME SafeInv
  PROVE  NoUseAfterFree
<1> SUFFICES ASSUME NEW t \in Threads PROVE \A n \in Derefs(t) : n \in Nodes /\ Live(n)
  BY DEF NoUseAfterFree
<1>1. /\ TypeOK /\ item[t] \in Nodes /\ av[t].start \in Nodes /\ av[t].nxt \in Nodes /\ op[t].nxt \in Nodes /\ Base(t) \in Nodes
      /\ pd[t].tgt \in Nodes /\ Null \notin Nodes /\ pc[t] \in Labels /\ jn[t] \in JanitorFrames /\ pd[t] \in PayloadFrames
  <2>1. TypeOK
    BY SafeParts, NodesTyped
  <2>2. pc[t] \in Labels /\ jn[t] \in JanitorFrames /\ pd[t] \in PayloadFrames
    BY <2>1 DEF TypeOK
  <2> QED BY <2>1, <2>2, SafeParts, NodesTyped
<1>2. /\ jn[t].cur \in Ptrs /\ jn[t].prv \in Ptrs /\ jn[t].right \in Ptrs /\ jn[t].carry \in Ptrs /\ jn[t].del \in Ptrs
      /\ pd[t].ret \in {"idle", "advs_a_decw", "dw_cas", "upd_decw"}
  BY <1>1 DEF JanitorFrames, PayloadFrames
<1>3. Shape(t) /\ Places(t) /\ HeldLive(t) /\ Holding(t) /\ JanitorKnows(t) /\ ListInv
  BY SafeParts, ListParts
<1>4. CASE pc[t] \in Walking \cup Swapping \cup SwappedIn \cup {"advw_dec", "advs_a_decw"}
  <2>1. Live(av[t].start) /\ Live(item[t])
    BY <1>1, <1>3, <1>4 DEF HeldLive, StrongOnStart, WeakOnStart, StrongOnItem, WeakOnItem, At, AdvanceFrames, TypeOK
  <2>2. pc[t] = "adv_weak" => Live(av[t].nxt)
    BY <1>3 DEF Holding
  <2> QED BY <1>1, <1>4, <2>1, <2>2 DEF Derefs
<1>5. CASE pc[t] \in Dropping
  <2>1. Live(pd[t].tgt)
    BY <1>2, <1>3, <1>5 DEF HeldLive, Shape, WeakOnStart, WeakOnItem, At
  <2> QED BY <1>1, <1>5, <2>1 DEF Derefs
<1>6. CASE pc[t] \in Janitoring
  <2>1. Live(item[t])
    BY <1>3, <1>6 DEF ListInv, Collecting
  <2>2. CASE pc[t] \in {"jan_lock", "jan_unlock"}
    BY <1>1, <2>1, <2>2 DEF Derefs
  <2>3. CASE pc[t] \in {"jan_sweep", "jan_strong"}
    <3>1. jn[t].cur \in Nodes /\ Live(jn[t].cur)
      BY <1>2, <1>3, <2>3 DEF JanitorKnows, Redirecting, Ptrs
    <3> QED BY <1>1, <2>1, <2>3, <3>1 DEF Derefs
  <2>4. CASE pc[t] \in {"jan_setnext", "jan_adv"}
    <3>1. jn[t].cur \in Nodes /\ Live(jn[t].cur) /\ jn[t].prv \in Nodes /\ jn[t].prv = prev[jn[t].cur]
      BY <1>2, <1>3, <2>4 DEF JanitorKnows, Redirecting, Ptrs
    <3>2. HasLocked(t, jn[t].cur) /\ ~Gap(t)
      <4>1. JanitorOrdered(pc[t], item[t], jn[t])
        BY <1>3, JanitorFacts
      <4>2. Before(jn[t].cur, item[t])
        BY <4>1, <2>4 DEF JanitorOrdered, Older, Before
      <4> QED BY <2>4, <4>2 DEF HasLocked, Redirecting, Gap
    <3>3. Adjacent(jn[t].cur, prev[jn[t].cur])
      BY <1>3, <3>1, <3>2, PrevAdjacent
    <3>4. Live(jn[t].prv)
      BY <1>1, <3>1, <3>3 DEF Adjacent
    <3> QED BY <1>1, <2>4, <3>1, <3>4 DEF Derefs
  <2>5. CASE pc[t] = "jan_clean"
    BY <1>1, <1>2, <1>3, <2>5 DEF Derefs, JanitorKnows, Ptrs
  <2>6. CASE pc[t] \in {"jan_del", "jan_free"}
    BY <1>1, <1>2, <1>3, <2>6 DEF Derefs, JanitorKnows, Ptrs
  <2>7. CASE pc[t] \in {"jan_clearprev", "jan_unlink"}
    BY <1>1, <1>2, <1>3, <2>7 DEF Derefs, JanitorKnows, Ptrs, Freeing
  <2>8. CASE pc[t] \in {"jan_carry", "jan_uncarry"}
    BY <1>1, <1>2, <1>3, <2>8 DEF Derefs, JanitorKnows, Ptrs
  <2>9. CASE pc[t] = "jan_final"
    BY <2>9 DEF Derefs
  <2> QED BY <1>6, <2>2, <2>3, <2>4, <2>5, <2>6, <2>7, <2>8, <2>9 DEF Janitoring
<1>7. CASE pc[t] \in SharedGetting
  <2>1. op[t].f = "sharedGet"
    BY <1>3, <1>7 DEF Shape
  <2>2. Live(Base(t))
    BY <1>7, <2>1, Borrowed
  <2>3. pc[t] \in {"sg_strong", "sg_cas"} => Live(op[t].nxt)
    BY <1>1, SafeParts DEF Followed, Follows
  <2>4. pc[t] \in {"sg_recheck", "sg_light"} => Live(op[t].nxt)
    BY <1>3 DEF HeldLive
  <2> QED BY <1>1, <1>7, <2>2, <2>3, <2>4 DEF Derefs
<1>8. CASE pc[t] = "reading"
  <2>1. op[t].guard = "raw" => op[t].f = "sharedGet" /\ item[t] = Base(t)
    BY <1>3, <1>8 DEF Shape, Places
  <2>2. Live(item[t])
    BY <1>3, <1>8, <2>1, Borrowed DEF HeldLive, StrongOnItem
  <2> QED BY <1>1, <1>8, <2>2 DEF Derefs
<1>9. CASE pc[t] \in (Dying \cup Updating \cup Upgrading \cup {"ds_dec", "get_load", "tgm_weak", "tgm_strong", "tgm_again", "mutref"}) \ {"upd_done"}
  <2>1. Live(item[t])
    BY <1>3, <1>9 DEF HeldLive, StrongOnItem, WeakOnItem, At, Dying, Updating, Upgrading
  <2> QED BY <1>1, <1>9, <2>1 DEF Derefs, Dying, Updating, Upgrading
<1>10. CASE pc[t] \in {"idle", "ret", "get_done", "upd_done"}
  BY <1>10 DEF Derefs
<1> QED BY <1>1, <1>4, <1>5, <1>6, <1>7, <1>8, <1>9, <1>10 DEF Labels, Janitoring, Dying, Updating, Upgrading

-----------------------------------------------------------------------------
(* The kinds of changes.                                                    *)

AgesKept == UNCHANGED <<stamp, count>>
HeapKept == UNCHANGED heap /\ AgesKept

\* t has or knows a reference to n
Vouches(t, n) ==
  \/ (WeakOnItem(t) \/ StrongOnItem(t)) /\ item[t] = n
  \/ pc[t] = "adv_weak" /\ av[t].nxt = n
  \/ \E h \in Handles : handle[h].kind \in {"strong", "weak"} /\ handle[h].node = n

WeakTaken(t, n) ==
  Live(n) /\ Vouches(t, n) /\ AddWeak(n) /\ UNCHANGED <<next, prev, strong, adv, mem, drops>> /\ AgesKept
WeakGiven(n) == Live(n) /\ SubWeak(n) /\ UNCHANGED <<next, prev, strong, adv, mem, drops>> /\ AgesKept
StrongTaken(n) ==
  Live(n) /\ strong[n] < UsizeMax - 1 /\ AddStrong(n) /\ UNCHANGED <<next, prev, weak, adv, mem, drops>> /\ AgesKept
StrongGiven(n) ==
  /\ Live(n) /\ strong[n] \in 1..(UsizeMax - 2) /\ SubStrong(n)
  /\ UNCHANGED <<next, prev, weak, adv, mem, drops>> /\ AgesKept
AdvanceSet(n) ==
  /\ Live(n) /\ \A k \in Nodes \ {n} : adv'[k] = adv[k]
  /\ UNCHANGED <<next, prev, strong, weak, mem, drops>> /\ AgesKept
WordSet(n) ==
  /\ Live(n) /\ next'[n].dropped = next[n].dropped /\ (next'[n].ptr # Null => HasNext(n))
  /\ \A k \in Nodes \ {n} : next'[k] = next[k]
  /\ UNCHANGED <<prev, strong, weak, adv, mem, drops>> /\ AgesKept

\* what changes more than a count or a word of one node
Special(t) ==
  \/ PayloadMark(t) \/ PayloadDrop(t) \/ JanitorFree(t) \/ JanitorClearPrev(t) \/ JanitorUnlink(t)
  \/ ClaimTeardown(t) \/ DropWeakFree(t) \/ UpdateNext(t) \/ RcuCancel(t) \/ UpdateCas(t) \/ UpdateMark(t)
  \/ \E h \in Handles : Update(t, h)

HeapStep(t) ==
  \/ HeapKept
  \/ \E n \in Nodes :
       WeakTaken(t, n) \/ WeakGiven(n) \/ StrongTaken(n) \/ StrongGiven(n) \/ AdvanceSet(n) \/ WordSet(n)
  \/ Special(t)

(* A step of an advance makes one of these changes.                          *)
LEMMA AdvanceKind ==
  ASSUME SafeInv, NEW t \in Threads, AdvanceStep(t)
  PROVE  HeapStep(t)
<1>d. \A n \in Derefs(t) : n \in Nodes /\ Live(n)
  BY DerefsLive DEF NoUseAfterFree
<1>t. /\ TypeOK /\ strong \in [Nodes -> 0..UsizeMax] /\ UsizeMax \in Nat /\ next \in [Nodes -> NextWords] /\ adv \in [Nodes -> Int]
  BY SafeParts, NodesTyped
<1>m. Room(t) /\ (pc[t] = "upg_cas" => op[t].cs # STRONG_DROPPED)
  BY RoomAll
<1>1. CASE AdvanceLoad(t)
  BY <1>1 DEF AdvanceLoad, Janitor, ReadOnly, client, HeapStep, HeapKept, AgesKept
<1>2. CASE AdvanceInc(t)
  <2>1. item[t] \in Nodes /\ Live(item[t])
    BY <1>d, <1>2 DEF AdvanceInc, Derefs
  <2>2. (\A m \in Nodes \ {item[t]} : adv'[m] = adv[m]) /\ UNCHANGED <<next, prev, strong, weak, mem, drops>> /\ AgesKept
    BY <1>t, <1>2 DEF AdvanceInc, OnlyAdv, client, AgesKept
  <2>9. AdvanceSet(item[t])
    BY <2>1, <2>2 DEF AdvanceSet
  <2> QED BY <2>1, <2>9 DEF HeapStep
<1>3. CASE AdvanceReload(t)
  BY <1>3 DEF AdvanceReload, Janitor, ReadOnly, client, HeapStep, HeapKept, AgesKept
<1>4. CASE AdvanceWeakInc(t)
  <2>1. av[t].nxt \in Nodes /\ Live(av[t].nxt)
    BY <1>d, <1>4 DEF AdvanceWeakInc, Derefs
  <2>2. AddWeak(av[t].nxt) /\ UNCHANGED <<next, prev, strong, adv, mem, drops>> /\ AgesKept
    BY <1>4 DEF AdvanceWeakInc, OnlyWeak, client, AgesKept
  <2>3. Vouches(t, av[t].nxt)
    BY <1>4 DEF AdvanceWeakInc, Vouches, WeakOnItem, StrongOnItem, At
  <2>9. WeakTaken(t, av[t].nxt)
    BY <2>1, <2>2, <2>3 DEF WeakTaken
  <2> QED BY <2>1, <2>9 DEF HeapStep
<1>5. CASE AdvanceDec(t)
  <2>1. item[t] \in Nodes /\ Live(item[t])
    BY <1>d, <1>5 DEF AdvanceDec, Derefs
  <2>2. (\A m \in Nodes \ {item[t]} : adv'[m] = adv[m]) /\ UNCHANGED <<next, prev, strong, weak, mem, drops>> /\ AgesKept
    BY <1>t, <1>5 DEF AdvanceDec, OnlyAdv, client, AgesKept
  <2>9. AdvanceSet(item[t])
    BY <2>1, <2>2 DEF AdvanceSet
  <2> QED BY <2>1, <2>9 DEF HeapStep
<1>6. CASE AdvanceWeakDec(t)
  <2>1. item[t] \in Nodes /\ Live(item[t])
    BY <1>d, <1>6 DEF AdvanceWeakDec, Derefs
  <2>2. SubWeak(item[t]) /\ UNCHANGED <<next, prev, strong, adv, mem, drops>> /\ AgesKept
    BY <1>6 DEF AdvanceWeakDec, OnlyWeak, client, AgesKept
  <2>9. WeakGiven(item[t])
    BY <2>1, <2>2 DEF WeakGiven
  <2> QED BY <2>1, <2>9 DEF HeapStep
<1>7. CASE WeakLeaveStart(t)
  <2>1. av[t].start \in Nodes /\ Live(av[t].start)
    BY <1>d, <1>7 DEF WeakLeaveStart, Derefs
  <2>2. SubWeak(av[t].start) /\ UNCHANGED <<next, prev, strong, adv, mem, drops>> /\ AgesKept
    BY <1>7 DEF WeakLeaveStart, OnlyWeak, client, AgesKept
  <2>9. WeakGiven(av[t].start)
    BY <2>1, <2>2 DEF WeakGiven
  <2> QED BY <2>1, <2>9 DEF HeapStep
<1>8. CASE PayloadMark(t)
  BY <1>8 DEF HeapStep, Special
<1>9. CASE PayloadDrop(t)
  BY <1>9 DEF HeapStep, Special
<1>10. CASE StrongLoad(t)
  BY <1>10 DEF StrongLoad, Janitor, ReadOnly, client, HeapStep, HeapKept, AgesKept
<1>11. CASE StrongIncWeak(t)
  <2>1. item[t] \in Nodes /\ Live(item[t])
    BY <1>d, <1>11 DEF StrongIncWeak, Derefs
  <2>2. AddWeak(item[t]) /\ UNCHANGED <<next, prev, strong, adv, mem, drops>> /\ AgesKept
    BY <1>11 DEF StrongIncWeak, OnlyWeak, client, AgesKept
  <2>3. Vouches(t, item[t])
    BY <1>11 DEF StrongIncWeak, Vouches, WeakOnItem, StrongOnItem, At
  <2>9. WeakTaken(t, item[t])
    BY <2>1, <2>2, <2>3 DEF WeakTaken
  <2> QED BY <2>1, <2>9 DEF HeapStep
<1>12. CASE StrongCas(t)
  <2>1. CASE strong[item[t]] = av[t].cs
    <3>1. item[t] \in Nodes /\ Live(item[t])
      BY <1>d, <1>12, <2>1 DEF StrongCas, Derefs
    <3>2. AddStrong(item[t]) /\ UNCHANGED <<next, prev, weak, adv, mem, drops>> /\ AgesKept
      BY <1>12, <2>1 DEF StrongCas, OnlyStrong, client, AgesKept
    <3>3. strong[item[t]] < UsizeMax - 1
      BY <1>t, <1>m, <1>12, <2>1, <3>1 DEF StrongCas, Room, STRONG_DROPPED
    <3>9. StrongTaken(item[t])
      BY <3>1, <3>2, <3>3 DEF StrongTaken
    <3> QED BY <3>1, <3>9 DEF HeapStep
  <2>2. CASE ~(strong[item[t]] = av[t].cs)
    <3>1. UNCHANGED <<next, prev, weak, adv, mem, drops>> /\ AgesKept /\ UNCHANGED strong
      BY <1>12, <2>2 DEF StrongCas, OnlyStrong, client, AgesKept
    <3> QED BY <3>1 DEF HeapStep, HeapKept, heap
  <2> QED BY <2>1, <2>2
<1>13. CASE StrongRaceDecWeak(t)
  <2>1. item[t] \in Nodes /\ Live(item[t])
    BY <1>d, <1>13 DEF StrongRaceDecWeak, Derefs
  <2>2. SubWeak(item[t]) /\ UNCHANGED <<next, prev, strong, adv, mem, drops>> /\ AgesKept
    BY <1>13 DEF StrongRaceDecWeak, OnlyWeak, client, AgesKept
  <2>9. WeakGiven(item[t])
    BY <2>1, <2>2 DEF WeakGiven
  <2> QED BY <2>1, <2>9 DEF HeapStep
<1>14. CASE StrongRecheck(t)
  BY <1>14 DEF StrongRecheck, Janitor, ReadOnly, client, HeapStep, HeapKept, AgesKept
<1>15. CASE StrongUndo(t)
  <2>1. item[t] \in Nodes /\ Live(item[t])
    BY <1>d, <1>15 DEF StrongUndo, Derefs
  <2>2. SubStrong(item[t]) /\ UNCHANGED <<next, prev, weak, adv, mem, drops>> /\ AgesKept
    BY <1>15 DEF StrongUndo, OnlyStrong, client, AgesKept
  <2>3. strong[item[t]] \in 1..(UsizeMax - 2)
    BY <1>m, <1>15 DEF StrongUndo, Room, StrongOnItem, StrongOnStart, At
  <2>9. StrongGiven(item[t])
    BY <2>1, <2>2, <2>3 DEF StrongGiven
  <2> QED BY <2>1, <2>9 DEF HeapStep
<1>16. CASE StrongUndoDecWeak(t)
  <2>1. item[t] \in Nodes /\ Live(item[t])
    BY <1>d, <1>16 DEF StrongUndoDecWeak, Derefs
  <2>2. SubWeak(item[t]) /\ UNCHANGED <<next, prev, strong, adv, mem, drops>> /\ AgesKept
    BY <1>16 DEF StrongUndoDecWeak, OnlyWeak, client, AgesKept
  <2>9. WeakGiven(item[t])
    BY <2>1, <2>2 DEF WeakGiven
  <2> QED BY <2>1, <2>9 DEF HeapStep
<1>17. CASE StrongDecWeakB(t)
  <2>1. item[t] \in Nodes /\ Live(item[t])
    BY <1>d, <1>17 DEF StrongDecWeakB, Derefs
  <2>2. SubWeak(item[t]) /\ UNCHANGED <<next, prev, strong, adv, mem, drops>> /\ AgesKept
    BY <1>17 DEF StrongDecWeakB, OnlyWeak, client, AgesKept
  <2>9. WeakGiven(item[t])
    BY <2>1, <2>2 DEF WeakGiven
  <2> QED BY <2>1, <2>9 DEF HeapStep
<1>18. CASE StrongLeaveStart(t)
  <2>1. av[t].start \in Nodes /\ Live(av[t].start)
    BY <1>d, <1>18 DEF StrongLeaveStart, Derefs
  <2>2. SubStrong(av[t].start) /\ UNCHANGED <<next, prev, weak, adv, mem, drops>> /\ AgesKept
    BY <1>18 DEF StrongLeaveStart, OnlyStrong, client, AgesKept
  <2>3. strong[av[t].start] \in 1..(UsizeMax - 2)
    BY <1>m, <1>18 DEF StrongLeaveStart, Room, StrongOnItem, StrongOnStart, At
  <2>9. StrongGiven(av[t].start)
    BY <2>1, <2>2, <2>3 DEF StrongGiven
  <2> QED BY <2>1, <2>9 DEF HeapStep
<1>19. CASE StrongDecWeakA(t)
  <2>1. av[t].start \in Nodes /\ Live(av[t].start)
    BY <1>d, <1>19 DEF StrongDecWeakA, Derefs
  <2>2. SubWeak(av[t].start) /\ UNCHANGED <<next, prev, strong, adv, mem, drops>> /\ AgesKept
    BY <1>19 DEF StrongDecWeakA, OnlyWeak, client, AgesKept
  <2>9. WeakGiven(av[t].start)
    BY <2>1, <2>2 DEF WeakGiven
  <2> QED BY <2>1, <2>9 DEF HeapStep
<1> QED BY <1>1, <1>2, <1>3, <1>4, <1>5, <1>6, <1>7, <1>8, <1>9, <1>10, <1>11, <1>12, <1>13,
  <1>14, <1>15, <1>16, <1>17, <1>18, <1>19 DEF AdvanceStep

(* A step of a janitor makes one of these changes.                          *)
LEMMA JanitorKind ==
  ASSUME SafeInv, NEW t \in Threads, JanitorStep(t)
  PROVE  HeapStep(t)
<1>d. \A n \in Derefs(t) : n \in Nodes /\ Live(n)
  BY DerefsLive DEF NoUseAfterFree
<1>t. /\ TypeOK /\ strong \in [Nodes -> 0..UsizeMax] /\ UsizeMax \in Nat /\ next \in [Nodes -> NextWords] /\ adv \in [Nodes -> Int]
  BY SafeParts, NodesTyped
<1>m. Room(t) /\ (pc[t] = "upg_cas" => op[t].cs # STRONG_DROPPED)
  BY RoomAll
<1>1. CASE JanitorLockStart(t)
  <2>1. item[t] \in Nodes /\ Live(item[t])
    BY <1>d, <1>1 DEF JanitorLockStart, Derefs, Janitor
  <2>2. /\ next'[item[t]].dropped = next[item[t]].dropped /\ (next'[item[t]].ptr # Null => HasNext(item[t]))
        /\ \A m \in Nodes \ {item[t]} : next'[m] = next[m]
        /\ UNCHANGED <<prev, strong, weak, adv, mem, drops>> /\ AgesKept
    BY <1>t, <1>1, <2>1 DEF JanitorLockStart, OnlyNext, client, AgesKept, Lock, Unlock, Disturb, SetNext, NextWords, HasNext, Janitor
  <2>9. WordSet(item[t])
    BY <2>1, <2>2 DEF WordSet
  <2> QED BY <2>1, <2>9 DEF HeapStep
<1>2. CASE JanitorSweep(t)
  <2>1. jn[t].cur \in Nodes /\ Live(jn[t].cur)
    BY <1>d, <1>2 DEF JanitorSweep, Derefs, Janitor
  <2>2. /\ next'[jn[t].cur].dropped = next[jn[t].cur].dropped /\ (next'[jn[t].cur].ptr # Null => HasNext(jn[t].cur))
        /\ \A m \in Nodes \ {jn[t].cur} : next'[m] = next[m]
        /\ UNCHANGED <<prev, strong, weak, adv, mem, drops>> /\ AgesKept
    BY <1>t, <1>2, <2>1 DEF JanitorSweep, OnlyNext, client, AgesKept, Lock, Unlock, Disturb, SetNext, NextWords, HasNext, Janitor
  <2>9. WordSet(jn[t].cur)
    BY <2>1, <2>2 DEF WordSet
  <2> QED BY <2>1, <2>9 DEF HeapStep
<1>3. CASE JanitorCleanup(t)
  <2>1. CASE jn[t].cur \notin {jn[t].fail, Null}
    <3>1. jn[t].cur \in Nodes /\ Live(jn[t].cur)
      BY <1>d, <1>3, <2>1 DEF JanitorCleanup, Derefs, Janitor
    <3>2. /\ next'[jn[t].cur].dropped = next[jn[t].cur].dropped /\ (next'[jn[t].cur].ptr # Null => HasNext(jn[t].cur))
          /\ \A m \in Nodes \ {jn[t].cur} : next'[m] = next[m]
          /\ UNCHANGED <<prev, strong, weak, adv, mem, drops>> /\ AgesKept
      BY <1>t, <1>3, <2>1, <3>1 DEF JanitorCleanup, OnlyNext, client, AgesKept, Lock, Unlock, Disturb, SetNext, NextWords, HasNext, Janitor
    <3>9. WordSet(jn[t].cur)
      BY <3>1, <3>2 DEF WordSet
    <3> QED BY <3>1, <3>9 DEF HeapStep
  <2>2. CASE ~(jn[t].cur \notin {jn[t].fail, Null})
    <3>1. UNCHANGED <<prev, strong, weak, adv, mem, drops>> /\ AgesKept /\ UNCHANGED next
      BY <1>3, <2>2 DEF JanitorCleanup, OnlyNext, client, AgesKept, Janitor
    <3> QED BY <3>1 DEF HeapStep, HeapKept, heap
  <2> QED BY <2>1, <2>2
<1>4. CASE JanitorUnlockStart(t)
  <2>1. item[t] \in Nodes /\ Live(item[t])
    BY <1>d, <1>4 DEF JanitorUnlockStart, Derefs, Janitor
  <2>2. /\ next'[item[t]].dropped = next[item[t]].dropped /\ (next'[item[t]].ptr # Null => HasNext(item[t]))
        /\ \A m \in Nodes \ {item[t]} : next'[m] = next[m]
        /\ UNCHANGED <<prev, strong, weak, adv, mem, drops>> /\ AgesKept
    BY <1>t, <1>4, <2>1 DEF JanitorUnlockStart, OnlyNext, client, AgesKept, Lock, Unlock, Disturb, SetNext, NextWords, HasNext, Janitor
  <2>9. WordSet(item[t])
    BY <2>1, <2>2 DEF WordSet
  <2> QED BY <2>1, <2>9 DEF HeapStep
<1>5. CASE JanitorStrong(t)
  BY <1>5 DEF JanitorStrong, Janitor, ReadOnly, client, HeapStep, HeapKept, AgesKept
<1>6. CASE JanitorSetNext(t)
  <2>1. jn[t].prv \in Nodes /\ Live(jn[t].prv)
    BY <1>d, <1>6 DEF JanitorSetNext, Derefs, Janitor
  <2>4. HasNext(jn[t].prv)
    <3>1. ListInv /\ Listed /\ OrderInv /\ pc[t] = "jan_setnext"
      BY <1>6, ListParts, SafeParts DEF ListInv, JanitorSetNext, Janitor
    <3>2. Before(jn[t].prv, item[t]) /\ Live(item[t]) /\ item[t] \in Nodes
      <4>1. JanitorOrdered(pc[t], item[t], jn[t]) /\ Live(item[t]) /\ item[t] \in Nodes
        BY <3>1, JanitorFacts DEF Janitoring
      <4> QED BY <3>1, <4>1 DEF JanitorOrdered, Older, Before
    <3> QED BY <2>1, <3>1, <3>2, Line
  <2>2. /\ next'[jn[t].prv].dropped = next[jn[t].prv].dropped /\ (next'[jn[t].prv].ptr # Null => HasNext(jn[t].prv))
        /\ \A m \in Nodes \ {jn[t].prv} : next'[m] = next[m]
        /\ UNCHANGED <<prev, strong, weak, adv, mem, drops>> /\ AgesKept
    BY <1>t, <1>6, <2>1, <2>4 DEF JanitorSetNext, OnlyNext, client, AgesKept, Lock, Unlock, Disturb, SetNext, NextWords, HasNext, Janitor
  <2>9. WordSet(jn[t].prv)
    BY <2>1, <2>2 DEF WordSet
  <2> QED BY <2>1, <2>9 DEF HeapStep
<1>7. CASE JanitorCheckAdvance(t)
  BY <1>7 DEF JanitorCheckAdvance, Janitor, ReadOnly, client, HeapStep, HeapKept, AgesKept
<1>8. CASE JanitorFinal(t)
  BY <1>8 DEF JanitorFinal, Janitor, ReadOnly, client, HeapStep, HeapKept, AgesKept
<1>9. CASE JanitorDelete(t)
  BY <1>9 DEF JanitorDelete, Janitor, ReadOnly, client, HeapStep, HeapKept, AgesKept
<1>10. CASE JanitorFree(t)
  BY <1>10 DEF HeapStep, Special
<1>11. CASE JanitorClearPrev(t)
  BY <1>11 DEF HeapStep, Special
<1>12. CASE JanitorUnlink(t)
  BY <1>12 DEF HeapStep, Special
<1>13. CASE JanitorCarry(t)
  <2>1. CASE jn[t].carry # Null
    <3>1. jn[t].carry \in Nodes /\ Live(jn[t].carry)
      BY <1>d, <1>13, <2>1 DEF JanitorCarry, Derefs, Janitor
    <3>2. /\ next'[jn[t].carry].dropped = next[jn[t].carry].dropped /\ (next'[jn[t].carry].ptr # Null => HasNext(jn[t].carry))
          /\ \A m \in Nodes \ {jn[t].carry} : next'[m] = next[m]
          /\ UNCHANGED <<prev, strong, weak, adv, mem, drops>> /\ AgesKept
      BY <1>t, <1>13, <2>1, <3>1 DEF JanitorCarry, OnlyNext, client, AgesKept, Lock, Unlock, Disturb, SetNext, NextWords, HasNext, Janitor, ReleaseCarry
    <3>9. WordSet(jn[t].carry)
      BY <3>1, <3>2 DEF WordSet
    <3> QED BY <3>1, <3>9 DEF HeapStep
  <2>2. CASE ~(jn[t].carry # Null)
    <3>1. UNCHANGED <<prev, strong, weak, adv, mem, drops>> /\ AgesKept /\ UNCHANGED next
      BY <1>13, <2>2 DEF JanitorCarry, OnlyNext, client, AgesKept, Janitor, ReleaseCarry
    <3> QED BY <3>1 DEF HeapStep, HeapKept, heap
  <2> QED BY <2>1, <2>2
<1>14. CASE JanitorUncarry(t)
  <2>1. CASE jn[t].carry # Null
    <3>1. jn[t].carry \in Nodes /\ Live(jn[t].carry)
      BY <1>d, <1>14, <2>1 DEF JanitorUncarry, Derefs, Janitor
    <3>2. /\ next'[jn[t].carry].dropped = next[jn[t].carry].dropped /\ (next'[jn[t].carry].ptr # Null => HasNext(jn[t].carry))
          /\ \A m \in Nodes \ {jn[t].carry} : next'[m] = next[m]
          /\ UNCHANGED <<prev, strong, weak, adv, mem, drops>> /\ AgesKept
      BY <1>t, <1>14, <2>1, <3>1 DEF JanitorUncarry, OnlyNext, client, AgesKept, Lock, Unlock, Disturb, SetNext, NextWords, HasNext, Janitor, ReleaseCarry
    <3>9. WordSet(jn[t].carry)
      BY <3>1, <3>2 DEF WordSet
    <3> QED BY <3>1, <3>9 DEF HeapStep
  <2>2. CASE ~(jn[t].carry # Null)
    <3>1. UNCHANGED <<prev, strong, weak, adv, mem, drops>> /\ AgesKept /\ UNCHANGED next
      BY <1>14, <2>2 DEF JanitorUncarry, OnlyNext, client, AgesKept, Janitor, ReleaseCarry
    <3> QED BY <3>1 DEF HeapStep, HeapKept, heap
  <2> QED BY <2>1, <2>2
<1> QED BY <1>1, <1>2, <1>3, <1>4, <1>5, <1>6, <1>7, <1>8, <1>9, <1>10, <1>11, <1>12, <1>13,
  <1>14 DEF JanitorStep

(* A step of a drop makes one of these changes.                          *)
LEMMA DropKind ==
  ASSUME SafeInv, NEW t \in Threads, DropStep(t)
  PROVE  HeapStep(t)
<1>d. \A n \in Derefs(t) : n \in Nodes /\ Live(n)
  BY DerefsLive DEF NoUseAfterFree
<1>t. /\ TypeOK /\ strong \in [Nodes -> 0..UsizeMax] /\ UsizeMax \in Nat /\ next \in [Nodes -> NextWords] /\ adv \in [Nodes -> Int]
  BY SafeParts, NodesTyped
<1>m. Room(t) /\ (pc[t] = "upg_cas" => op[t].cs # STRONG_DROPPED)
  BY RoomAll
<1>1. CASE DropStrongDec(t)
  <2>1. item[t] \in Nodes /\ Live(item[t])
    BY <1>d, <1>1 DEF DropStrongDec, Derefs
  <2>2. SubStrong(item[t]) /\ UNCHANGED <<next, prev, weak, adv, mem, drops>> /\ AgesKept
    BY <1>1 DEF DropStrongDec, OnlyStrong, client, AgesKept
  <2>3. strong[item[t]] \in 1..(UsizeMax - 2)
    BY <1>m, <1>1 DEF DropStrongDec, Room, StrongOnItem, StrongOnStart, At
  <2>9. StrongGiven(item[t])
    BY <2>1, <2>2, <2>3 DEF StrongGiven
  <2> QED BY <2>1, <2>9 DEF HeapStep
<1>2. CASE DropWeakLoad(t)
  BY <1>2 DEF DropWeakLoad, Janitor, ReadOnly, client, HeapStep, HeapKept, AgesKept
<1>3. CASE DropWeakNext(t)
  BY <1>3 DEF DropWeakNext, Janitor, ReadOnly, client, HeapStep, HeapKept, AgesKept
<1>4. CASE ClaimTeardown(t)
  BY <1>4 DEF HeapStep, Special
<1>5. CASE DropWeakCas(t)
  <2>1. CASE SameWeakWord(item[t], dr[t].ww)
    <3>1. item[t] \in Nodes /\ Live(item[t])
      BY <1>d, <1>5, <2>1 DEF DropWeakCas, Derefs
    <3>2. SubWeak(item[t]) /\ UNCHANGED <<next, prev, strong, adv, mem, drops>> /\ AgesKept
      BY <1>5, <2>1 DEF DropWeakCas, OnlyWeak, client, AgesKept
    <3>9. WeakGiven(item[t])
      BY <3>1, <3>2 DEF WeakGiven
    <3> QED BY <3>1, <3>9 DEF HeapStep
  <2>2. CASE ~(SameWeakWord(item[t], dr[t].ww))
    <3>1. UNCHANGED <<next, prev, strong, adv, mem, drops>> /\ AgesKept /\ UNCHANGED weak
      BY <1>5, <2>2 DEF DropWeakCas, OnlyWeak, client, AgesKept
    <3> QED BY <3>1 DEF HeapStep, HeapKept, heap
  <2> QED BY <2>1, <2>2
<1>6. CASE DropWeakFree(t)
  BY <1>6 DEF HeapStep, Special
<1> QED BY <1>1, <1>2, <1>3, <1>4, <1>5, <1>6 DEF DropStep

(* A step of an update makes one of these changes.                          *)
LEMMA UpdateKind ==
  ASSUME SafeInv, NEW t \in Threads, UpdateStep(t)
  PROVE  HeapStep(t)
<1>d. \A n \in Derefs(t) : n \in Nodes /\ Live(n)
  BY DerefsLive DEF NoUseAfterFree
<1>t. /\ TypeOK /\ strong \in [Nodes -> 0..UsizeMax] /\ UsizeMax \in Nat /\ next \in [Nodes -> NextWords] /\ adv \in [Nodes -> Int]
  BY SafeParts, NodesTyped
<1>m. Room(t) /\ (pc[t] = "upg_cas" => op[t].cs # STRONG_DROPPED)
  BY RoomAll
<1>1. CASE UpdateNext(t)
  BY <1>1 DEF HeapStep, Special
<1>2. CASE RcuCancel(t)
  BY <1>2 DEF HeapStep, Special
<1>3. CASE UpdateWeakInc(t)
  <2>1. item[t] \in Nodes /\ Live(item[t])
    BY <1>d, <1>3 DEF UpdateWeakInc, Derefs
  <2>2. AddWeak(item[t]) /\ UNCHANGED <<next, prev, strong, adv, mem, drops>> /\ AgesKept
    BY <1>3 DEF UpdateWeakInc, OnlyWeak, client, AgesKept
  <2>3. Vouches(t, item[t])
    BY <1>3 DEF UpdateWeakInc, Vouches, WeakOnItem, StrongOnItem, At
  <2>9. WeakTaken(t, item[t])
    BY <2>1, <2>2, <2>3 DEF WeakTaken
  <2> QED BY <2>1, <2>9 DEF HeapStep
<1>4. CASE UpdateCas(t)
  BY <1>4 DEF HeapStep, Special
<1>5. CASE UpdateFail(t)
  <2>1. item[t] \in Nodes /\ Live(item[t])
    BY <1>d, <1>5 DEF UpdateFail, Derefs
  <2>2. SubWeak(item[t]) /\ UNCHANGED <<next, prev, strong, adv, mem, drops>> /\ AgesKept
    BY <1>5 DEF UpdateFail, OnlyWeak, client, AgesKept
  <2>9. WeakGiven(item[t])
    BY <2>1, <2>2 DEF WeakGiven
  <2> QED BY <2>1, <2>9 DEF HeapStep
<1>6. CASE UpdateMark(t)
  BY <1>6 DEF HeapStep, Special
<1>7. CASE UpdateDec(t)
  <2>1. item[t] \in Nodes /\ Live(item[t])
    BY <1>d, <1>7 DEF UpdateDec, Derefs
  <2>2. SubStrong(item[t]) /\ UNCHANGED <<next, prev, weak, adv, mem, drops>> /\ AgesKept
    BY <1>7 DEF UpdateDec, OnlyStrong, client, AgesKept
  <2>3. strong[item[t]] \in 1..(UsizeMax - 2)
    BY <1>m, <1>7 DEF UpdateDec, Room, StrongOnItem, StrongOnStart, At
  <2>9. StrongGiven(item[t])
    BY <2>1, <2>2, <2>3 DEF StrongGiven
  <2> QED BY <2>1, <2>9 DEF HeapStep
<1>8. CASE UpdateDecWeak(t)
  <2>1. item[t] \in Nodes /\ Live(item[t])
    BY <1>d, <1>8 DEF UpdateDecWeak, Derefs
  <2>2. SubWeak(item[t]) /\ UNCHANGED <<next, prev, strong, adv, mem, drops>> /\ AgesKept
    BY <1>8 DEF UpdateDecWeak, OnlyWeak, client, AgesKept
  <2>9. WeakGiven(item[t])
    BY <2>1, <2>2 DEF WeakGiven
  <2> QED BY <2>1, <2>9 DEF HeapStep
<1>9. CASE UpdateDone(t)
  BY <1>9 DEF UpdateDone, Janitor, ReadOnly, client, HeapStep, HeapKept, AgesKept
<1> QED BY <1>1, <1>2, <1>3, <1>4, <1>5, <1>6, <1>7, <1>8, <1>9 DEF UpdateStep

(* A step of an upgrade makes one of these changes.                          *)
LEMMA UpgradeKind ==
  ASSUME SafeInv, NEW t \in Threads, UpgradeStep(t)
  PROVE  HeapStep(t)
<1>d. \A n \in Derefs(t) : n \in Nodes /\ Live(n)
  BY DerefsLive DEF NoUseAfterFree
<1>t. /\ TypeOK /\ strong \in [Nodes -> 0..UsizeMax] /\ UsizeMax \in Nat /\ next \in [Nodes -> NextWords] /\ adv \in [Nodes -> Int]
  BY SafeParts, NodesTyped
<1>m. Room(t) /\ (pc[t] = "upg_cas" => op[t].cs # STRONG_DROPPED)
  BY RoomAll
<1>1. CASE UpgradeLoadStrong(t)
  BY <1>1 DEF UpgradeLoadStrong, Janitor, ReadOnly, client, HeapStep, HeapKept, AgesKept
<1>2. CASE UpgradeLoadNext(t)
  BY <1>2 DEF UpgradeLoadNext, Janitor, ReadOnly, client, HeapStep, HeapKept, AgesKept
<1>3. CASE UpgradeIncWeak(t)
  <2>1. item[t] \in Nodes /\ Live(item[t])
    BY <1>d, <1>3 DEF UpgradeIncWeak, Derefs
  <2>2. AddWeak(item[t]) /\ UNCHANGED <<next, prev, strong, adv, mem, drops>> /\ AgesKept
    BY <1>3 DEF UpgradeIncWeak, OnlyWeak, client, AgesKept
  <2>3. Vouches(t, item[t])
    BY <1>3 DEF UpgradeIncWeak, Vouches, WeakOnItem, StrongOnItem, At
  <2>9. WeakTaken(t, item[t])
    BY <2>1, <2>2, <2>3 DEF WeakTaken
  <2> QED BY <2>1, <2>9 DEF HeapStep
<1>4. CASE UpgradeCas(t)
  <2>1. CASE strong[item[t]] = op[t].cs
    <3>1. item[t] \in Nodes /\ Live(item[t])
      BY <1>d, <1>4, <2>1 DEF UpgradeCas, Derefs
    <3>2. AddStrong(item[t]) /\ UNCHANGED <<next, prev, weak, adv, mem, drops>> /\ AgesKept
      BY <1>4, <2>1 DEF UpgradeCas, OnlyStrong, client, AgesKept
    <3>3. strong[item[t]] < UsizeMax - 1
      BY <1>t, <1>m, <1>4, <2>1, <3>1 DEF UpgradeCas, Room, STRONG_DROPPED
    <3>9. StrongTaken(item[t])
      BY <3>1, <3>2, <3>3 DEF StrongTaken
    <3> QED BY <3>1, <3>9 DEF HeapStep
  <2>2. CASE ~(strong[item[t]] = op[t].cs)
    <3>1. UNCHANGED <<next, prev, weak, adv, mem, drops>> /\ AgesKept /\ UNCHANGED strong
      BY <1>4, <2>2 DEF UpgradeCas, OnlyStrong, client, AgesKept
    <3> QED BY <3>1 DEF HeapStep, HeapKept, heap
  <2> QED BY <2>1, <2>2
<1>5. CASE UpgradeRaceDecWeak(t)
  <2>1. item[t] \in Nodes /\ Live(item[t])
    BY <1>d, <1>5 DEF UpgradeRaceDecWeak, Derefs
  <2>2. SubWeak(item[t]) /\ UNCHANGED <<next, prev, strong, adv, mem, drops>> /\ AgesKept
    BY <1>5 DEF UpgradeRaceDecWeak, OnlyWeak, client, AgesKept
  <2>9. WeakGiven(item[t])
    BY <2>1, <2>2 DEF WeakGiven
  <2> QED BY <2>1, <2>9 DEF HeapStep
<1>6. CASE UpgradeCheck(t)
  BY <1>6 DEF UpgradeCheck, Janitor, ReadOnly, client, HeapStep, HeapKept, AgesKept
<1>7. CASE UpgradeUndo(t)
  <2>1. item[t] \in Nodes /\ Live(item[t])
    BY <1>d, <1>7 DEF UpgradeUndo, Derefs
  <2>2. SubStrong(item[t]) /\ UNCHANGED <<next, prev, weak, adv, mem, drops>> /\ AgesKept
    BY <1>7 DEF UpgradeUndo, OnlyStrong, client, AgesKept
  <2>3. strong[item[t]] \in 1..(UsizeMax - 2)
    BY <1>m, <1>7 DEF UpgradeUndo, Room, StrongOnItem, StrongOnStart, At
  <2>9. StrongGiven(item[t])
    BY <2>1, <2>2, <2>3 DEF StrongGiven
  <2> QED BY <2>1, <2>9 DEF HeapStep
<1>8. CASE UpgradeUndoDecWeak(t)
  <2>1. item[t] \in Nodes /\ Live(item[t])
    BY <1>d, <1>8 DEF UpgradeUndoDecWeak, Derefs
  <2>2. SubWeak(item[t]) /\ UNCHANGED <<next, prev, strong, adv, mem, drops>> /\ AgesKept
    BY <1>8 DEF UpgradeUndoDecWeak, OnlyWeak, client, AgesKept
  <2>9. WeakGiven(item[t])
    BY <2>1, <2>2 DEF WeakGiven
  <2> QED BY <2>1, <2>9 DEF HeapStep
<1>9. CASE UpgradeDone(t)
  <2>1. item[t] \in Nodes /\ Live(item[t])
    BY <1>d, <1>9 DEF UpgradeDone, Derefs
  <2>2. SubWeak(item[t]) /\ UNCHANGED <<next, prev, strong, adv, mem, drops>> /\ AgesKept
    BY <1>9 DEF UpgradeDone, OnlyWeak, client, AgesKept
  <2>9. WeakGiven(item[t])
    BY <2>1, <2>2 DEF WeakGiven
  <2> QED BY <2>1, <2>9 DEF HeapStep
<1> QED BY <1>1, <1>2, <1>3, <1>4, <1>5, <1>6, <1>7, <1>8, <1>9 DEF UpgradeStep

(* A step of a public function makes one of these changes.                          *)
LEMMA ApiKind ==
  ASSUME SafeInv, NEW t \in Threads, ApiStep(t)
  PROVE  HeapStep(t)
<1>d. \A n \in Derefs(t) : n \in Nodes /\ Live(n)
  BY DerefsLive DEF NoUseAfterFree
<1>t. /\ TypeOK /\ strong \in [Nodes -> 0..UsizeMax] /\ UsizeMax \in Nat /\ next \in [Nodes -> NextWords] /\ adv \in [Nodes -> Int]
  BY SafeParts, NodesTyped
<1>m. Room(t) /\ (pc[t] = "upg_cas" => op[t].cs # STRONG_DROPPED)
  BY RoomAll
<1>1. CASE GetLoad(t)
  BY <1>1 DEF GetLoad, Janitor, ReadOnly, client, HeapStep, HeapKept, AgesKept
<1>2. CASE GetDone(t)
  BY <1>2 DEF GetDone, Janitor, ReadOnly, client, HeapStep, HeapKept, AgesKept
<1>3. CASE TryGetMutWeak(t)
  BY <1>3 DEF TryGetMutWeak, Janitor, ReadOnly, client, HeapStep, HeapKept, AgesKept
<1>4. CASE TryGetMutStrong(t)
  BY <1>4 DEF TryGetMutStrong, Janitor, ReadOnly, client, HeapStep, HeapKept, AgesKept
<1>5. CASE TryGetMutAgain(t)
  BY <1>5 DEF TryGetMutAgain, Janitor, ReadOnly, client, HeapStep, HeapKept, AgesKept
<1>6. CASE SharedGetLoad(t)
  BY <1>6 DEF SharedGetLoad, Janitor, ReadOnly, client, HeapStep, HeapKept, AgesKept
<1>7. CASE SharedGetInc(t)
  <2>1. Base(t) \in Nodes /\ Live(Base(t))
    BY <1>d, <1>7 DEF SharedGetInc, Derefs
  <2>2. (\A m \in Nodes \ {Base(t)} : adv'[m] = adv[m]) /\ UNCHANGED <<next, prev, strong, weak, mem, drops>> /\ AgesKept
    BY <1>t, <1>7 DEF SharedGetInc, OnlyAdv, client, AgesKept
  <2>9. AdvanceSet(Base(t))
    BY <2>1, <2>2 DEF AdvanceSet
  <2> QED BY <2>1, <2>9 DEF HeapStep
<1>8. CASE SharedGetNext(t)
  BY <1>8 DEF SharedGetNext, Janitor, ReadOnly, client, HeapStep, HeapKept, AgesKept
<1>9. CASE SharedGetStrong(t)
  BY <1>9 DEF SharedGetStrong, Janitor, ReadOnly, client, HeapStep, HeapKept, AgesKept
<1>10. CASE SharedGetCas(t)
  <2>1. CASE strong[op[t].nxt] = op[t].cs
    <3>1. op[t].nxt \in Nodes /\ Live(op[t].nxt)
      BY <1>d, <1>10, <2>1 DEF SharedGetCas, Derefs
    <3>2. AddStrong(op[t].nxt) /\ UNCHANGED <<next, prev, weak, adv, mem, drops>> /\ AgesKept
      BY <1>10, <2>1 DEF SharedGetCas, OnlyStrong, client, AgesKept
    <3>3. strong[op[t].nxt] < UsizeMax - 1
      BY <1>t, <1>m, <1>10, <2>1, <3>1 DEF SharedGetCas, Room, STRONG_DROPPED
    <3>9. StrongTaken(op[t].nxt)
      BY <3>1, <3>2, <3>3 DEF StrongTaken
    <3> QED BY <3>1, <3>9 DEF HeapStep
  <2>2. CASE ~(strong[op[t].nxt] = op[t].cs)
    <3>1. UNCHANGED <<next, prev, weak, adv, mem, drops>> /\ AgesKept /\ UNCHANGED strong
      BY <1>10, <2>2 DEF SharedGetCas, OnlyStrong, client, AgesKept
    <3> QED BY <3>1 DEF HeapStep, HeapKept, heap
  <2> QED BY <2>1, <2>2
<1>11. CASE SharedGetRecheck(t)
  BY <1>11 DEF SharedGetRecheck, Janitor, ReadOnly, client, HeapStep, HeapKept, AgesKept
<1>12. CASE SharedGetLight(t)
  <2>1. Base(t) \in Nodes /\ Live(Base(t))
    BY <1>d, <1>12 DEF SharedGetLight, Derefs
  <2>2. (\A m \in Nodes \ {Base(t)} : adv'[m] = adv[m]) /\ UNCHANGED <<next, prev, strong, weak, mem, drops>> /\ AgesKept
    BY <1>t, <1>12 DEF SharedGetLight, OnlyAdv, client, AgesKept
  <2>9. AdvanceSet(Base(t))
    BY <2>1, <2>2 DEF AdvanceSet
  <2> QED BY <2>1, <2>9 DEF HeapStep
<1>13. CASE SharedGetDec(t)
  <2>1. Base(t) \in Nodes /\ Live(Base(t))
    BY <1>d, <1>13 DEF SharedGetDec, Derefs
  <2>2. (\A m \in Nodes \ {Base(t)} : adv'[m] = adv[m]) /\ UNCHANGED <<next, prev, strong, weak, mem, drops>> /\ AgesKept
    BY <1>t, <1>13 DEF SharedGetDec, OnlyAdv, client, AgesKept
  <2>9. AdvanceSet(Base(t))
    BY <2>1, <2>2 DEF AdvanceSet
  <2> QED BY <2>1, <2>9 DEF HeapStep
<1>14. CASE SharedGetClone(t)
  <2>1. Base(t) \in Nodes /\ Live(Base(t))
    BY <1>d, <1>14 DEF SharedGetClone, Derefs
  <2>2. AddStrong(Base(t)) /\ UNCHANGED <<next, prev, weak, adv, mem, drops>> /\ AgesKept
    BY <1>14 DEF SharedGetClone, OnlyStrong, client, AgesKept
  <2>3. strong[Base(t)] < UsizeMax - 1
    BY <1>t, <1>m, <1>14, <2>1 DEF SharedGetClone, Room, STRONG_DROPPED
  <2>9. StrongTaken(Base(t))
    BY <2>1, <2>2, <2>3 DEF StrongTaken
  <2> QED BY <2>1, <2>9 DEF HeapStep
<1>15. CASE FinishReading(t)
  BY <1>15 DEF FinishReading, Janitor, ReadOnly, client, HeapStep, HeapKept, AgesKept
<1>16. CASE Return(t)
  BY <1>16 DEF Return, HeapStep, HeapKept, AgesKept
<1> QED BY <1>1, <1>2, <1>3, <1>4, <1>5, <1>6, <1>7, <1>8, <1>9, <1>10, <1>11, <1>12, <1>13,
  <1>14, <1>15, <1>16 DEF ApiStep

(* The beginning of a call makes one of these changes.                      *)
LEMMA CallKind ==
  ASSUME SafeInv, NEW t \in Threads, Call(t)
  PROVE  HeapStep(t)
<1>t. /\ TypeOK /\ strong \in [Nodes -> 0..UsizeMax] /\ UsizeMax \in Nat /\ handle \in [Handles -> HandleStates]
  BY SafeParts, NodesTyped
<1>h. ASSUME NEW h \in Handles, handle[h].kind \in {"strong", "weak"}
      PROVE  handle[h].node \in Nodes /\ Live(handle[h].node) /\ Vouches(t, handle[h].node)
             /\ (handle[h].kind = "strong" => strong[handle[h].node] < UsizeMax - 1)
  <2>1. handle[h].node \in Nodes /\ Live(handle[h].node) /\ Vouches(t, handle[h].node)
    BY <1>t, <1>h, SafeParts DEF HandlesLive, Vouches, HandleStates
  <2>2. ASSUME handle[h].kind = "strong" PROVE strong[handle[h].node] < UsizeMax - 1
    <3>1. <<"handle", h>> \in StrongHolders(handle[h].node)
      BY <1>t, <2>1, <2>2, StrongHolderOf
    <3>2. strong[handle[h].node] \in 1..(UsizeMax - 2)
      BY <2>1, <3>1, StrongKnown
    <3> QED BY <1>t, <3>2
  <2> QED BY <2>1, <2>2
<1>1. ASSUME NEW h \in Handles, NEW o \in Handles, Clone(t, h, o) PROVE HeapStep(t)
  <2>1. /\ AddStrong(handle[h].node) /\ handle[h].kind = "strong" /\ UNCHANGED <<next, prev, weak, adv, mem, drops>> /\ AgesKept
    BY <1>1 DEF Clone, Enter, Borrow, AgesKept
  <2>2. StrongTaken(handle[h].node) /\ handle[h].node \in Nodes
    BY <1>h, <2>1 DEF StrongTaken
  <2> QED BY <2>2 DEF HeapStep
<1>2. ASSUME NEW f, NEW h \in Handles, NEW o \in Handles, CloneWeak(t, f, h, o) PROVE HeapStep(t)
  <2>1. /\ AddWeak(handle[h].node) /\ handle[h].kind \in {"strong", "weak"}
        /\ UNCHANGED <<next, prev, strong, adv, mem, drops>> /\ AgesKept
    BY <1>2 DEF CloneWeak, Borrow, AgesKept
  <2>2. WeakTaken(t, handle[h].node) /\ handle[h].node \in Nodes
    BY <1>h, <2>1 DEF WeakTaken
  <2> QED BY <2>2 DEF HeapStep
<1>3. ASSUME NEW h \in Handles, NEW o \in Handles, Upgrade(t, h, o) PROVE HeapStep(t)
  <2>1. /\ AddWeak(handle[h].node) /\ handle[h].kind \in {"strong", "weak"}
        /\ UNCHANGED <<next, prev, strong, adv, mem, drops>> /\ AgesKept
    BY <1>3 DEF Upgrade, Enter, Borrow, AgesKept
  <2>2. WeakTaken(t, handle[h].node) /\ handle[h].node \in Nodes
    BY <1>h, <2>1 DEF WeakTaken
  <2> QED BY <2>2 DEF HeapStep
<1>4. ASSUME NEW h \in Handles, Update(t, h) PROVE HeapStep(t)
  BY <1>4 DEF HeapStep, Special
<1>5. ASSUME NEW h \in Handles, Rcu(t, h) PROVE HeapStep(t)
  BY <1>5 DEF Rcu, Enter, HeapStep, HeapKept, AgesKept
<1>6. ASSUME NEW f, NEW h \in Handles, DropShift(t, f, h) PROVE HeapStep(t)
  BY <1>6 DEF DropShift, Enter, HeapStep, HeapKept, AgesKept
<1>7. ASSUME NEW h \in Handles, DropShiftWeak(t, h) PROVE HeapStep(t)
  BY <1>7 DEF DropShiftWeak, Enter, HeapStep, HeapKept, AgesKept
<1>8. ASSUME NEW f, NEW h \in Handles, Reload(t, f, h) PROVE HeapStep(t)
  BY <1>8 DEF Reload, Enter, HeapStep, HeapKept, AgesKept
<1>9. ASSUME NEW h \in Handles, SharedGet(t, h) PROVE HeapStep(t)
  BY <1>9 DEF SharedGet, Enter, HeapStep, HeapKept, AgesKept
<1> QED BY <1>1, <1>2, <1>3, <1>4, <1>5, <1>6, <1>7, <1>8, <1>9 DEF Call

(* So does every step.                                                      *)
LEMMA EveryKind ==
  ASSUME SafeInv, NEW t \in Threads, AnyStep(t)
  PROVE  HeapStep(t)
BY AdvanceKind, JanitorKind, DropKind, UpdateKind, UpgradeKind, ApiKind, CallKind DEF AnyStep, Step

-----------------------------------------------------------------------------
(* How the fields of one node change in any step of any call.              *)

\* the allocation: built, linked, given up, freed
MemMoves(t, n) ==
  \/ mem'[n] = mem[n]
  \/ /\ mem[n] = "unused" /\ mem'[n] = "private" /\ strong'[n] = 1
     /\ weak'[n] = [count |-> 1, haveNext |-> FALSE, havePrev |-> TRUE]
  \/ mem[n] = "private" /\ mem'[n] = "live" /\ UpdateCas(t) /\ CanLink(item[t], op[t].nw) /\ n = op[t].val
  \/ mem[n] = "private" /\ mem'[n] = "freed" /\ RcuCancel(t) /\ n = op[t].val /\ drops'[n] = drops[n] + 1
  \/ /\ Live(n) /\ mem'[n] = "freed" /\ ((JanitorFree(t) /\ n = jn[t].del) \/ (DropWeakFree(t) /\ n = item[t]))
     /\ drops'[n] = IF next[n].dropped THEN drops[n] ELSE drops[n] + 1

StrongMoves(t, n) ==
  \/ strong'[n] = strong[n]
  \/ Live(n) /\ strong[n] < UsizeMax - 1 /\ strong'[n] = strong[n] + 1
  \/ Live(n) /\ strong[n] \in 1..(UsizeMax - 2) /\ strong'[n] = strong[n] - 1
  \/ ClaimTeardown(t) /\ n = item[t] /\ Live(n) /\ strong[n] = 0 /\ strong'[n] = STRONG_DROPPED
  \/ mem[n] = "unused" /\ mem'[n] = "private"

WeakMoves(t, n) ==
  \/ weak'[n] = weak[n]
  \/ Live(n) /\ Vouches(t, n) /\ weak'[n] = [weak[n] EXCEPT !.count = weak[n].count + 1]
  \/ Live(n) /\ weak'[n] = [weak[n] EXCEPT !.count = weak[n].count - 1]
  \/ Live(n) /\ JanitorClearPrev(t) /\ n = jn[t].right /\ weak'[n] = [weak[n] EXCEPT !.havePrev = FALSE]
  \/ Live(n) /\ UpdateMark(t) /\ n = item[t] /\ weak'[n] = [weak[n] EXCEPT !.haveNext = TRUE]
  \/ mem[n] = "unused" /\ mem'[n] = "private"

DroppedMoves(t, n) ==
  /\ next'[n] = next[n] \/ Live(n)
  /\ \/ next'[n].dropped = next[n].dropped
     \/ PayloadMark(t) /\ MayDropPayload(pd[t].tgt, pd[t].override) /\ n = pd[t].tgt /\ next'[n].dropped

PtrMoves(t, n) ==
  (next'[n].ptr # Null => HasNext(n)) \/ (UpdateCas(t) /\ CanLink(item[t], op[t].nw) /\ n = item[t])

PrevMoves(t, n) ==
  prev'[n] = prev[n] \/ ~Live(n) \/ (JanitorUnlink(t) /\ n = jn[t].right /\ prev'[n] = jn[t].del)

DropsMoves(t, n) ==
  \/ drops'[n] = drops[n]
  \/ PayloadDrop(t) /\ n = pd[t].tgt /\ Live(n) /\ drops'[n] = drops[n] + 1
  \/ mem'[n] = "freed" /\ mem[n] \in {"private", "live"}

Moves(t, n) ==
  /\ MemMoves(t, n) /\ StrongMoves(t, n) /\ WeakMoves(t, n) /\ DroppedMoves(t, n) /\ DropsMoves(t, n)
  /\ PtrMoves(t, n) /\ PrevMoves(t, n) /\ (adv'[n] = adv[n] \/ Live(n))

(* A new node is built.                                                     *)
LEMMA BuiltMoves ==
  ASSUME OrderInv, NEW t \in Threads, NEW n \in Nodes, NEW p, Unused # {}, NewHolder(FreshNode, p), UNCHANGED <<next, adv, drops>>
  PROVE  Moves(t, n)
<1>1. FreshNode \in Nodes /\ mem[FreshNode] = "unused"
  BY FreshIsUnused
<1>2. /\ strong \in [Nodes -> 0..UsizeMax] /\ weak \in [Nodes -> WeakWords]
      /\ mem \in [Nodes -> {"unused", "private", "live", "freed"}] /\ prev \in [Nodes -> Ptrs]
  BY NodesTyped
<1>3. CASE n = FreshNode
  <2>1. /\ mem[n] = "unused" /\ mem'[n] = "private" /\ strong'[n] = 1
        /\ weak'[n] = [count |-> 1, haveNext |-> FALSE, havePrev |-> TRUE]
    BY <1>1, <1>2, <1>3 DEF NewHolder
  <2> QED BY <2>1 DEF Moves, PtrMoves, PrevMoves, HasNext, MemMoves, StrongMoves, WeakMoves, DroppedMoves, DropsMoves, Live
<1>4. CASE n # FreshNode
  <2>1. prev'[n] = prev[n] /\ mem'[n] = mem[n] /\ strong'[n] = strong[n] /\ weak'[n] = weak[n]
    BY <1>1, <1>2, <1>4 DEF NewHolder
  <2> QED BY <2>1 DEF Moves, PtrMoves, PrevMoves, HasNext, MemMoves, StrongMoves, WeakMoves, DroppedMoves, DropsMoves
<1> QED BY <1>3, <1>4

(* Whatever the step, these are the changes of a node.                      *)
LEMMA AllMoves ==
  ASSUME SafeInv, NEW t \in Threads, AnyStep(t), NEW n \in Nodes
  PROVE  Moves(t, n)
<1>d. \A m \in Derefs(t) : m \in Nodes /\ Live(m)
  BY DerefsLive DEF NoUseAfterFree
<1>t. /\ TypeOK /\ strong \in [Nodes -> 0..UsizeMax] /\ UsizeMax \in Nat /\ weak \in [Nodes -> WeakWords]
      /\ mem \in [Nodes -> {"unused", "private", "live", "freed"}] /\ next \in [Nodes -> NextWords] /\ adv \in [Nodes -> Int]
      /\ drops \in [Nodes -> Nat] /\ UsizeMax # 0
  BY SafeParts, NodesTyped, HeapAssumption
<1>1. CASE HeapKept
  BY <1>1 DEF HeapKept, heap, Moves, PtrMoves, PrevMoves, HasNext, MemMoves, StrongMoves, WeakMoves, DroppedMoves, DropsMoves
<1>2. ASSUME NEW k \in Nodes, WeakTaken(t, k) PROVE Moves(t, n)
  <2>1. /\ UNCHANGED <<next, prev, strong, adv, mem, drops>> /\ Live(k) /\ Vouches(t, k)
        /\ weak' = [weak EXCEPT ![k].count = @ + 1]
    BY <1>2 DEF WeakTaken, AddWeak
  <2>2. weak'[n] = IF n = k THEN [weak[n] EXCEPT !.count = weak[n].count + 1] ELSE weak[n]
    BY <1>t, <2>1
  <2> QED BY <2>1, <2>2 DEF Moves, PtrMoves, PrevMoves, HasNext, MemMoves, StrongMoves, WeakMoves, DroppedMoves, DropsMoves
<1>3. ASSUME NEW k \in Nodes, WeakGiven(k) PROVE Moves(t, n)
  <2>1. /\ UNCHANGED <<next, prev, strong, adv, mem, drops>> /\ Live(k)
        /\ weak' = [weak EXCEPT ![k].count = @ - 1]
    BY <1>3 DEF WeakGiven, SubWeak
  <2>2. weak'[n] = IF n = k THEN [weak[n] EXCEPT !.count = weak[n].count - 1] ELSE weak[n]
    BY <1>t, <2>1
  <2> QED BY <2>1, <2>2 DEF Moves, PtrMoves, PrevMoves, HasNext, MemMoves, StrongMoves, WeakMoves, DroppedMoves, DropsMoves
<1>4. ASSUME NEW k \in Nodes, StrongTaken(k) PROVE Moves(t, n)
  <2>1. /\ UNCHANGED <<next, prev, weak, adv, mem, drops>> /\ Live(k) /\ strong[k] < UsizeMax - 1
        /\ strong' = [strong EXCEPT ![k] = Inc(@)]
    BY <1>4 DEF StrongTaken, AddStrong
  <2>2. strong'[n] = IF n = k THEN strong[n] + 1 ELSE strong[n]
    BY <1>t, <2>1 DEF Inc
  <2> QED BY <2>1, <2>2 DEF Moves, PtrMoves, PrevMoves, HasNext, MemMoves, StrongMoves, WeakMoves, DroppedMoves, DropsMoves
<1>5. ASSUME NEW k \in Nodes, StrongGiven(k) PROVE Moves(t, n)
  <2>1. /\ UNCHANGED <<next, prev, weak, adv, mem, drops>> /\ Live(k) /\ strong[k] \in 1..(UsizeMax - 2)
        /\ strong' = [strong EXCEPT ![k] = Dec(@)]
    BY <1>5 DEF StrongGiven, SubStrong
  <2>2. strong'[n] = IF n = k THEN strong[n] - 1 ELSE strong[n]
    BY <1>t, <2>1 DEF Dec
  <2> QED BY <2>1, <2>2 DEF Moves, PtrMoves, PrevMoves, HasNext, MemMoves, StrongMoves, WeakMoves, DroppedMoves, DropsMoves
<1>6. ASSUME NEW k \in Nodes, AdvanceSet(k) PROVE Moves(t, n)
  BY <1>6 DEF AdvanceSet, Moves, PtrMoves, PrevMoves, HasNext, MemMoves, StrongMoves, WeakMoves, DroppedMoves, DropsMoves
<1>7. ASSUME NEW k \in Nodes, WordSet(k) PROVE Moves(t, n)
  BY <1>7 DEF WordSet, Moves, PtrMoves, PrevMoves, HasNext, MemMoves, StrongMoves, WeakMoves, DroppedMoves, DropsMoves
<1>8. CASE PayloadMark(t)
  <2>1. pd[t].tgt \in Nodes /\ Live(pd[t].tgt)
    BY <1>d, <1>8 DEF PayloadMark, Derefs
  <2>2. UNCHANGED <<prev, strong, weak, adv, mem, drops>>
    BY <1>8 DEF PayloadMark, OnlyNext
  <2>3. \/ MayDropPayload(pd[t].tgt, pd[t].override) /\ next' = [next EXCEPT ![pd[t].tgt].dropped = TRUE]
        \/ next' = next
    BY <1>8 DEF PayloadMark
  <2>5. next'[n].ptr = next[n].ptr
    BY <1>t, <2>3 DEF NextWords
  <2>4. DroppedMoves(t, n)
    <3>1. CASE MayDropPayload(pd[t].tgt, pd[t].override) /\ next' = [next EXCEPT ![pd[t].tgt].dropped = TRUE]
      <4>1. n = pd[t].tgt => next'[n].dropped
        BY <1>t, <3>1 DEF NextWords
      <4>2. n # pd[t].tgt => next'[n] = next[n]
        BY <1>t, <2>1, <3>1
      <4> QED BY <1>8, <2>1, <3>1, <4>1, <4>2 DEF DroppedMoves
    <3>2. CASE next' = next
      BY <3>2 DEF DroppedMoves
    <3> QED BY <2>3, <3>1, <3>2
  <2> QED BY <2>2, <2>4, <2>5 DEF Moves, PtrMoves, PrevMoves, HasNext, MemMoves, StrongMoves, WeakMoves, DropsMoves
<1>9. CASE PayloadDrop(t)
  <2>1. pd[t].tgt \in Nodes /\ Live(pd[t].tgt)
    BY <1>d, <1>9 DEF PayloadDrop, Derefs
  <2>2. UNCHANGED <<next, prev, strong, weak, adv, mem>> /\ drops' = [drops EXCEPT ![pd[t].tgt] = @ + 1]
    BY <1>9 DEF PayloadDrop, DropPayload
  <2>3. n = pd[t].tgt => drops'[n] = drops[n] + 1
    BY <1>t, <2>2
  <2>4. n # pd[t].tgt => drops'[n] = drops[n]
    BY <1>t, <2>2
  <2> QED BY <1>9, <2>1, <2>2, <2>3, <2>4 DEF Moves, PtrMoves, PrevMoves, HasNext, MemMoves, StrongMoves, WeakMoves, DropsMoves, DroppedMoves
<1>10. CASE JanitorFree(t)
  <2>1. jn[t].del \in Nodes /\ Live(jn[t].del)
    BY <1>d, <1>10 DEF JanitorFree, Janitor, Derefs
  <2>2. UNCHANGED <<next, prev, strong, weak, adv>> /\ Deallocate(t, jn[t].del)
    BY <1>10 DEF JanitorFree
  <2>3. mem' = [mem EXCEPT ![jn[t].del] = "freed"]
    BY <2>2 DEF Deallocate
  <2>4. drops' = IF next[jn[t].del].dropped THEN drops ELSE [drops EXCEPT ![jn[t].del] = @ + 1]
    BY <2>2 DEF Deallocate, DropPayload
  <2>5. CASE n = jn[t].del
    <3>1. mem'[n] = "freed" /\ Live(n) /\ drops'[n] = IF next[n].dropped THEN drops[n] ELSE drops[n] + 1
      BY <1>t, <2>1, <2>3, <2>4, <2>5
    <3> QED BY <1>10, <2>2, <2>5, <3>1 DEF Moves, PtrMoves, PrevMoves, HasNext, MemMoves, StrongMoves, WeakMoves, DropsMoves, DroppedMoves, Live
  <2>6. CASE n # jn[t].del
    <3>1. mem'[n] = mem[n] /\ drops'[n] = drops[n]
      BY <1>t, <2>1, <2>3, <2>4, <2>6
    <3> QED BY <2>2, <3>1 DEF Moves, PtrMoves, PrevMoves, HasNext, MemMoves, StrongMoves, WeakMoves, DropsMoves, DroppedMoves
  <2> QED BY <2>5, <2>6
<1>11. CASE JanitorClearPrev(t)
  <2>1. jn[t].right \in Nodes /\ Live(jn[t].right)
    BY <1>d, <1>11 DEF JanitorClearPrev, Janitor, Derefs
  <2>2. UNCHANGED <<next, prev, strong, adv, mem, drops>> /\ weak' = [weak EXCEPT ![jn[t].right].havePrev = FALSE]
    BY <1>11 DEF JanitorClearPrev, OnlyWeak
  <2>3. weak'[n] = IF n = jn[t].right THEN [weak[n] EXCEPT !.havePrev = FALSE] ELSE weak[n]
    BY <1>t, <2>2
  <2> QED BY <1>11, <2>1, <2>2, <2>3 DEF Moves, PtrMoves, PrevMoves, HasNext, MemMoves, StrongMoves, WeakMoves, DropsMoves, DroppedMoves
<1>12. CASE JanitorUnlink(t)
  BY <1>12 DEF JanitorUnlink, OnlyPrev, Moves, PtrMoves, PrevMoves, HasNext, MemMoves, StrongMoves, WeakMoves, DropsMoves, DroppedMoves
<1>13. CASE ClaimTeardown(t)
  <2>1. item[t] \in Nodes /\ Live(item[t])
    BY <1>d, <1>13 DEF ClaimTeardown, Derefs
  <2>2. /\ UNCHANGED <<next, prev, weak, adv, mem, drops>>
        /\ (strong[item[t]] = 0 /\ strong' = [strong EXCEPT ![item[t]] = STRONG_DROPPED]) \/ strong' = strong
    BY <1>13 DEF ClaimTeardown, OnlyStrong
  <2>3. StrongMoves(t, n)
    BY <1>t, <1>13, <2>1, <2>2 DEF StrongMoves
  <2> QED BY <2>2, <2>3 DEF Moves, PtrMoves, PrevMoves, HasNext, MemMoves, WeakMoves, DropsMoves, DroppedMoves
<1>14. CASE DropWeakFree(t)
  <2>1. item[t] \in Nodes /\ Live(item[t])
    BY <1>d, <1>14 DEF DropWeakFree, Derefs
  <2>2. /\ UNCHANGED <<next, prev, strong, weak, adv>> /\ mem' = [mem EXCEPT ![item[t]] = "freed"]
        /\ drops' = IF next[item[t]].dropped THEN drops ELSE [drops EXCEPT ![item[t]] = @ + 1]
    BY <1>14 DEF DropWeakFree
  <2>5. CASE n = item[t]
    <3>1. mem'[n] = "freed" /\ Live(n) /\ drops'[n] = IF next[n].dropped THEN drops[n] ELSE drops[n] + 1
      BY <1>t, <2>1, <2>2, <2>5
    <3> QED BY <1>14, <2>2, <2>5, <3>1 DEF Moves, PtrMoves, PrevMoves, HasNext, MemMoves, StrongMoves, WeakMoves, DropsMoves, DroppedMoves, Live
  <2>6. CASE n # item[t]
    <3>1. mem'[n] = mem[n] /\ drops'[n] = drops[n]
      BY <1>t, <2>1, <2>2, <2>6
    <3> QED BY <2>2, <3>1 DEF Moves, PtrMoves, PrevMoves, HasNext, MemMoves, StrongMoves, WeakMoves, DropsMoves, DroppedMoves
  <2> QED BY <2>5, <2>6
<1>15. CASE UpdateNext(t)
  <2>1. CASE /\ UNCHANGED <<next, strong, weak, adv, mem, drops>>
             /\ \/ UNCHANGED prev
                \/ op[t].val # Null /\ prev' = [prev EXCEPT ![op[t].val] = item[t]]
    <3>1. NewNode(pc[t], item[t], av[t], pd[t], op[t]) /\ pc[t] = "upd_next" /\ prev \in [Nodes -> Ptrs]
      BY <1>15, SafeParts, NodesTyped DEF OrderInv, Local, Knows, UpdateNext
    <3>2. prev'[n] = prev[n] \/ ~Live(n)
      BY <2>1, <3>1 DEF NewNode, Linking, Live
    <3> QED BY <2>1, <3>2 DEF Moves, PtrMoves, PrevMoves, HasNext, MemMoves, StrongMoves, WeakMoves, DropsMoves, DroppedMoves
  <2>2. CASE Unused # {} /\ NewHolder(FreshNode, item[t]) /\ UNCHANGED <<next, adv, drops>>
    BY <2>2, SafeParts, BuiltMoves
  <2> QED BY <1>15, <2>1, <2>2 DEF UpdateNext, heap
<1>16. CASE RcuCancel(t)
  <2>1. /\ UNCHANGED <<next, prev, strong, weak, adv>> /\ pc[t] = "upd_next"
        /\ \/ UNCHANGED <<mem, drops>>
           \/ /\ op[t].val # Null
              /\ mem' = [mem EXCEPT ![op[t].val] = "freed"]
              /\ drops' = [drops EXCEPT ![op[t].val] = @ + 1]
    BY <1>16 DEF RcuCancel
  <2>2. CASE UNCHANGED <<mem, drops>>
    BY <2>1, <2>2 DEF Moves, PtrMoves, PrevMoves, HasNext, MemMoves, StrongMoves, WeakMoves, DropsMoves, DroppedMoves
  <2>3. CASE op[t].val # Null /\ mem' = [mem EXCEPT ![op[t].val] = "freed"] /\ drops' = [drops EXCEPT ![op[t].val] = @ + 1]
    <3>1. NewNode(pc[t], item[t], av[t], pd[t], op[t])
      BY SafeParts DEF OrderInv, Local, Knows
    <3>2. mem[op[t].val] = "private"
      BY <2>1, <2>3, <3>1 DEF NewNode, Linking
    <3>3. n = op[t].val => mem'[n] = "freed" /\ drops'[n] = drops[n] + 1
      BY <1>t, <2>3
    <3>4. n # op[t].val => mem'[n] = mem[n] /\ drops'[n] = drops[n]
      BY <1>t, <2>3
    <3> QED BY <1>16, <2>1, <3>2, <3>3, <3>4 DEF Moves, PtrMoves, PrevMoves, HasNext, MemMoves, StrongMoves, WeakMoves, DropsMoves, DroppedMoves
  <2> QED BY <2>1, <2>2, <2>3
<1>17. CASE UpdateCas(t)
  <2>1. UNCHANGED <<prev, strong, weak, adv, drops>> /\ pc[t] = "upd_cas"
    BY <1>17 DEF UpdateCas
  <2>2. CASE CanLink(item[t], op[t].nw)
    <3>1. Links(t, item[t], op[t].val)
      BY <1>17, <2>2, SafeParts, UpdateLinks
    <3>2. item[t] \in Nodes /\ Live(item[t])
      BY <1>d, <2>1 DEF Derefs
    <3>3. next' = [next EXCEPT ![item[t]].ptr = op[t].val]
      BY <1>17, <2>2 DEF UpdateCas, SetNext
    <3>4. DroppedMoves(t, n)
      <4>1. n = item[t] => next'[n].dropped = next[n].dropped
        BY <1>t, <3>3 DEF NextWords
      <4>2. n # item[t] => next'[n] = next[n]
        BY <1>t, <3>3
      <4> QED BY <3>2, <4>1, <4>2 DEF DroppedMoves
    <3>6. n # item[t] => next'[n] = next[n]
      BY <1>t, <3>3
    <3>5. MemMoves(t, n)
      <4>1. n = op[t].val => mem[n] = "private" /\ mem'[n] = "live"
        BY <1>t, <3>1 DEF Links
      <4>2. n # op[t].val => mem'[n] = mem[n]
        BY <1>t, <3>1 DEF Links
      <4> QED BY <1>17, <2>2, <4>1, <4>2 DEF MemMoves
    <3> QED BY <1>17, <2>1, <2>2, <3>4, <3>5, <3>6 DEF Moves, PtrMoves, PrevMoves, HasNext, StrongMoves, WeakMoves, DropsMoves
  <2>3. CASE ~CanLink(item[t], op[t].nw)
    BY <1>17, <2>1, <2>3 DEF UpdateCas, Moves, PtrMoves, PrevMoves, HasNext, MemMoves, StrongMoves, WeakMoves, DropsMoves, DroppedMoves
  <2> QED BY <2>2, <2>3
<1>18. CASE UpdateMark(t)
  <2>1. item[t] \in Nodes /\ Live(item[t])
    BY <1>d, <1>18 DEF UpdateMark, Derefs
  <2>2. UNCHANGED <<next, prev, strong, adv, mem, drops>> /\ weak' = [weak EXCEPT ![item[t]].haveNext = TRUE]
    BY <1>18 DEF UpdateMark, OnlyWeak
  <2>3. weak'[n] = IF n = item[t] THEN [weak[n] EXCEPT !.haveNext = TRUE] ELSE weak[n]
    BY <1>t, <2>2
  <2> QED BY <1>18, <2>1, <2>2, <2>3 DEF Moves, PtrMoves, PrevMoves, HasNext, MemMoves, StrongMoves, WeakMoves, DropsMoves, DroppedMoves
<1>19. ASSUME NEW h \in Handles, Update(t, h) PROVE Moves(t, n)
  <2>1. Unused # {} /\ NewHolder(FreshNode, handle[h].node) /\ UNCHANGED <<next, adv, drops>>
    BY <1>19 DEF Update
  <2> QED BY <2>1, SafeParts, BuiltMoves
<1>20. HeapStep(t)
  BY EveryKind
<1> QED BY <1>1, <1>2, <1>3, <1>4, <1>5, <1>6, <1>7, <1>8, <1>9, <1>10, <1>11, <1>12, <1>13, <1>14, <1>15, <1>16, <1>17,
  <1>18, <1>19, <1>20 DEF HeapStep, Special

-----------------------------------------------------------------------------
(* What nobody knows stays fresh, the flags of the weak word keep telling  *)
(* the truth about the links, and STRONG_DROPPED is final.                 *)

(* What holds of every step, whoever takes it.                              *)
LEMMA StepFacts ==
  ASSUME SafeInv, NEW t \in Threads, AnyStep(t)
  PROVE  /\ OrderInv' /\ TypeOK' /\ Grows /\ BaseKept /\ AdvanceExact'
         /\ \A u \in Threads \ {t} : Still(u)
         /\ \A u \in Threads : Shape(u)' /\ Places(u)'
         /\ \A n \in Nodes : Moves(t, n)
<1>1. OrderInv'
  BY SafeParts, AnyStepKeeps
<1>2. TypeOK'
  BY <1>1 DEF OrderInv
<1>3. Grows /\ BaseKept
  BY SafeParts, AllGrow, BorrowedKept
<1>4. AdvanceExact' /\ \A u \in Threads : Shape(u)' /\ Places(u)'
  BY SafeParts, AnnouncedKept, ShapesKept, PlacesKept
<1>5. \A u \in Threads \ {t} : Still(u)
  BY SafeParts, OthersStill
<1> QED BY <1>1, <1>2, <1>3, <1>4, <1>5, AllMoves

(* A step leaves the list alone, or is one of a janitor, frees the last     *)
(* node, or links a new one.                                                *)
LEMMA StepCases ==
  ASSUME SafeInv, NEW t \in Threads, AnyStep(t)
  PROVE  \/ Quiet(t)
         \/ JanitorStep(t)
         \/ DropWeakFree(t)
         \/ UpdateCas(t) /\ CanLink(item[t], op[t].nw) /\ Links(t, item[t], op[t].val)
<1>1. CASE UpdateCas(t)
  BY <1>1, SafeParts, UpdateCasQuiet, UpdateLinks
<1>2. CASE ~UpdateCas(t)
  BY <1>2, SafeParts, AdvanceQuiet, DropQuiet, UpdateQuiet, UpgradeQuiet, ApiQuiet, CallQuiet DEF AnyStep, Step
<1> QED BY <1>1, <1>2

(* Which step a call is about to take follows from its label.               *)
LEMMA StepAt ==
  ASSUME NEW t \in Threads, AnyStep(t)
  PROVE  /\ pc[t] = "adv_load" => AdvanceLoad(t)
         /\ pc[t] = "adv_inc" => AdvanceInc(t)
         /\ pc[t] = "adv_reload" => AdvanceReload(t)
         /\ pc[t] = "adv_weak" => AdvanceWeakInc(t)
         /\ pc[t] = "adv_dec" => AdvanceDec(t)
         /\ pc[t] = "adv_unweak" => AdvanceWeakDec(t)
         /\ pc[t] = "advw_dec" => WeakLeaveStart(t)
         /\ pc[t] = "pay_mark" => PayloadMark(t)
         /\ pc[t] = "pay_drop" => PayloadDrop(t)
         /\ pc[t] = "advs_load" => StrongLoad(t)
         /\ pc[t] = "advs_incw" => StrongIncWeak(t)
         /\ pc[t] = "advs_cas" => StrongCas(t)
         /\ pc[t] = "advs_race" => StrongRaceDecWeak(t)
         /\ pc[t] = "advs_recheck" => StrongRecheck(t)
         /\ pc[t] = "advs_undo" => StrongUndo(t)
         /\ pc[t] = "advs_undo_decw" => StrongUndoDecWeak(t)
         /\ pc[t] = "advs_b_decw" => StrongDecWeakB(t)
         /\ pc[t] = "advs_a_dec" => StrongLeaveStart(t)
         /\ pc[t] = "advs_a_decw" => StrongDecWeakA(t)
         /\ pc[t] = "jan_lock" => JanitorLockStart(t)
         /\ pc[t] = "jan_sweep" => JanitorSweep(t)
         /\ pc[t] = "jan_clean" => JanitorCleanup(t)
         /\ pc[t] = "jan_unlock" => JanitorUnlockStart(t)
         /\ pc[t] = "jan_strong" => JanitorStrong(t)
         /\ pc[t] = "jan_setnext" => JanitorSetNext(t)
         /\ pc[t] = "jan_adv" => JanitorCheckAdvance(t)
         /\ pc[t] = "jan_final" => JanitorFinal(t)
         /\ pc[t] = "jan_del" => JanitorDelete(t)
         /\ pc[t] = "jan_free" => JanitorFree(t)
         /\ pc[t] = "jan_clearprev" => JanitorClearPrev(t)
         /\ pc[t] = "jan_unlink" => JanitorUnlink(t)
         /\ pc[t] = "jan_carry" => JanitorCarry(t)
         /\ pc[t] = "jan_uncarry" => JanitorUncarry(t)
         /\ pc[t] = "ds_dec" => DropStrongDec(t)
         /\ pc[t] = "dw_weak" => DropWeakLoad(t)
         /\ pc[t] = "dw_next" => DropWeakNext(t)
         /\ pc[t] = "dw_claim" => ClaimTeardown(t)
         /\ pc[t] = "dw_cas" => DropWeakCas(t)
         /\ pc[t] = "dw_free" => DropWeakFree(t)
         /\ pc[t] = "upd_next" => UpdateNext(t) \/ RcuCancel(t)
         /\ pc[t] = "upd_weak" => UpdateWeakInc(t)
         /\ pc[t] = "upd_cas" => UpdateCas(t)
         /\ pc[t] = "upd_fail" => UpdateFail(t)
         /\ pc[t] = "upd_mark" => UpdateMark(t)
         /\ pc[t] = "upd_dec" => UpdateDec(t)
         /\ pc[t] = "upd_decw" => UpdateDecWeak(t)
         /\ pc[t] = "upd_done" => UpdateDone(t)
         /\ pc[t] = "upg_strong" => UpgradeLoadStrong(t)
         /\ pc[t] = "upg_next" => UpgradeLoadNext(t)
         /\ pc[t] = "upg_incw" => UpgradeIncWeak(t)
         /\ pc[t] = "upg_cas" => UpgradeCas(t)
         /\ pc[t] = "upg_race" => UpgradeRaceDecWeak(t)
         /\ pc[t] = "upg_check" => UpgradeCheck(t)
         /\ pc[t] = "upg_undo" => UpgradeUndo(t)
         /\ pc[t] = "upg_undo_decw" => UpgradeUndoDecWeak(t)
         /\ pc[t] = "upg_done" => UpgradeDone(t)
         /\ pc[t] = "get_load" => GetLoad(t)
         /\ pc[t] = "get_done" => GetDone(t)
         /\ pc[t] = "tgm_weak" => TryGetMutWeak(t)
         /\ pc[t] = "tgm_strong" => TryGetMutStrong(t)
         /\ pc[t] = "tgm_again" => TryGetMutAgain(t)
         /\ pc[t] = "sg_load" => SharedGetLoad(t)
         /\ pc[t] = "sg_inc" => SharedGetInc(t)
         /\ pc[t] = "sg_next" => SharedGetNext(t)
         /\ pc[t] = "sg_strong" => SharedGetStrong(t)
         /\ pc[t] = "sg_cas" => SharedGetCas(t)
         /\ pc[t] = "sg_recheck" => SharedGetRecheck(t)
         /\ pc[t] = "sg_light" => SharedGetLight(t)
         /\ pc[t] = "sg_dec" => SharedGetDec(t)
         /\ pc[t] = "sg_clone" => SharedGetClone(t)
         /\ pc[t] = "reading" => FinishReading(t)
         /\ pc[t] = "mutref" => FinishReading(t)
         /\ pc[t] = "ret" => Return(t)
         /\ pc[t] = "idle" => Call(t)
<1>1. AdvanceStep(t) =>
       \/ AdvanceLoad(t) /\ pc[t] = "adv_load"
       \/ AdvanceInc(t) /\ pc[t] = "adv_inc"
       \/ AdvanceReload(t) /\ pc[t] = "adv_reload"
       \/ AdvanceWeakInc(t) /\ pc[t] = "adv_weak"
       \/ AdvanceDec(t) /\ pc[t] = "adv_dec"
       \/ AdvanceWeakDec(t) /\ pc[t] = "adv_unweak"
       \/ WeakLeaveStart(t) /\ pc[t] = "advw_dec"
       \/ PayloadMark(t) /\ pc[t] = "pay_mark"
       \/ PayloadDrop(t) /\ pc[t] = "pay_drop"
       \/ StrongLoad(t) /\ pc[t] = "advs_load"
       \/ StrongIncWeak(t) /\ pc[t] = "advs_incw"
       \/ StrongCas(t) /\ pc[t] = "advs_cas"
       \/ StrongRaceDecWeak(t) /\ pc[t] = "advs_race"
       \/ StrongRecheck(t) /\ pc[t] = "advs_recheck"
       \/ StrongUndo(t) /\ pc[t] = "advs_undo"
       \/ StrongUndoDecWeak(t) /\ pc[t] = "advs_undo_decw"
       \/ StrongDecWeakB(t) /\ pc[t] = "advs_b_decw"
       \/ StrongLeaveStart(t) /\ pc[t] = "advs_a_dec"
       \/ StrongDecWeakA(t) /\ pc[t] = "advs_a_decw"
  BY DEF AdvanceStep, AdvanceLoad, AdvanceInc, AdvanceReload, AdvanceWeakInc, AdvanceDec,
     AdvanceWeakDec, WeakLeaveStart, PayloadMark, PayloadDrop, StrongLoad, StrongIncWeak,
     StrongCas, StrongRaceDecWeak, StrongRecheck, StrongUndo, StrongUndoDecWeak, StrongDecWeakB,
     StrongLeaveStart, StrongDecWeakA
<1>2. JanitorStep(t) =>
       \/ JanitorLockStart(t) /\ pc[t] = "jan_lock"
       \/ JanitorSweep(t) /\ pc[t] = "jan_sweep"
       \/ JanitorCleanup(t) /\ pc[t] = "jan_clean"
       \/ JanitorUnlockStart(t) /\ pc[t] = "jan_unlock"
       \/ JanitorStrong(t) /\ pc[t] = "jan_strong"
       \/ JanitorSetNext(t) /\ pc[t] = "jan_setnext"
       \/ JanitorCheckAdvance(t) /\ pc[t] = "jan_adv"
       \/ JanitorFinal(t) /\ pc[t] = "jan_final"
       \/ JanitorDelete(t) /\ pc[t] = "jan_del"
       \/ JanitorFree(t) /\ pc[t] = "jan_free"
       \/ JanitorClearPrev(t) /\ pc[t] = "jan_clearprev"
       \/ JanitorUnlink(t) /\ pc[t] = "jan_unlink"
       \/ JanitorCarry(t) /\ pc[t] = "jan_carry"
       \/ JanitorUncarry(t) /\ pc[t] = "jan_uncarry"
  BY DEF JanitorStep, JanitorLockStart, JanitorSweep, JanitorCleanup, JanitorUnlockStart,
     JanitorStrong, JanitorSetNext, JanitorCheckAdvance, JanitorFinal, JanitorDelete,
     JanitorFree, JanitorClearPrev, JanitorUnlink, JanitorCarry, JanitorUncarry, Janitor
<1>3. DropStep(t) =>
       \/ DropStrongDec(t) /\ pc[t] = "ds_dec"
       \/ DropWeakLoad(t) /\ pc[t] = "dw_weak"
       \/ DropWeakNext(t) /\ pc[t] = "dw_next"
       \/ ClaimTeardown(t) /\ pc[t] = "dw_claim"
       \/ DropWeakCas(t) /\ pc[t] = "dw_cas"
       \/ DropWeakFree(t) /\ pc[t] = "dw_free"
  BY DEF DropStep, DropStrongDec, DropWeakLoad, DropWeakNext, ClaimTeardown, DropWeakCas,
     DropWeakFree
<1>4. UpdateStep(t) =>
       \/ UpdateNext(t) /\ pc[t] = "upd_next"
       \/ RcuCancel(t) /\ pc[t] = "upd_next"
       \/ UpdateWeakInc(t) /\ pc[t] = "upd_weak"
       \/ UpdateCas(t) /\ pc[t] = "upd_cas"
       \/ UpdateFail(t) /\ pc[t] = "upd_fail"
       \/ UpdateMark(t) /\ pc[t] = "upd_mark"
       \/ UpdateDec(t) /\ pc[t] = "upd_dec"
       \/ UpdateDecWeak(t) /\ pc[t] = "upd_decw"
       \/ UpdateDone(t) /\ pc[t] = "upd_done"
  BY DEF UpdateStep, UpdateNext, RcuCancel, UpdateWeakInc, UpdateCas, UpdateFail, UpdateMark,
     UpdateDec, UpdateDecWeak, UpdateDone
<1>5. UpgradeStep(t) =>
       \/ UpgradeLoadStrong(t) /\ pc[t] = "upg_strong"
       \/ UpgradeLoadNext(t) /\ pc[t] = "upg_next"
       \/ UpgradeIncWeak(t) /\ pc[t] = "upg_incw"
       \/ UpgradeCas(t) /\ pc[t] = "upg_cas"
       \/ UpgradeRaceDecWeak(t) /\ pc[t] = "upg_race"
       \/ UpgradeCheck(t) /\ pc[t] = "upg_check"
       \/ UpgradeUndo(t) /\ pc[t] = "upg_undo"
       \/ UpgradeUndoDecWeak(t) /\ pc[t] = "upg_undo_decw"
       \/ UpgradeDone(t) /\ pc[t] = "upg_done"
  BY DEF UpgradeStep, UpgradeLoadStrong, UpgradeLoadNext, UpgradeIncWeak, UpgradeCas,
     UpgradeRaceDecWeak, UpgradeCheck, UpgradeUndo, UpgradeUndoDecWeak, UpgradeDone
<1>6. ApiStep(t) =>
       \/ GetLoad(t) /\ pc[t] = "get_load"
       \/ GetDone(t) /\ pc[t] = "get_done"
       \/ TryGetMutWeak(t) /\ pc[t] = "tgm_weak"
       \/ TryGetMutStrong(t) /\ pc[t] = "tgm_strong"
       \/ TryGetMutAgain(t) /\ pc[t] = "tgm_again"
       \/ SharedGetLoad(t) /\ pc[t] = "sg_load"
       \/ SharedGetInc(t) /\ pc[t] = "sg_inc"
       \/ SharedGetNext(t) /\ pc[t] = "sg_next"
       \/ SharedGetStrong(t) /\ pc[t] = "sg_strong"
       \/ SharedGetCas(t) /\ pc[t] = "sg_cas"
       \/ SharedGetRecheck(t) /\ pc[t] = "sg_recheck"
       \/ SharedGetLight(t) /\ pc[t] = "sg_light"
       \/ SharedGetDec(t) /\ pc[t] = "sg_dec"
       \/ SharedGetClone(t) /\ pc[t] = "sg_clone"
       \/ FinishReading(t) /\ pc[t] \in {"reading", "mutref"}
       \/ Return(t) /\ pc[t] = "ret"
  BY DEF ApiStep, GetLoad, GetDone, TryGetMutWeak, TryGetMutStrong, TryGetMutAgain,
     SharedGetLoad, SharedGetInc, SharedGetNext, SharedGetStrong, SharedGetCas,
     SharedGetRecheck, SharedGetLight, SharedGetDec, SharedGetClone, FinishReading, Return
<1>7. Call(t) => pc[t] = "idle"
  BY DEF Call, Clone, CloneWeak, Upgrade, Update, Rcu, DropShift, DropShiftWeak, Reload, SharedGet, Enter, Admitted
<1> QED BY <1>1, <1>2, <1>3, <1>4, <1>5, <1>6, <1>7 DEF AnyStep, Step

(* A node that was allocated and not published is as its creator left it.  *)
LEMMA PrivateKept ==
  ASSUME SafeInv, NEW t \in Threads, AnyStep(t)
  PROVE  PrivateFresh'
<1> SUFFICES ASSUME NEW n \in Nodes, mem'[n] \in {"unused", "private"}
             PROVE  /\ next'[n] = NullNext /\ adv'[n] = 0 /\ drops'[n] = 0
                    /\ mem'[n] = "unused" => strong'[n] = 0
                    /\ mem'[n] = "private" => strong'[n] = 1 /\ weak'[n] = [count |-> 1, haveNext |-> FALSE, havePrev |-> TRUE]
  BY DEF PrivateFresh
<1>1. Moves(t, n)
  BY AllMoves
<1>2. mem[n] \in {"unused", "private"} /\ ~Live(n)
  BY <1>1 DEF Moves, MemMoves, Live
<1>3. /\ next[n] = NullNext /\ adv[n] = 0 /\ drops[n] = 0
      /\ mem[n] = "unused" => strong[n] = 0
      /\ mem[n] = "private" => strong[n] = 1 /\ weak[n] = [count |-> 1, haveNext |-> FALSE, havePrev |-> TRUE]
  BY <1>2, SafeParts DEF PrivateFresh
<1>4. next'[n] = NullNext /\ adv'[n] = 0 /\ drops'[n] = 0
  BY <1>1, <1>2, <1>3 DEF Moves, DroppedMoves, DropsMoves
<1>5. CASE mem'[n] = mem[n]
  BY <1>1, <1>2, <1>3, <1>4, <1>5 DEF Moves, StrongMoves, WeakMoves
<1>6. CASE mem'[n] # mem[n]
  BY <1>1, <1>2, <1>4, <1>6 DEF Moves, MemMoves
<1> QED BY <1>5, <1>6

(* STRONG_DROPPED is final, and installed only by do_drop_weak.             *)
LEMMA SentinelKept ==
  ASSUME SafeInv, NEW t \in Threads, AnyStep(t), NEW n \in Nodes
  PROVE  /\ strong[n] = STRONG_DROPPED => strong'[n] = STRONG_DROPPED
         /\ strong'[n] = STRONG_DROPPED /\ strong[n] # STRONG_DROPPED
              => ClaimTeardown(t) /\ n = item[t] /\ strong[n] = 0 /\ Live(n)
<1>1. Moves(t, n) /\ strong \in [Nodes -> 0..UsizeMax] /\ UsizeMax \in Nat /\ UsizeMax > 1 /\ PrivateFresh
  <2>1. Cardinality(Handles) \in Nat /\ Cardinality(Threads) \in Nat /\ Cardinality(Handles) # 0
    BY HeapAssumption, FS_CardinalityType, FS_EmptySet
  <2>2. UsizeMax > 1
    BY <2>1, HeapAssumption
  <2> QED BY <2>2, AllMoves, SafeParts, NodesTyped
<1>2. CASE mem[n] = "unused" /\ mem'[n] = "private"
  BY <1>1, <1>2 DEF Moves, MemMoves, PrivateFresh, STRONG_DROPPED, Live
<1>3. CASE ~(mem[n] = "unused" /\ mem'[n] = "private")
  BY <1>1, <1>3 DEF Moves, StrongMoves, STRONG_DROPPED
<1> QED BY <1>2, <1>3

(* The flags of the weak word agree with the links, but for a call that is *)
(* about to set or has just cleared them.                                   *)
LEMMA FlaggedKept ==
  ASSUME SafeInv, NEW t \in Threads, AnyStep(t)
  PROVE  Flagged'
<1>f. /\ Grows /\ TypeOK' /\ TypeOK /\ (\A u \in Threads \ {t} : Still(u)) /\ Flagged /\ PrivateFresh
      /\ weak \in [Nodes -> WeakWords] /\ Null \notin Nodes /\ ListInv
  BY StepFacts, SafeParts, NodesTyped, ListParts
<1>r. /\ pc \in [Threads -> Labels] /\ item \in [Threads -> Nodes] /\ jn \in [Threads -> JanitorFrames]
      /\ next \in [Nodes -> NextWords] /\ prev \in [Nodes -> Ptrs] /\ jn[t] \in JanitorFrames
  BY <1>f DEF TypeOK
<1>p. /\ UpdateMark(t) => HasNext(item[t])
      /\ UpdateMark(t) => weak'[item[t]].haveNext
      /\ pc[t] = "upd_mark" => UpdateMark(t)
      /\ pc[t] = "jan_unlink" => JanitorUnlink(t)
      /\ JanitorClearPrev(t) => pc'[t] = "jan_unlink" /\ jn'[t] = jn[t] /\ jn[t].del = Null
      /\ JanitorUnlink(t) => pc[t] = "jan_unlink" /\ prev'[jn[t].right] = jn[t].del
      /\ UpdateCas(t) /\ CanLink(item[t], op[t].nw) => pc'[t] = "upd_mark" /\ item' = item
  <2>1. UpdateMark(t) => HasNext(item[t])
    BY SafeParts DEF Places, UpdateMark
  <2>2. UpdateMark(t) => weak'[item[t]].haveNext
    BY <1>f, <1>r DEF UpdateMark, WeakWords
  <2>3. JanitorClearPrev(t) => pc'[t] = "jan_unlink" /\ jn'[t] = jn[t] /\ jn[t].del = Null
    BY <1>f, <1>r, JanitorFacts DEF JanitorClearPrev, Janitor, Goto, JanitorOrdered
  <2>4. JanitorUnlink(t) => pc[t] = "jan_unlink" /\ prev'[jn[t].right] = jn[t].del
    <3>1. JanitorUnlink(t) => jn[t].right \in Nodes
      BY <1>r, JanitorFacts, <1>f DEF JanitorUnlink, Janitor, JanitorKnows, Freeing, Ptrs
    <3> QED BY <1>r, <3>1 DEF JanitorUnlink, Janitor
  <2>5. UpdateCas(t) /\ CanLink(item[t], op[t].nw) => pc'[t] = "upd_mark" /\ item' = item
    BY <1>r DEF UpdateCas, Goto, locals
  <2> QED BY <2>1, <2>2, <2>3, <2>4, <2>5, StepAt
<1> SUFFICES ASSUME NEW n \in Nodes, mem'[n] = "live"
             PROVE  /\ weak'[n].haveNext => next'[n].ptr # Null
                    /\ next'[n].ptr # Null /\ ~weak'[n].haveNext => \E u \in Threads : pc'[u] = "upd_mark" /\ item'[u] = n
                    /\ ~weak'[n].havePrev => prev'[n] = Null \/ \E u \in Threads : pc'[u] = "jan_unlink" /\ jn'[u].right = n /\ jn'[u].del = Null
  BY DEF Flagged, Live, HasNext
<1>1. Moves(t, n) /\ weak[n] \in WeakWords
  BY <1>f, AllMoves
<1>2. CASE Live(n)
  <2>1. /\ weak[n].haveNext => HasNext(n)
        /\ HasNext(n) /\ ~weak[n].haveNext => \E u \in Threads : pc[u] = "upd_mark" /\ item[u] = n
        /\ ~weak[n].havePrev => prev[n] = Null \/ \E u \in Threads : pc[u] = "jan_unlink" /\ jn[u].right = n /\ jn[u].del = Null
    BY <1>2, <1>f DEF Flagged
  <2>2. /\ weak'[n].haveNext => weak[n].haveNext \/ (UpdateMark(t) /\ n = item[t])
        /\ weak[n].haveNext => weak'[n].haveNext
        /\ ~weak'[n].havePrev => ~weak[n].havePrev \/ (JanitorClearPrev(t) /\ n = jn[t].right)
    BY <1>1, <1>2 DEF Moves, WeakMoves, WeakWords, Live
  <2>3. HasNext(n) => next'[n].ptr # Null
    BY <1>f DEF Grows, HasNext
  <2>4. weak'[n].haveNext => next'[n].ptr # Null
    BY <1>p, <2>1, <2>2, <2>3
  <2>5. ASSUME next'[n].ptr # Null, ~weak'[n].haveNext PROVE \E u \in Threads : pc'[u] = "upd_mark" /\ item'[u] = n
    <3>1. CASE HasNext(n)
      <4>1. PICK u \in Threads : pc[u] = "upd_mark" /\ item[u] = n
        BY <2>1, <2>2, <2>5, <3>1
      <4>2. u # t
        BY <1>p, <2>5, <4>1
      <4> QED BY <1>f, <4>1, <4>2 DEF Still
    <3>2. CASE ~HasNext(n)
      BY <1>1, <1>p, <2>5, <3>2 DEF Moves, PtrMoves
    <3> QED BY <3>1, <3>2
  <2>6. ASSUME ~weak'[n].havePrev
        PROVE  prev'[n] = Null \/ \E u \in Threads : pc'[u] = "jan_unlink" /\ jn'[u].right = n /\ jn'[u].del = Null
    <3>1. CASE JanitorClearPrev(t) /\ n = jn[t].right
      BY <1>p, <3>1
    <3>2. CASE ~weak[n].havePrev /\ prev[n] = Null
      <4>1. ~(JanitorUnlink(t) /\ n = jn[t].right)
        BY <1>f, <3>2, JanitorFacts DEF JanitorUnlink, Janitor, JanitorKnows, Freeing
      <4> QED BY <1>1, <1>2, <3>2, <4>1 DEF Moves, PrevMoves
    <3>3. CASE \E u \in Threads : pc[u] = "jan_unlink" /\ jn[u].right = n /\ jn[u].del = Null
      <4>1. PICK u \in Threads : pc[u] = "jan_unlink" /\ jn[u].right = n /\ jn[u].del = Null
        BY <3>3
      <4>2. CASE u = t
        BY <1>p, <4>1, <4>2
      <4>3. CASE u # t
        BY <1>f, <4>1, <4>3 DEF Still
      <4> QED BY <4>2, <4>3
    <3> QED BY <2>1, <2>2, <2>6, <3>1, <3>2, <3>3
  <2> QED BY <2>4, <2>5, <2>6
<1>3. CASE ~Live(n)
  <2>1. mem[n] = "private" /\ UpdateCas(t)
    BY <1>1, <1>3 DEF Moves, MemMoves, Live
  <2>2. next[n] = NullNext /\ weak[n] = [count |-> 1, haveNext |-> FALSE, havePrev |-> TRUE]
    BY <1>f, <2>1 DEF PrivateFresh
  <2>3. weak'[n] = weak[n] /\ next'[n] = next[n]
    BY <1>1, <1>3, <2>1 DEF Moves, WeakMoves, DroppedMoves
  <2> QED BY <2>2, <2>3 DEF NullNext
<1> QED BY <1>2, <1>3

-----------------------------------------------------------------------------
(* Who frees the last node of the chain is alone: no handle and no call    *)
(* refers to any node any more.                                            *)

\* t has no reference of its own
Bare(t) ==
  /\ ~StrongOnStart(t) /\ ~StrongOnItem(t) /\ ~StrongOnNew(t) /\ ~WeakOnStart(t) /\ ~WeakOnItem(t) /\ ~WeakForGroup(t)
  /\ pc[t] \notin {"sg_recheck", "sg_light", "adv_dec", "adv_unweak"}

(* A reference to the one node that is left would be counted.               *)
LEMMA Uncounted ==
  ASSUME SafeInv, NEW i \in Nodes, Live(i), \A n \in Nodes : Live(n) => n = i, weak[i].count = 0
  PROVE  /\ StrongHolders(i) = {} /\ WeakHolders(i) = {}
         /\ \A u \in Threads : Bare(u)
         /\ \A h \in Handles : handle[h].kind \notin {"strong", "weak"}
<1>t. /\ \A u \in Threads : item[u] \in Nodes /\ av[u].start \in Nodes /\ av[u].nxt \in Nodes /\ op[u].nxt \in Nodes /\ op[u].val \in Ptrs
      /\ handle \in [Handles -> HandleStates] /\ strong \in [Nodes -> 0..UsizeMax] /\ UsizeMax \in Nat
  BY SafeParts, NodesTyped
<1>1. WeakHolders(i) = {}
  <2>1. Cardinality(WeakHolders(i)) = 0
    BY SafeParts DEF WeakExact
  <2> QED BY <2>1, HoldersOf, FS_EmptySet
<1>2. StrongHolders(i) = {}
  <2>1. LiveStrong(strong[i]) = Cardinality(StrongHolders(i)) /\ Cardinality(StrongHolders(i)) \in Nat
    BY SafeParts, HoldersOf DEF StrongExact
  <2>2. ~(LiveStrong(strong[i]) > 0)
    <3>1. <<"group", i>> \notin WeakHolders(i)
      BY <1>1
    <3> QED BY <3>1 DEF WeakHolders
  <2>3. Cardinality(StrongHolders(i)) = 0
    BY <2>1, <2>2
  <2> QED BY <2>3, HoldersOf, FS_EmptySet
<1>3. ASSUME NEW u \in Threads PROVE Bare(u)
  <2>1. HeldLive(u)
    BY SafeParts
  <2>2. ~StrongOnStart(u)
    BY <1>2, <1>t, <2>1, StrongHolderOf DEF HeldLive
  <2>3. ~StrongOnItem(u)
    BY <1>2, <1>t, <2>1, StrongHolderOf DEF HeldLive
  <2>4. ~StrongOnNew(u)
    <3>1. StrongOnNew(u) => op[u].val # Null
      <4>1. NewNode(pc[u], item[u], av[u], pd[u], op[u]) /\ Shape(u) /\ Frames(pc[u], av[u], pd[u])
        BY SafeParts DEF OrderInv, Local, Knows
      <4>2. jn[u].ret \in {"idle", "dw_weak", "upd_done", "get_done"} /\ pd[u].ret \in {"idle", "advs_a_decw", "dw_cas", "upd_decw"}
        BY SafeParts, NodesTyped DEF TypeOK, JanitorFrames, PayloadFrames
      <4>3. StrongOnNew(u) => pc[u] \in {"upd_mark", "upd_dec", "upd_decw"} \/ pd[u].ret = "upd_decw"
        BY <4>2 DEF StrongOnNew, At
      <4>4. StrongOnNew(u) => Linked(pc[u], pd[u])
        BY <4>3 DEF Linked
      <4> QED BY <4>1, <4>4 DEF NewNode
    <3>2. StrongOnNew(u) => op[u].val \in Nodes
      BY <1>t, <3>1 DEF Ptrs
    <3> QED BY <1>2, <3>2, <2>1, StrongHolderOf DEF HeldLive
  <2>5. pc[u] \notin {"sg_recheck", "sg_light"}
    BY <1>2, <1>t, <2>1, StrongHolderOf DEF HeldLive
  <2>6. ~WeakOnStart(u)
    <3>1. WeakOnStart(u) /\ av[u].start = i => <<"start", u>> \in WeakHolders(i)
      BY DEF WeakHolders
    <3> QED BY <1>1, <1>t, <2>1, <3>1 DEF HeldLive
  <2>7. ~WeakOnItem(u)
    <3>1. WeakOnItem(u) /\ item[u] = i => <<"item", u>> \in WeakHolders(i)
      BY DEF WeakHolders
    <3> QED BY <1>1, <1>t, <2>1, <3>1 DEF HeldLive
  <2>8. ~WeakForGroup(u)
    <3>1. WeakForGroup(u) /\ item[u] = i => <<"extra", u>> \in WeakHolders(i)
      BY DEF WeakHolders
    <3> QED BY <1>1, <1>t, <2>1, <3>1 DEF HeldLive
  <2>9. pc[u] \notin {"adv_dec", "adv_unweak"}
    <3>1. pc[u] \in {"adv_dec", "adv_unweak"} /\ av[u].nxt = i => <<"nxt", u>> \in WeakHolders(i)
      BY DEF WeakHolders
    <3> QED BY <1>1, <1>t, <2>1, <3>1 DEF HeldLive
  <2> QED BY <2>2, <2>3, <2>4, <2>5, <2>6, <2>7, <2>8, <2>9 DEF Bare
<1>4. ASSUME NEW h \in Handles PROVE handle[h].kind \notin {"strong", "weak"}
  <2>1. handle[h].kind \in {"strong", "weak"} => handle[h].node = i
    BY <1>t, SafeParts DEF HandlesLive, HandleStates
  <2>2. handle[h].kind # "strong"
    BY <1>2, <1>t, <2>1, StrongHolderOf
  <2>3. handle[h].kind # "weak"
    <3>1. handle[h] = [kind |-> "weak", node |-> i] => <<"handle", h>> \in WeakHolders(i)
      BY DEF WeakHolders
    <3> QED BY <1>1, <1>t, <2>1, <3>1 DEF HandleStates
  <2> QED BY <2>2, <2>3
<1> QED BY <1>1, <1>2, <1>3, <1>4

(* A call without a reference has not begun, is over or frees the last node. *)
LEMMA BareIsDone ==
  ASSUME SafeInv, NEW u \in Threads, Bare(u), \A h \in Handles : handle[h].kind \notin {"strong", "weak"}
  PROVE  pc[u] \in {"idle", "ret", "dw_free"}
<1>1. pc[u] \in Labels /\ av[u] \in AdvanceFrames /\ pd[u] \in PayloadFrames /\ jn[u] \in JanitorFrames /\ op[u] \in CallFrames
  BY SafeParts, NodesTyped DEF TypeOK
<1>2. Shape(u)
  BY SafeParts
<1>3. ~(pc[u] # "idle" /\ op[u].f = "sharedGet")
  BY Borrowed
<1>4. av[u].mode \in {"strong", "weak"} /\ pd[u].ret \in {"idle", "advs_a_decw", "dw_cas", "upd_decw"}
  BY <1>1 DEF AdvanceFrames, PayloadFrames
<1>5. pc[u] \notin Walking \cup Swapping \cup SwappedIn \cup {"advw_dec", "advs_a_decw"}
  BY <1>4 DEF Bare, StrongOnStart, WeakOnStart, At
<1>6. pc[u] \notin Dropping
  BY <1>2, <1>4 DEF Bare, WeakOnStart, WeakOnItem, At, Shape
<1>7. pc[u] \notin Janitoring
  BY <1>2 DEF Bare, WeakOnItem, StrongOnItem, At, Shape, Continues
<1>8. pc[u] \notin SharedGetting
  BY <1>2, <1>3 DEF Shape
<1>9. pc[u] # "reading"
  BY <1>2, <1>3 DEF Shape, Bare, StrongOnItem
<1>10. pc[u] \notin Updating \cup Upgrading \cup {"dw_weak", "dw_next", "dw_claim", "dw_cas"}
                    \cup {"ds_dec", "get_load", "get_done", "tgm_weak", "tgm_strong", "tgm_again", "mutref"}
  BY DEF Bare, StrongOnItem, WeakOnItem, At, Updating, Upgrading
<1> QED BY <1>1, <1>5, <1>6, <1>7, <1>8, <1>9, <1>10 DEF Labels, Janitoring, Updating, Upgrading

(* Before it frees the last node, do_drop_weak is alone.                    *)
LEMMA Alone ==
  ASSUME SafeInv, NEW t \in Threads, pc[t] = "dw_free"
  PROVE  /\ item[t] \in Nodes /\ Live(item[t]) /\ (\A n \in Nodes : Live(n) => n = item[t])
         /\ StrongHolders(item[t]) = {} /\ WeakHolders(item[t]) = {}
         /\ \A u \in Threads : Bare(u)
         /\ \A u \in Threads \ {t} : pc[u] \in {"idle", "ret"}
         /\ \A h \in Handles : handle[h].kind \notin {"strong", "weak"}
<1>1. item[t] \in Nodes /\ HeldLive(t) /\ WordKnown(t)
  BY SafeParts, NodesTyped
<1>2. /\ Live(item[t]) /\ (\A n \in Nodes : Live(n) => n = item[t]) /\ weak[item[t]].count = 0
      /\ \A u \in Threads : pc[u] = "dw_free" => u = t
  BY <1>1 DEF HeldLive, WordKnown
<1>3. /\ StrongHolders(item[t]) = {} /\ WeakHolders(item[t]) = {}
      /\ \A u \in Threads : Bare(u)
      /\ \A h \in Handles : handle[h].kind \notin {"strong", "weak"}
  BY <1>1, <1>2, Uncounted
<1> QED BY <1>1, <1>2, <1>3, BareIsDone

(* The label at which a call has no business with the chain.                *)
Away == {"idle", "ret"}

(* The last node is freed: nothing is left.                                 *)
LEMMA LastFree ==
  ASSUME SafeInv, NEW t \in Threads, DropWeakFree(t)
  PROVE  SafeInv'
<1>0. AnyStep(t)
  BY DEF AnyStep, Step, DropStep
<1>1. /\ OrderInv' /\ TypeOK' /\ AdvanceExact' /\ \A u \in Threads \ {t} : Still(u)
      /\ \A u \in Threads : Shape(u)' /\ Places(u)'
  BY <1>0, StepFacts
<1>2. PrivateFresh' /\ Flagged'
  BY <1>0, PrivateKept, FlaggedKept
<1>3. TypeOK /\ item[t] \in Nodes /\ mem \in [Nodes -> {"unused", "private", "live", "freed"}] /\ drops \in [Nodes -> Nat]
  BY SafeParts, NodesTyped
<1>4. /\ pc[t] = "dw_free"
      /\ mem' = [mem EXCEPT ![item[t]] = "freed"]
      /\ drops' = (IF next[item[t]].dropped THEN drops ELSE [drops EXCEPT ![item[t]] = @ + 1])
      /\ UNCHANGED <<next, prev, strong, weak, adv, client, pd>>
      /\ op'[t].f = op[t].f /\ op'[t].ok = op[t].ok /\ op'[t].guard = op[t].guard /\ op'[t].hnd = op[t].hnd
      /\ pc'[t] = dr[t].ret /\ dr'[t] = IdleDrop /\ jn'[t] = IdleJanitor /\ UNCHANGED <<item, av>>
  BY <1>3, DropWeakFreeEffect
<1>5. /\ Live(item[t]) /\ (\A n \in Nodes : Live(n) => n = item[t])
      /\ \A u \in Threads : Bare(u)
      /\ \A u \in Threads \ {t} : pc[u] \in {"idle", "ret"}
      /\ \A h \in Handles : handle[h].kind \notin {"strong", "weak"}
  BY <1>4, Alone
<1>6. \A n \in Nodes : mem'[n] # "live"
  BY <1>3, <1>4, <1>5 DEF Live
<1>7. pc'[t] = "ret" /\ ~(HoldsValue(op[t].f) /\ op[t].ok) /\ op[t].f # "rcu"
  <2>1. Shape(t) /\ dr[t].ret \in {"idle", "ret", "sg_dec"}
    BY <1>3, SafeParts DEF TypeOK, DropFrames
  <2>2. op[t].f # "sharedGet"
    BY <1>4, <1>5, Borrowed
  <2>3. dr[t].ret # "idle" /\ DropShape(op[t].f, op[t].ok, op[t].guard, dr[t].ret)
    BY <1>4, <2>1 DEF Shape, Dying
  <2> QED BY <1>4, <2>1, <2>2, <2>3 DEF DropShape, HoldsValue
<1>8. \A u \in Threads : pc'[u] \in {"idle", "ret"} /\ pd'[u].ret = "idle"
  <2>1. \A u \in Threads : pc'[u] \in {"idle", "ret"}
    BY <1>1, <1>5, <1>7 DEF Still
  <2>2. \A u \in Threads : Frames(pc'[u], av'[u], pd'[u])
    BY <1>1 DEF OrderInv, Local, Knows
  <2> QED BY <2>1, <2>2 DEF Frames
<1>9. ASSUME NEW u \in Threads PROVE ~StrongOnItem(u)'
  <2>1. CASE u = t
    BY <1>4, <1>7, <1>8, <2>1 DEF StrongOnItem, At, Janitoring
  <2>2. CASE u # t
    BY <1>1, <1>5, <1>8, <2>2 DEF Still, Bare, StrongOnItem, At, Janitoring
  <2> QED BY <2>1, <2>2
<1>10. ASSUME NEW u \in Threads PROVE JanitorKnows(u)' /\ WordKnown(u)' /\ Unreferenced(u)' /\ HeldLive(u)'
  <2>1. pc'[u] \in {"idle", "ret"} /\ pd'[u].ret = "idle"
    BY <1>8
  <2>2. JanitorKnows(u)'
    BY <2>1 DEF JanitorKnows, Redirecting, Freeing
  <2>3. WordKnown(u)' /\ Unreferenced(u)'
    BY <2>1 DEF WordKnown, Unreferenced
  <2>4. HeldLive(u)'
    BY <1>9, <2>1 DEF HeldLive, StrongOnStart, WeakOnStart, WeakOnItem, WeakForGroup, StrongOnNew, At, Janitoring
  <2> QED BY <2>2, <2>3, <2>4
<1>11. Listed' /\ LocksHeld' /\ HandlesLive' /\ StrongExact' /\ WeakExact'
  BY <1>4, <1>5, <1>6 DEF Listed, LocksHeld, HandlesLive, StrongExact, WeakExact, Live, client
<1>12. Followed'
  BY <1>6, <1>8 DEF Followed, Follows, Live
<1>13. TeardownSafe'
  BY <1>6, <1>8 DEF TeardownSafe, Live, Redirecting, Freeing
<1>14. PayloadsSafe'
  <2>1. PayloadsSafe /\ pc[t] # "pay_drop" /\ \A u \in Threads : pc[u] # "pay_drop"
    BY <1>4, <1>5, SafeParts
  <2>2. ASSUME NEW n \in Nodes, mem'[n] = "freed" PROVE drops'[n] = 1
    <3>1. CASE n = item[t]
      <4>1. next[n].dropped => drops[n] = 1
        BY <1>5, <2>1, <3>1 DEF PayloadsSafe
      <4>2. ~next[n].dropped => drops[n] = 0
        BY <1>5, <2>1, <3>1 DEF PayloadsSafe
      <4> QED BY <1>3, <1>4, <3>1, <4>1, <4>2
    <3>2. CASE n # item[t]
      BY <1>3, <1>4, <2>1, <2>2, <3>2 DEF PayloadsSafe
    <3> QED BY <3>1, <3>2
  <2> QED BY <1>6, <1>8, <2>2 DEF PayloadsSafe, Live
<1> QED BY <1>1, <1>2, <1>10, <1>11, <1>12, <1>13, <1>14 DEF SafeInv

(* While the last node is about to be freed, the others can only return.    *)
LEMMA AloneStep ==
  ASSUME SafeInv, NEW t \in Threads, pc[t] = "dw_free", NEW u \in Threads \ {t}, AnyStep(u)
  PROVE  Return(u)
<1>1. pc[u] \in {"idle", "ret"} /\ \A h \in Handles : handle[h].kind \notin {"strong", "weak"}
  BY Alone
<1>2. ~Call(u)
  BY <1>1 DEF Call, Clone, CloneWeak, Upgrade, Update, Rcu, DropShift, DropShiftWeak, Reload, SharedGet, Borrow, Take
<1>3. pc[u] # "idle"
  BY <1>2, StepAt
<1> QED BY <1>1, <1>3, StepAt

-----------------------------------------------------------------------------
(* What is referred to stays allocated: a janitor frees only nodes that    *)
(* nobody has a reference to, and whatever lists, locks and references say *)
(* holds after every step.                                                 *)

\* u has no reference of its own to d
Spurns(u, d) ==
  /\ StrongOnStart(u) \/ WeakOnStart(u) => av[u].start # d
  /\ StrongOnItem(u) \/ WeakOnItem(u) \/ WeakForGroup(u) \/ pc[u] = "dw_free" => item[u] # d
  /\ StrongOnNew(u) => op[u].val # d
  /\ pc[u] \in {"sg_recheck", "sg_light"} => op[u].nxt # d
  /\ pc[u] \in {"adv_dec", "adv_unweak"} => av[u].nxt # d

(* The node that a janitor is about to free has no reference but the link  *)
(* of the node next to it on its right.                                    *)
LEMMA OnlyLink ==
  ASSUME SafeInv, NEW t \in Threads, pc[t] = "jan_free"
  PROVE  /\ jn[t].del \in Nodes /\ Live(jn[t].del) /\ jn[t].right \in Nodes /\ Live(jn[t].right)
         /\ Before(jn[t].del, jn[t].right) /\ jn[t].rdel = Null
         /\ StrongHolders(jn[t].del) = {}
         /\ \A u \in Threads : Spurns(u, jn[t].del)
         /\ \A h \in Handles : handle[h].kind \in {"strong", "weak"} => handle[h].node # jn[t].del
         /\ \A u \in Threads : pc[u] # "dw_free"
         /\ WeakHolders(jn[t].del) \subseteq {<<"link", jn[t].right>>, <<"gap", t>>}
<1> DEFINE d == jn[t].del
<1>1. /\ jn[t] \in JanitorFrames /\ Null \notin Nodes /\ stamp \in [Nodes -> Nat] /\ strong \in [Nodes -> 0..UsizeMax]
      /\ handle \in [Handles -> HandleStates] /\ UsizeMax \in Nat
      /\ \A u \in Threads : item[u] \in Nodes /\ av[u].start \in Nodes /\ av[u].nxt \in Nodes /\ op[u].nxt \in Nodes /\ op[u].val \in Ptrs
  BY SafeParts, NodesTyped DEF TypeOK
<1>2. /\ jn[t].right # Null /\ Live(jn[t].right) /\ jn[t].rdel = Null /\ d # Null /\ Live(d) /\ Before(d, jn[t].right)
      /\ jn[t].cur # Null /\ prev[jn[t].right] = jn[t].cur
  BY SafeParts DEF JanitorKnows, Freeing
<1>3. d \in Nodes /\ jn[t].right \in Nodes
  BY <1>1, <1>2 DEF JanitorFrames, Ptrs
<1>4. WeakHolders(d) \subseteq {<<"link", jn[t].right>>, <<"gap", t>>}
  <2>1. IsFiniteSet(WeakHolders(d)) /\ Cardinality(WeakHolders(d)) <= 1
    BY <1>2, <1>3, SafeParts, HoldersOf DEF WeakExact, Unreferenced
  <2>2. <<"link", jn[t].right>> \in WeakHolders(d) \/ <<"gap", t>> \in WeakHolders(d)
    <3>1. CASE d = jn[t].cur
      BY <1>2, <1>3, <3>1 DEF WeakHolders, Live
    <3>2. CASE d # jn[t].cur
      BY <3>2 DEF WeakHolders, WeakOnGap
    <3> QED BY <3>1, <3>2
  <2> HIDE DEF d
  <2> QED BY <2>1, <2>2, OnlyOne
<1>5. StrongHolders(d) = {}
  <2>1. LiveStrong(strong[d]) = Cardinality(StrongHolders(d)) /\ Cardinality(StrongHolders(d)) \in Nat /\ IsFiniteSet(StrongHolders(d))
    BY <1>2, <1>3, SafeParts, HoldersOf DEF StrongExact
  <2>2. ~(LiveStrong(strong[d]) > 0)
    <3>1. <<"group", d>> \notin WeakHolders(d)
      BY <1>4
    <3> QED BY <3>1 DEF WeakHolders
  <2> HIDE DEF d
  <2>3. Cardinality(StrongHolders(d)) = 0
    BY <2>1, <2>2
  <2> QED BY <2>1, <2>3, FS_EmptySet
<1>6. \A u \in Threads : pc[u] # "dw_free"
  <2>1. \A u \in Threads : pc[u] = "dw_free" => jn[t].right = d
    BY <1>2, <1>3, Alone
  <2> QED BY <1>1, <1>2, <1>3, <2>1 DEF Before
<1>7. ASSUME NEW u \in Threads PROVE Spurns(u, d)
  <2>1. StrongOnStart(u) => av[u].start # d
    BY <1>3, <1>5, StrongHolderOf
  <2>2. StrongOnItem(u) => item[u] # d
    BY <1>3, <1>5, StrongHolderOf
  <2>3. StrongOnNew(u) => op[u].val # d
    BY <1>3, <1>5, StrongHolderOf
  <2>4. pc[u] \in {"sg_recheck", "sg_light"} => op[u].nxt # d
    BY <1>3, <1>5, StrongHolderOf
  <2>5. WeakOnStart(u) => av[u].start # d
    <3>1. WeakOnStart(u) /\ av[u].start = d => <<"start", u>> \in WeakHolders(d)
      BY DEF WeakHolders
    <3> QED BY <1>4, <3>1
  <2>6. WeakOnItem(u) => item[u] # d
    <3>1. WeakOnItem(u) /\ item[u] = d => <<"item", u>> \in WeakHolders(d)
      BY DEF WeakHolders
    <3> QED BY <1>4, <3>1
  <2>7. WeakForGroup(u) => item[u] # d
    <3>1. WeakForGroup(u) /\ item[u] = d => <<"extra", u>> \in WeakHolders(d)
      BY DEF WeakHolders
    <3> QED BY <1>4, <3>1
  <2>8. pc[u] \in {"adv_dec", "adv_unweak"} => av[u].nxt # d
    <3>1. pc[u] \in {"adv_dec", "adv_unweak"} /\ av[u].nxt = d => <<"nxt", u>> \in WeakHolders(d)
      BY DEF WeakHolders
    <3> QED BY <1>4, <3>1
  <2> QED BY <1>6, <2>1, <2>2, <2>3, <2>4, <2>5, <2>6, <2>7, <2>8 DEF Spurns
<1>8. ASSUME NEW h \in Handles, handle[h].kind \in {"strong", "weak"} PROVE handle[h].node # d
  <2>1. CASE handle[h].kind = "strong"
    BY <1>1, <1>3, <1>5, <2>1, StrongHolderOf
  <2>2. CASE handle[h].kind = "weak"
    <3>1. handle[h] = [kind |-> "weak", node |-> d] => <<"handle", h>> \in WeakHolders(d)
      BY DEF WeakHolders
    <3> QED BY <1>1, <1>4, <2>2, <3>1 DEF HandleStates
  <2> QED BY <1>8, <2>1, <2>2
<1> QED BY <1>2, <1>3, <1>4, <1>5, <1>6, <1>7, <1>8

(* A node that its creator has linked and counts is a node.                 *)
LEMMA NewIsNode ==
  ASSUME SafeInv, NEW u \in Threads, StrongOnNew(u)
  PROVE  op[u].val \in Nodes /\ Linked(pc[u], pd[u])
<1>1. NewNode(pc[u], item[u], av[u], pd[u], op[u]) /\ op[u].val \in Ptrs
  BY SafeParts, NodesTyped DEF OrderInv, Local, Knows
<1>2. jn[u].ret \in {"idle", "dw_weak", "upd_done", "get_done"} /\ pd[u].ret \in {"idle", "advs_a_decw", "dw_cas", "upd_decw"}
  BY SafeParts, NodesTyped DEF TypeOK, JanitorFrames, PayloadFrames
<1>3. pc[u] \in {"upd_mark", "upd_dec", "upd_decw"} \/ pd[u].ret = "upd_decw"
  BY <1>2 DEF StrongOnNew, At
<1>4. Linked(pc[u], pd[u])
  BY <1>3 DEF Linked
<1> QED BY <1>1, <1>4 DEF NewNode, Ptrs

(* Nothing is freed except by a janitor or by who frees the last node.      *)
LEMMA FreedBy ==
  ASSUME SafeInv, NEW t \in Threads, AnyStep(t), ~JanitorFree(t), ~DropWeakFree(t)
  PROVE  FreesNone
<1>1. \A n \in Nodes : MemMoves(t, n)
  BY StepFacts DEF Moves
<1> QED BY <1>1 DEF FreesNone, MemMoves, Live

(* The references that a step of t leaves behind are to live nodes.         *)
LEMMA HeldKept ==
  ASSUME SafeInv, NEW t \in Threads, AnyStep(t)
  PROVE  HandlesLive' /\ \A u \in Threads : HeldLive(u)'
<1>0. OrderInv /\ HandlesLive /\ Shape(t) /\ Holding(t) /\ \A u \in Threads : HeldLive(u)
  BY SafeParts, ListParts
<1>1. \A u \in Threads \ {t} : Still(u)
  BY StepFacts
<1>2. CASE DropWeakFree(t)
  <2>1. SafeInv'
    BY <1>2, LastFree
  <2> QED BY <2>1 DEF SafeInv
<1>3. CASE JanitorFree(t)
  <2>1. /\ pc[t] = "jan_free" /\ UNCHANGED <<handle, item, av, pd>>
        /\ mem' = [mem EXCEPT ![jn[t].del] = "freed"]
        /\ pc'[t] = (IF prev[jn[t].del] = Null THEN "jan_clearprev" ELSE "jan_del") /\ jn'[t].ret = jn[t].ret
    BY <1>0, <1>3, JanitorFreeMoves, NodesTyped
  <2>2. \A n : mem[n] = "live" /\ n # jn[t].del => mem'[n] = "live"
    <3>1. mem \in [Nodes -> {"unused", "private", "live", "freed"}]
      BY <1>0, NodesTyped
    <3> QED BY <2>1, <3>1
  <2>3. /\ \A u \in Threads : Spurns(u, jn[t].del)
        /\ \A h \in Handles : handle[h].kind \in {"strong", "weak"} => handle[h].node # jn[t].del
    BY <2>1, OnlyLink
  <2>4. ASSUME NEW u \in Threads \ {t} PROVE HeldLive(u)'
    <3>1. /\ StrongOnStart(u)' = StrongOnStart(u) /\ WeakOnStart(u)' = WeakOnStart(u) /\ StrongOnItem(u)' = StrongOnItem(u)
          /\ WeakOnItem(u)' = WeakOnItem(u) /\ WeakForGroup(u)' = WeakForGroup(u) /\ StrongOnNew(u)' = StrongOnNew(u)
      BY <1>1 DEF Still, StrongOnStart, WeakOnStart, StrongOnItem, WeakOnItem, WeakForGroup, StrongOnNew, At
    <3>2. pc'[u] = pc[u] /\ item'[u] = item[u] /\ av'[u] = av[u] /\ op'[u] = op[u] /\ HeldLive(u) /\ Spurns(u, jn[t].del)
      BY <1>0, <1>1, <2>3 DEF Still
    <3> QED BY <2>2, <3>1, <3>2 DEF HeldLive, Spurns, Live
  <2>5. HeldLive(t)'
    <3>1. /\ ~StrongOnStart(t)' /\ ~WeakForGroup(t)' /\ pc'[t] \notin {"dw_free", "sg_recheck", "sg_light", "adv_dec", "adv_unweak"}
          /\ (StrongOnItem(t)' => StrongOnItem(t)) /\ (WeakOnItem(t)' => WeakOnItem(t))
      BY <2>1 DEF StrongOnStart, WeakForGroup, StrongOnItem, WeakOnItem, At, Janitoring
    <3>2. ~WeakOnStart(t)' /\ ~StrongOnNew(t)'
      <4>1. jn[t].ret \in {"idle", "dw_weak", "upd_done", "get_done"}
        BY <1>0, NodesTyped DEF TypeOK, JanitorFrames
      <4> QED BY <2>1, <4>1 DEF WeakOnStart, StrongOnNew, At, Janitoring
    <3>3. HeldLive(t) /\ Spurns(t, jn[t].del) /\ item'[t] = item[t]
      BY <1>0, <2>1, <2>3
    <3> QED BY <2>2, <3>1, <3>2, <3>3 DEF HeldLive, Spurns, Live
  <2>6. HandlesLive'
    BY <1>0, <2>1, <2>2, <2>3 DEF HandlesLive, Live
  <2> QED BY <2>4, <2>5, <2>6
<1>4. CASE ~JanitorFree(t) /\ ~DropWeakFree(t)
  <2>1. FreesNone
    BY <1>4, FreedBy
  <2>2. HeldLive(t)' /\ HandlesLive'
    BY <1>0, <1>4, <2>1, AdvanceHeld, JanitorHeld, DropHeld, UpdateHeld, UpgradeHeld, ApiHeld, ReturnHeld, CallHeld DEF AnyStep, Step
  <2>3. ASSUME NEW u \in Threads \ {t} PROVE HeldLive(u)'
    <3>1. /\ StrongOnStart(u)' = StrongOnStart(u) /\ WeakOnStart(u)' = WeakOnStart(u) /\ StrongOnItem(u)' = StrongOnItem(u)
          /\ WeakOnItem(u)' = WeakOnItem(u) /\ WeakForGroup(u)' = WeakForGroup(u) /\ StrongOnNew(u)' = StrongOnNew(u)
      BY <1>1 DEF Still, StrongOnStart, WeakOnStart, StrongOnItem, WeakOnItem, WeakForGroup, StrongOnNew, At
    <3>2. pc'[u] = pc[u] /\ item'[u] = item[u] /\ av'[u] = av[u] /\ op'[u] = op[u] /\ HeldLive(u)
      BY <1>0, <1>1 DEF Still
    <3>3. /\ \A n \in Nodes : Live(n) => mem'[n] = "live"
          /\ item[u] \in Nodes /\ av[u].start \in Nodes /\ av[u].nxt \in Nodes /\ op[u].nxt \in Nodes
          /\ StrongOnNew(u) => op[u].val \in Nodes
      BY <1>0, <2>1, NodesTyped, NewIsNode DEF FreesNone, Live
    <3> QED BY <3>1, <3>2, <3>3 DEF HeldLive, Live
  <2> QED BY <2>2, <2>3
<1> QED BY <1>2, <1>3, <1>4

(* The list, the locks and what the janitors know survive every step.       *)
LEMMA ListKept ==
  ASSUME SafeInv, NEW t \in Threads, AnyStep(t)
  PROVE  Listed' /\ LocksHeld' /\ RedirectsHold' /\ \A u \in Threads : JanitorKnows(u)'
<1>1. ListInv /\ RedirectsHold /\ TypeOK' /\ \A u \in Threads \ {t} : Still(u)
  BY StepFacts, ListParts
<1>2. CASE Quiet(t)
  BY <1>1, <1>2, QuietKeepsList
<1>3. CASE JanitorStep(t)
  BY <1>1, <1>3, JanitorKeepsList
<1>4. CASE DropWeakFree(t)
  <2>1. SafeInv'
    BY <1>4, LastFree
  <2> QED BY <2>1 DEF SafeInv, RedirectsHold, Followed
<1>5. CASE UpdateCas(t) /\ CanLink(item[t], op[t].nw) /\ Links(t, item[t], op[t].val)
  <2>1. pc[t] = "upd_cas" /\ HeldLive(t)
    BY <1>5, SafeParts DEF Links
  <2>2. Live(item[t])
    BY <2>1 DEF HeldLive, StrongOnItem, At
  <2> HIDE DEF Links
  <2>3. Links(t, item[t], op[t].val)
    BY <1>5
  <2> QED BY <1>1, <2>2, <2>3, LinkingKeepsList
<1> QED BY <1>2, <1>3, <1>4, <1>5, StepCases

(* A janitor begins to free a node when it has found no reference to it.    *)
LEMMA FreeFrom ==
  ASSUME SafeInv, NEW t \in Threads, AnyStep(t), pc'[t] = "jan_free"
  PROVE  JanitorDelete(t) /\ pc[t] = "jan_del" /\ weak[jn[t].del].count <= 1 /\ UNCHANGED weak /\ jn'[t].del = jn[t].del
<1>1. TypeOK /\ TypeOK'
  BY SafeParts, NodesTyped, StepFacts
<1>2. jn[t] \in JanitorFrames /\ dr[t].ret \in {"idle", "ret", "sg_dec"}
  BY <1>1 DEF TypeOK, DropFrames
<1>3. JanitorStep(t)
  <2>1. ~Quiet(t)
    BY DEF Quiet, Janitoring
  <2>2. ~DropWeakFree(t)
    BY <1>1, <1>2, DropWeakFreeEffect
  <2>3. ~(UpdateCas(t) /\ CanLink(item[t], op[t].nw) /\ Links(t, item[t], op[t].val))
    BY DEF Links
  <2> QED BY <2>1, <2>2, <2>3, StepCases
<1>4. jn[t].ret # "jan_free"
  BY <1>2 DEF JanitorFrames
<1>5. JanitorDelete(t)
  <2>1. ~JanitorLockStart(t)
    BY <1>1, <1>4, JanitorLockStartMoves DEF Janitoring
  <2>2. ~JanitorSweep(t)
    <3>1. pc[t] = "jan_sweep" => jn[t].cur \in Nodes
      BY <1>2, SafeParts DEF JanitorKnows, JanitorFrames, Ptrs
    <3>2. pc[t] # "jan_sweep" => ~JanitorSweep(t)
      BY DEF JanitorSweep, Janitor
    <3> QED BY <1>1, <3>1, <3>2, JanitorSweepMoves
  <2>3. ~JanitorCleanup(t)
    BY <1>1, <1>4, JanitorCleanupMoves DEF Janitoring
  <2>4. ~JanitorUnlockStart(t)
    BY <1>1, <1>4, JanitorUnlockStartMoves DEF Janitoring
  <2>5. ~JanitorStrong(t)
    BY <1>1, <1>4, JanitorStrongMoves DEF Janitoring
  <2>6. ~JanitorSetNext(t)
    BY <1>1, <1>4, JanitorSetNextMoves DEF Janitoring
  <2>7. ~JanitorCheckAdvance(t)
    BY <1>1, <1>4, JanitorCheckAdvanceMoves DEF Janitoring
  <2>8. ~JanitorFinal(t)
    BY <1>1, <1>4, JanitorFinalMoves DEF Janitoring
  <2>9. ~JanitorFree(t)
    BY <1>1, <1>4, JanitorFreeMoves DEF Janitoring
  <2>10. ~JanitorClearPrev(t)
    BY <1>1, <1>4, JanitorClearPrevMoves DEF Janitoring
  <2>11. ~JanitorUnlink(t)
    BY <1>1, <1>4, JanitorUnlinkMoves DEF Janitoring
  <2>12. ~JanitorCarry(t)
    BY <1>1, <1>4, JanitorCarryMoves DEF Janitoring
  <2>13. ~JanitorUncarry(t)
    BY <1>1, <1>4, JanitorUncarryMoves DEF Janitoring
  <2> QED BY <1>3, <2>1, <2>2, <2>3, <2>4, <2>5, <2>6, <2>7, <2>8, <2>9, <2>10, <2>11, <2>12, <2>13 DEF JanitorStep
<1>6. UNCHANGED weak
  BY <1>5 DEF JanitorDelete, ReadOnly, heap
<1> QED BY <1>1, <1>5, <1>6, JanitorDeleteMoves

(* No reference to the node comes back before the janitor frees it.         *)
LEMMA UnreferencedKept ==
  ASSUME SafeInv, NEW t \in Threads, AnyStep(t)
  PROVE  \A u \in Threads : Unreferenced(u)'
<1>1. CASE DropWeakFree(t)
  <2>1. SafeInv'
    BY <1>1, LastFree
  <2> QED BY <2>1 DEF SafeInv
<1>2. Unreferenced(t)'
  BY FreeFrom DEF Unreferenced
<1>3. ASSUME NEW u \in Threads \ {t}, ~DropWeakFree(t) PROVE Unreferenced(u)'
  <2>1. SUFFICES ASSUME pc'[u] = "jan_free" PROVE weak'[jn'[u].del].count <= 1
    BY DEF Unreferenced
  <2>2. pc[u] = "jan_free" /\ jn'[u] = jn[u]
    BY <2>1, StepFacts DEF Still
  <2>3. PICK d \in Nodes : d = jn[u].del
    BY <2>2, OnlyLink
  <2>4. Live(d) /\ weak[d].count <= 1 /\ weak \in [Nodes -> WeakWords]
    BY <2>2, <2>3, OnlyLink, SafeParts, NodesTyped DEF Unreferenced
  <2>5. ~Vouches(t, d)
    <3>1. Spurns(t, d) /\ \A h \in Handles : handle[h].kind \in {"strong", "weak"} => handle[h].node # d
      BY <2>2, <2>3, OnlyLink
    <3>2. ~(pc[t] = "adv_weak" /\ av[t].nxt = d)
      <4>1. SUFFICES ASSUME pc[t] = "adv_weak", av[t].nxt = d PROVE FALSE
        OBVIOUS
      <4>2. Follows(t, item[t], d) /\ item[t] \in Nodes
        BY <4>1, SafeParts, NodesTyped DEF Follows
      <4>3. Spares(u, d)
        BY <2>2, <2>3, <4>2, SafeParts DEF Followed, Freeing
      <4> QED BY <2>2, <2>3, <4>3, OnlyLink DEF Spares, Redirecting
    <3> QED BY <3>1, <3>2 DEF Vouches, Spurns
  <2>6. WeakMoves(t, d)
    BY <2>3, StepFacts DEF Moves
  <2>7. weak'[d].count <= 1
    <3>1. weak[d].count \in Int /\ weak[d] \in WeakWords
      BY <2>3, <2>4 DEF WeakWords
    <3> QED BY <2>4, <2>5, <2>6, <3>1 DEF WeakMoves, Live, WeakWords
  <2> QED BY <2>2, <2>3, <2>7
<1> QED BY <1>1, <1>2, <1>3

-----------------------------------------------------------------------------
(* strong_count stays the number of strong references in every step.       *)

(* Handles change when a call begins and when it returns.                   *)
LEMMA HandlesStay ==
  ASSUME TypeOK, NEW t \in Threads, Step(t), ~Return(t)
  PROVE  UNCHANGED handle
<1>1. AdvanceStep(t) => UNCHANGED handle
  BY DEF AdvanceStep, AdvanceLoad, AdvanceInc, AdvanceReload, AdvanceWeakInc, AdvanceDec, AdvanceWeakDec, WeakLeaveStart, PayloadMark,
     PayloadDrop, StrongLoad, StrongIncWeak, StrongCas, StrongRaceDecWeak, StrongRecheck, StrongUndo, StrongUndoDecWeak,
     StrongDecWeakB, StrongLeaveStart, StrongDecWeakA, ReadOnly, OnlyNext, OnlyAdv, OnlyWeak, OnlyStrong, client
<1>2. JanitorStep(t) => UNCHANGED handle
  BY JanitorStays
<1>3. DropStep(t) => UNCHANGED handle
  BY DEF DropStep, DropStrongDec, DropWeakLoad, DropWeakNext, ClaimTeardown, DropWeakCas, DropWeakFree, ReadOnly, OnlyWeak,
     OnlyStrong, client
<1>4. UpdateStep(t) => UNCHANGED handle
  BY DEF UpdateStep, UpdateNext, RcuCancel, UpdateWeakInc, UpdateCas, UpdateFail, UpdateMark, UpdateDec, UpdateDecWeak, UpdateDone,
     ReadOnly, OnlyWeak, OnlyStrong, client
<1>5. UpgradeStep(t) => UNCHANGED handle
  BY DEF UpgradeStep, UpgradeLoadStrong, UpgradeLoadNext, UpgradeIncWeak, UpgradeCas, UpgradeRaceDecWeak, UpgradeCheck, UpgradeUndo,
     UpgradeUndoDecWeak, UpgradeDone, ReadOnly, OnlyWeak, OnlyStrong, client
<1>6. ApiStep(t) => UNCHANGED handle
  BY DEF ApiStep, GetLoad, GetDone, TryGetMutWeak, TryGetMutStrong, TryGetMutAgain, SharedGetLoad, SharedGetInc, SharedGetNext,
     SharedGetStrong, SharedGetCas, SharedGetRecheck, SharedGetLight, SharedGetDec, SharedGetClone, FinishReading,
     ReadOnly, OnlyAdv, OnlyStrong, client
<1> QED BY <1>1, <1>2, <1>3, <1>4, <1>5, <1>6 DEF Step

\* a call concerns one handle besides those it borrows
OnlyHandle(x) == \A g \in Handles \ {x} : handle'[g] = handle[g]

(* Every step keeps the balance between count and holders of live nodes.    *)
LEMMA StrongBalance ==
  ASSUME SafeInv, NEW t \in Threads, AnyStep(t)
  PROVE  \E x \in Handles : StrongStep(t, x) /\ OnlyHandle(x)
<1>1. OrderInv /\ TypeOK /\ TypeOK' /\ \A h \in Handles : StrongRoom(t, h)
  BY SafeParts, NodesTyped, StepFacts, StrongRoomAll
<1>2. CASE Call(t)
  BY <1>1, <1>2, CallStrongCount DEF OnlyHandle
<1>3. CASE Return(t)
  BY <1>1, <1>3, ReturnStrongCount DEF OnlyHandle
<1>4. CASE Step(t) /\ ~Return(t)
  <2>1. PICK h \in Handles : TRUE
    BY HeapAssumption
  <2>2. StrongRoom(t, h)
    BY <1>1
  <2>3. StrongStep(t, h)
    BY <1>1, <1>4, <2>2, AdvanceStrongCount, JanitorStrongCount, DropStrongCount, UpdateStrongCount, UpgradeStrongCount,
       ApiStrongCount DEF Step
  <2>4. OnlyHandle(h)
    BY <1>1, <1>4, HandlesStay DEF OnlyHandle
  <2> QED BY <2>3, <2>4
<1> QED BY <1>2, <1>3, <1>4 DEF AnyStep

(* Nobody refers to a node that is not linked.                              *)
LEMMA PrivateUnheld ==
  ASSUME SafeInv, NEW n \in Nodes, ~Live(n)
  PROVE  StrongHolders(n) = {}
<1>1. /\ \A u \in Threads : HeldLive(u) /\ (StrongOnStart(u) => av[u].start # n) /\ (StrongOnItem(u) => item[u] # n)
                            /\ (StrongOnNew(u) => op[u].val # n) /\ (pc[u] \in {"sg_recheck", "sg_light"} => op[u].nxt # n)
  BY SafeParts DEF HeldLive
<1>2. \A h \in Handles : handle[h] # [kind |-> "strong", node |-> n]
  BY SafeParts DEF HandlesLive
<1> QED BY <1>1, <1>2 DEF StrongHolders

(* The new node of an update begins with one reference, its creator's.      *)
LEMMA LinkedStrong ==
  ASSUME SafeInv, NEW t \in Threads, UpdateCas(t), CanLink(item[t], op[t].nw), NEW n \in Nodes, n = op[t].val, mem[n] = "private"
  PROVE  LiveStrong(strong[n])' = Cardinality(StrongHolders(n)')
<1>0. AnyStep(t)
  BY DEF AnyStep, Step, UpdateStep
<1>1. Links(t, item[t], n)
  BY SafeParts, UpdateLinks
<1>2. strong'[n] = 1
  BY <1>1, SafeParts DEF Links, PrivateFresh
<1>3. 1 # UsizeMax
  <2>1. Live(item[t]) /\ <<"item", t>> \in StrongHolders(item[t]) /\ item[t] \in Nodes
    <3>1. StrongOnItem(t) /\ HeldLive(t) /\ item[t] \in Nodes
      BY <1>1, SafeParts, NodesTyped DEF Links, StrongOnItem, At
    <3> QED BY <3>1, StrongHolderOf DEF HeldLive
  <2>2. strong[item[t]] \in 1..(UsizeMax - 2) /\ UsizeMax \in Nat
    BY <2>1, StrongKnown, SafeParts, NodesTyped
  <2> QED BY <2>2
<1>4. StrongHolders(n)' = {<<"new", t>>}
  <2>1. StrongHolders(n) = {}
    BY <1>1, PrivateUnheld DEF Live
  <2>2. UNCHANGED <<handle, locals>> /\ pc'[t] = "upd_mark" /\ pc[t] = "upd_cas" /\ \A u \in Threads \ {t} : pc'[u] = pc[u]
    BY <1>0, <1>1, StepFacts DEF Links, Still
  <2>3. \A h \in Handles : handle'[h] # [kind |-> "strong", node |-> n]
    <3>1. ASSUME NEW h \in Handles, handle[h] = [kind |-> "strong", node |-> n] PROVE FALSE
      <4>1. <<"handle", h>> \in StrongHolders(n)
        BY <3>1 DEF StrongHolders
      <4> QED BY <2>1, <4>1
    <3> QED BY <2>2, <3>1
  <2>4. ASSUME NEW u \in Threads \ {t}
        PROVE  /\ ~(StrongOnStart(u)' /\ av'[u].start = n) /\ ~(StrongOnItem(u)' /\ item'[u] = n) /\ ~(StrongOnNew(u)' /\ op'[u].val = n)
               /\ ~(pc'[u] \in {"sg_recheck", "sg_light"} /\ op'[u].nxt = n)
    <3>1. /\ StrongOnStart(u)' = StrongOnStart(u) /\ StrongOnItem(u)' = StrongOnItem(u) /\ StrongOnNew(u)' = StrongOnNew(u)
      BY <2>2 DEF StrongOnStart, StrongOnItem, StrongOnNew, At, locals
    <3>2. /\ ~(StrongOnStart(u) /\ av[u].start = n) /\ ~(StrongOnItem(u) /\ item[u] = n) /\ ~(StrongOnNew(u) /\ op[u].val = n)
          /\ ~(pc[u] \in {"sg_recheck", "sg_light"} /\ op[u].nxt = n)
      BY <2>1 DEF StrongHolders
    <3> QED BY <2>2, <3>1, <3>2 DEF locals
  <2>5. /\ ~StrongOnStart(t)' /\ ~(StrongOnItem(t)' /\ item'[t] = n) /\ StrongOnNew(t)' /\ op'[t].val = n
        /\ pc'[t] \notin {"sg_recheck", "sg_light"}
    <3>1. item[t] # n
      <4>1. StrongOnItem(t)
        BY <2>2 DEF StrongOnItem, At
      <4> QED BY <4>1, <2>1 DEF StrongHolders
    <3> QED BY <2>2, <3>1 DEF StrongOnStart, StrongOnItem, StrongOnNew, At, locals
  <2> QED BY <2>3, <2>4, <2>5 DEF StrongHolders
<1>5. Cardinality(StrongHolders(n)') = 1
  BY <1>4, FS_Singleton
<1> QED BY <1>2, <1>3, <1>5 DEF LiveStrong, STRONG_DROPPED

(* strong_count is the number of strong references after every step.       *)
LEMMA StrongKept ==
  ASSUME SafeInv, NEW t \in Threads, AnyStep(t)
  PROVE  StrongExact'
<1>1. SUFFICES ASSUME NEW n \in Nodes, mem'[n] = "live" PROVE LiveStrong(strong[n])' = Cardinality(StrongHolders(n)')
  BY DEF StrongExact, Live
<1>2. CASE Live(n)
  <2>1. PICK x \in Handles : StrongStep(t, x) /\ OnlyHandle(x)
    BY StrongBalance
  <2>2. LiveStrong(strong[n])' - StrongOf(t, x, n)' = LiveStrong(strong[n]) - StrongOf(t, x, n)
    BY <1>2, <2>1 DEF StrongStep
  <2>3. /\ Cardinality(StrongHolders(n)) \in Nat /\ Cardinality(StrongHolders(n)') \in Nat
        /\ Cardinality(StrongHolders(n)') - StrongOf(t, x, n)' = Cardinality(StrongHolders(n)) - StrongOf(t, x, n)
    BY <2>1, StepFacts, StrongChange DEF OnlyHandle
  <2>4. LiveStrong(strong[n]) = Cardinality(StrongHolders(n))
    BY <1>2, SafeParts DEF StrongExact
  <2>5. StrongOf(t, x, n) \in Int /\ StrongOf(t, x, n)' \in Int
    BY DEF StrongOf, Ind
  <2>6. LiveStrong(strong[n])' \in Int
    BY StepFacts, HeapAssumption DEF TypeOK, LiveStrong
  <2> HIDE DEF LiveStrong, StrongOf
  <2> QED BY <2>2, <2>3, <2>4, <2>5, <2>6
<1>3. CASE ~Live(n)
  <2>1. MemMoves(t, n)
    BY StepFacts DEF Moves
  <2>2. mem[n] = "private" /\ UpdateCas(t) /\ CanLink(item[t], op[t].nw) /\ n = op[t].val
    BY <1>1, <1>3, <2>1 DEF MemMoves, Live
  <2> QED BY <2>2, LinkedStrong
<1> QED BY <1>2, <1>3

-----------------------------------------------------------------------------
(* weak_count stays the number of weak references in every step: those of  *)
(* ArcShiftWeaks and calls, one for the node to the right, one for all     *)
(* strong references together, and one for each link that a janitor has    *)
(* taken off a node it frees.                                              *)

\* the weak references to n that t, h and the strong group can be
WeakHand(t, h, n) == Ind(handle[h] = [kind |-> "weak", node |-> n]) + WeakMine(t, n)

WeakByHand(t, h) == \A n \in Nodes : Live(n) => weak'[n].count - WeakHand(t, h, n)' = weak[n].count - WeakHand(t, h, n)

(* A call that begins takes the weak references it counts.                  *)
LEMMA CallWeak ==
  ASSUME SafeInv, NEW t \in Threads, Call(t)
  PROVE  \E x \in Handles : WeakByHand(t, x) /\ OnlyHandle(x)
<1>k. /\ OrderInv /\ TypeOK /\ strong \in [Nodes -> 0..UsizeMax] /\ UsizeMax \in Nat /\ weak \in [Nodes -> WeakWords]
      /\ mem \in [Nodes -> {"unused", "private", "live", "freed"}] /\ handle \in [Handles -> HandleStates]
      /\ pc \in [Threads -> Labels]
  BY SafeParts, NodesTyped DEF TypeOK
<1>c. \A n \in Nodes : weak[n].count \in Int /\ weak[n] \in WeakWords
  BY <1>k DEF WeakWords
<1>i. ASSUME NEW l, l \in {"idle", "get_load", "sg_load"}, pc[t] = l, NEW n \in Nodes PROVE WeakMine(t, n) = Ind(LiveStrong(strong[n]) > 0)
  BY <1>i DEF WeakMine, Ind, WeakOnStart, WeakOnItem, WeakForGroup, WeakOnGap, At, Janitoring
<1>j. ASSUME pc'[t] \in {"idle", "get_load", "sg_load"}, NEW n \in Nodes PROVE WeakMine(t, n)' = Ind(LiveStrong(strong'[n]) > 0)
  BY <1>j DEF WeakMine, Ind, WeakOnStart, WeakOnItem, WeakForGroup, WeakOnGap, At, Janitoring, LiveStrong
<1>s. ASSUME NEW m, NEW mode, NEW ret, Starts(t, m, mode, ret), NEW n \in Nodes
      PROVE  WeakMine(t, n)' = Ind(LiveStrong(strong'[n]) > 0) + Ind(mode = "weak" /\ m = n)
  BY <1>s DEF WeakMine, Ind, WeakOnStart, WeakOnItem, WeakForGroup, WeakOnGap, At, Janitoring, LiveStrong, Starts
<1>1. ASSUME NEW h \in Handles, NEW o \in Handles, Clone(t, h, o) PROVE WeakByHand(t, o) /\ OnlyHandle(o)
  <2>1. /\ Entered(t, "clone", h, o, Null)
        /\ handle[h].kind = "strong"
        /\ handle[o].kind = "none"
        /\ handle' = [handle EXCEPT ![o] = Busy]
        /\ AddStrong(handle[h].node)
        /\ Starts(t, handle[h].node, "strong", "ret")
        /\ UNCHANGED <<next, prev, weak, adv, mem, drops, jn, dr>>
    BY <1>k, <1>1, CloneEffect
  <2>2. pc[t] = "idle" /\ OnlyHandle(o)
    BY <1>k, <2>1 DEF Entered, OnlyHandle, Busy
  <2>n. handle[h].kind # "none" => handle[h].node \in Nodes
    BY <1>k DEF HandleStates
  <2>3. ASSUME NEW n \in Nodes, Live(n) PROVE LiveStrong(strong'[n]) > 0 <=> LiveStrong(strong[n]) > 0
    <3>1. CASE n = handle[h].node
      <4>1. <<"handle", h>> \in StrongHolders(n)
        BY <1>k, <2>1, <3>1, StrongHolderOf
      <4>2. strong[n] \in 1..(UsizeMax - 2)
        BY <2>3, <4>1, StrongKnown
      <4> QED BY <1>k, <2>1, <3>1, <4>2 DEF AddStrong, Inc, LiveStrong, STRONG_DROPPED
    <3>2. CASE n # handle[h].node
      BY <1>k, <2>1, <3>2 DEF AddStrong
    <3> QED BY <3>1, <3>2
  <2>w. ASSUME NEW n \in Nodes, Live(n) PROVE weak'[n].count = weak[n].count
    BY <1>k, <1>c, <2>1, <2>w DEF Live, WeakWords, Busy
  <2>4. ASSUME NEW n \in Nodes, Live(n) PROVE WeakMine(t, n)' - WeakMine(t, n) = 0
    <3>1. WeakMine(t, n) = Ind(LiveStrong(strong[n]) > 0)
      BY <1>i, <2>2
    <3>2. WeakMine(t, n)' = Ind(LiveStrong(strong'[n]) > 0) + Ind("strong" = "weak" /\ handle[h].node = n)
      BY <1>s, <2>1
    <3> QED BY <2>3, <2>4, <3>1, <3>2 DEF Ind
  <2>5. ASSUME NEW n \in Nodes PROVE Ind(handle'[o] = [kind |-> "weak", node |-> n]) - Ind(handle[o] = [kind |-> "weak", node |-> n]) = 0
    BY <1>k, <2>1, <2>n DEF Ind, HandleStates, Busy
  <2>6. WeakByHand(t, o)
    <3>1. \A n \in Nodes : WeakMine(t, n) \in Int /\ WeakMine(t, n)' \in Int /\ Ind(handle[h].node = n) \in Int
          /\ Ind(handle[o] = [kind |-> "weak", node |-> n]) \in Int /\ Ind(handle'[o] = [kind |-> "weak", node |-> n]) \in Int
      BY DEF WeakMine, Ind
    <3> SUFFICES ASSUME NEW n \in Nodes, Live(n) PROVE weak'[n].count - WeakHand(t, o, n)' = weak[n].count - WeakHand(t, o, n)
      BY DEF WeakByHand
    <3> DEFINE a == WeakMine(t, n)
               b == WeakMine(t, n)'
               c == Ind(handle[o] = [kind |-> "weak", node |-> n])
               d == Ind(handle'[o] = [kind |-> "weak", node |-> n])
               e == Ind(handle[h].node = n)
    <3>2. WeakHand(t, o, n) = c + a /\ WeakHand(t, o, n)' = d + b
      BY DEF WeakHand
    <3>3. a \in Int /\ b \in Int /\ c \in Int /\ d \in Int /\ e \in Int /\ weak[n].count \in Int
      BY <3>1, <1>c
    <3>4. weak'[n].count = weak[n].count /\ b - a = 0 /\ d - c = 0
      BY <2>w, <2>4, <2>5
    <3> HIDE DEF a, b, c, d, e
    <3>5. d + b = c + a + (d - c) + (b - a)
      BY <3>3
    <3> QED BY <3>2, <3>3, <3>4, <3>5, SMTT(30)
  <2> QED BY <2>2, <2>6
<1>2. ASSUME NEW f \in {"downgrade", "cloneWeak"}, NEW h \in Handles, NEW o \in Handles, CloneWeak(t, f, h, o) PROVE WeakByHand(t, o) /\ OnlyHandle(o)
  <2>1. /\ pc[t] = "idle"
        /\ handle[h].kind = IF f = "downgrade" THEN "strong" ELSE "weak"
        /\ handle[o].kind = "none"
        /\ handle' = [handle EXCEPT ![o] = [kind |-> "weak", node |-> handle[h].node]]
        /\ AddWeak(handle[h].node)
        /\ UNCHANGED <<next, prev, strong, adv, mem, drops, stamp, count, pc, locals>>
    BY <1>k, <1>2, CloneWeakEffect
  <2>2. pc[t] = "idle" /\ OnlyHandle(o)
    BY <1>k, <2>1 DEF Entered, OnlyHandle, locals
  <2>n. handle[h].kind # "none" => handle[h].node \in Nodes
    BY <1>k DEF HandleStates
  <2>3. ASSUME NEW n \in Nodes, Live(n) PROVE LiveStrong(strong'[n]) > 0 <=> LiveStrong(strong[n]) > 0
    BY <1>k, <2>1, <2>3 DEF Live, locals
  <2>w. ASSUME NEW n \in Nodes, Live(n) PROVE weak'[n].count = weak[n].count + Ind(handle[h].node = n)
    BY <1>k, <1>c, <2>1, <2>w, <2>n DEF AddWeak, WeakWords, Ind
  <2>4. ASSUME NEW n \in Nodes, Live(n) PROVE WeakMine(t, n)' - WeakMine(t, n) = 0
    <3>1. WeakMine(t, n) = Ind(LiveStrong(strong[n]) > 0)
      BY <1>i, <2>2
    <3>2. WeakMine(t, n)' = Ind(LiveStrong(strong'[n]) > 0)
      BY <1>j, <2>1, <2>2
    <3> QED BY <2>3, <2>4, <3>1, <3>2 DEF Ind
  <2>5. ASSUME NEW n \in Nodes PROVE Ind(handle'[o] = [kind |-> "weak", node |-> n]) - Ind(handle[o] = [kind |-> "weak", node |-> n]) = Ind(handle[h].node = n)
    BY <1>k, <2>1, <2>n DEF Ind, HandleStates, locals
  <2>6. WeakByHand(t, o)
    <3>1. \A n \in Nodes : WeakMine(t, n) \in Int /\ WeakMine(t, n)' \in Int /\ Ind(handle[h].node = n) \in Int
          /\ Ind(handle[o] = [kind |-> "weak", node |-> n]) \in Int /\ Ind(handle'[o] = [kind |-> "weak", node |-> n]) \in Int
      BY DEF WeakMine, Ind
    <3> SUFFICES ASSUME NEW n \in Nodes, Live(n) PROVE weak'[n].count - WeakHand(t, o, n)' = weak[n].count - WeakHand(t, o, n)
      BY DEF WeakByHand
    <3> DEFINE a == WeakMine(t, n)
               b == WeakMine(t, n)'
               c == Ind(handle[o] = [kind |-> "weak", node |-> n])
               d == Ind(handle'[o] = [kind |-> "weak", node |-> n])
               e == Ind(handle[h].node = n)
    <3>2. WeakHand(t, o, n) = c + a /\ WeakHand(t, o, n)' = d + b
      BY DEF WeakHand
    <3>3. a \in Int /\ b \in Int /\ c \in Int /\ d \in Int /\ e \in Int /\ weak[n].count \in Int
      BY <3>1, <1>c
    <3>4. weak'[n].count = weak[n].count + e /\ b - a = 0 /\ d - c = e
      BY <2>w, <2>4, <2>5
    <3> HIDE DEF a, b, c, d, e
    <3>5. d + b = c + a + (d - c) + (b - a)
      BY <3>3
    <3> QED BY <3>2, <3>3, <3>4, <3>5, SMTT(30)
  <2> QED BY <2>2, <2>6
<1>3. ASSUME NEW h \in Handles, NEW o \in Handles, Upgrade(t, h, o) PROVE WeakByHand(t, o) /\ OnlyHandle(o)
  <2>1. /\ Entered(t, "upgrade", h, o, Null)
        /\ handle[h].kind = "weak"
        /\ handle[o].kind = "none"
        /\ handle' = [handle EXCEPT ![o] = Busy]
        /\ AddWeak(handle[h].node)
        /\ Starts(t, handle[h].node, "weak", "upg_strong")
        /\ UNCHANGED <<next, prev, strong, adv, mem, drops, jn, dr>>
    BY <1>k, <1>3, UpgradeEffect
  <2>2. pc[t] = "idle" /\ OnlyHandle(o)
    BY <1>k, <2>1 DEF Entered, OnlyHandle, Busy
  <2>n. handle[h].kind # "none" => handle[h].node \in Nodes
    BY <1>k DEF HandleStates
  <2>3. ASSUME NEW n \in Nodes, Live(n) PROVE LiveStrong(strong'[n]) > 0 <=> LiveStrong(strong[n]) > 0
    BY <1>k, <2>1, <2>3 DEF Live, Busy
  <2>w. ASSUME NEW n \in Nodes, Live(n) PROVE weak'[n].count = weak[n].count + Ind(handle[h].node = n)
    BY <1>k, <1>c, <2>1, <2>w, <2>n DEF AddWeak, WeakWords, Ind
  <2>4. ASSUME NEW n \in Nodes, Live(n) PROVE WeakMine(t, n)' - WeakMine(t, n) = Ind(handle[h].node = n)
    <3>1. WeakMine(t, n) = Ind(LiveStrong(strong[n]) > 0)
      BY <1>i, <2>2
    <3>2. WeakMine(t, n)' = Ind(LiveStrong(strong'[n]) > 0) + Ind("weak" = "weak" /\ handle[h].node = n)
      BY <1>s, <2>1
    <3> QED BY <2>3, <2>4, <3>1, <3>2 DEF Ind
  <2>5. ASSUME NEW n \in Nodes PROVE Ind(handle'[o] = [kind |-> "weak", node |-> n]) - Ind(handle[o] = [kind |-> "weak", node |-> n]) = 0
    BY <1>k, <2>1, <2>n DEF Ind, HandleStates, Busy
  <2>6. WeakByHand(t, o)
    <3>1. \A n \in Nodes : WeakMine(t, n) \in Int /\ WeakMine(t, n)' \in Int /\ Ind(handle[h].node = n) \in Int
          /\ Ind(handle[o] = [kind |-> "weak", node |-> n]) \in Int /\ Ind(handle'[o] = [kind |-> "weak", node |-> n]) \in Int
      BY DEF WeakMine, Ind
    <3> SUFFICES ASSUME NEW n \in Nodes, Live(n) PROVE weak'[n].count - WeakHand(t, o, n)' = weak[n].count - WeakHand(t, o, n)
      BY DEF WeakByHand
    <3> DEFINE a == WeakMine(t, n)
               b == WeakMine(t, n)'
               c == Ind(handle[o] = [kind |-> "weak", node |-> n])
               d == Ind(handle'[o] = [kind |-> "weak", node |-> n])
               e == Ind(handle[h].node = n)
    <3>2. WeakHand(t, o, n) = c + a /\ WeakHand(t, o, n)' = d + b
      BY DEF WeakHand
    <3>3. a \in Int /\ b \in Int /\ c \in Int /\ d \in Int /\ e \in Int /\ weak[n].count \in Int
      BY <3>1, <1>c
    <3>4. weak'[n].count = weak[n].count + e /\ b - a = e /\ d - c = 0
      BY <2>w, <2>4, <2>5
    <3> HIDE DEF a, b, c, d, e
    <3>5. d + b = c + a + (d - c) + (b - a)
      BY <3>3
    <3> QED BY <3>2, <3>3, <3>4, <3>5, SMTT(30)
  <2> QED BY <2>2, <2>6
<1>4. ASSUME NEW h \in Handles, Update(t, h) PROVE WeakByHand(t, h) /\ OnlyHandle(h)
  <2>1. /\ Unused # {}
        /\ Entered(t, "update", h, h, FreshNode)
        /\ handle[h].kind = "strong"
        /\ \A u \in Threads : pc[u] # "idle" => op[u].hnd # h
        /\ handle' = [handle EXCEPT ![h] = Busy]
        /\ NewHolder(FreshNode, handle[h].node)
        /\ Starts(t, handle[h].node, "strong", "upd_next")
        /\ UNCHANGED <<next, adv, drops, jn, dr>>
    BY <1>k, <1>4, UpdateEffect
  <2>f. FreshNode \in Nodes /\ ~Live(FreshNode)
    BY <1>k, <2>1, FreshIsUnused DEF Live
  <2>2. pc[t] = "idle" /\ OnlyHandle(h)
    BY <1>k, <2>1 DEF Entered, OnlyHandle, Busy
  <2>n. handle[h].kind # "none" => handle[h].node \in Nodes
    BY <1>k DEF HandleStates
  <2>3. ASSUME NEW n \in Nodes, Live(n) PROVE LiveStrong(strong'[n]) > 0 <=> LiveStrong(strong[n]) > 0
    BY <1>k, <2>1, <2>3, <2>f DEF Live, Busy, NewHolder
  <2>w. ASSUME NEW n \in Nodes, Live(n) PROVE weak'[n].count = weak[n].count
    BY <1>k, <1>c, <2>1, <2>w, <2>f DEF Live, WeakWords, Busy, NewHolder
  <2>4. ASSUME NEW n \in Nodes, Live(n) PROVE WeakMine(t, n)' - WeakMine(t, n) = 0
    <3>1. WeakMine(t, n) = Ind(LiveStrong(strong[n]) > 0)
      BY <1>i, <2>2
    <3>2. WeakMine(t, n)' = Ind(LiveStrong(strong'[n]) > 0) + Ind("strong" = "weak" /\ handle[h].node = n)
      BY <1>s, <2>1
    <3> QED BY <2>3, <2>4, <3>1, <3>2 DEF Ind
  <2>5. ASSUME NEW n \in Nodes PROVE Ind(handle'[h] = [kind |-> "weak", node |-> n]) - Ind(handle[h] = [kind |-> "weak", node |-> n]) = 0
    BY <1>k, <2>1, <2>n DEF Ind, HandleStates, Busy
  <2>6. WeakByHand(t, h)
    <3>1. \A n \in Nodes : WeakMine(t, n) \in Int /\ WeakMine(t, n)' \in Int /\ Ind(handle[h].node = n) \in Int
          /\ Ind(handle[h] = [kind |-> "weak", node |-> n]) \in Int /\ Ind(handle'[h] = [kind |-> "weak", node |-> n]) \in Int
      BY DEF WeakMine, Ind
    <3> SUFFICES ASSUME NEW n \in Nodes, Live(n) PROVE weak'[n].count - WeakHand(t, h, n)' = weak[n].count - WeakHand(t, h, n)
      BY DEF WeakByHand
    <3> DEFINE a == WeakMine(t, n)
               b == WeakMine(t, n)'
               c == Ind(handle[h] = [kind |-> "weak", node |-> n])
               d == Ind(handle'[h] = [kind |-> "weak", node |-> n])
               e == Ind(handle[h].node = n)
    <3>2. WeakHand(t, h, n) = c + a /\ WeakHand(t, h, n)' = d + b
      BY DEF WeakHand
    <3>3. a \in Int /\ b \in Int /\ c \in Int /\ d \in Int /\ e \in Int /\ weak[n].count \in Int
      BY <3>1, <1>c
    <3>4. weak'[n].count = weak[n].count /\ b - a = 0 /\ d - c = 0
      BY <2>w, <2>4, <2>5
    <3> HIDE DEF a, b, c, d, e
    <3>5. d + b = c + a + (d - c) + (b - a)
      BY <3>3
    <3> QED BY <3>2, <3>3, <3>4, <3>5, SMTT(30)
  <2> QED BY <2>2, <2>6
<1>5. ASSUME NEW h \in Handles, Rcu(t, h) PROVE WeakByHand(t, h) /\ OnlyHandle(h)
  <2>1. /\ Entered(t, "rcu", h, h, Null)
        /\ handle[h].kind = "strong"
        /\ \A u \in Threads : pc[u] # "idle" => op[u].hnd # h
        /\ handle' = [handle EXCEPT ![h] = Busy]
        /\ Starts(t, handle[h].node, "strong", "upd_next")
        /\ UNCHANGED <<heap, jn, dr>>
    BY <1>k, <1>5, RcuEffect
  <2>2. pc[t] = "idle" /\ OnlyHandle(h)
    BY <1>k, <2>1 DEF Entered, OnlyHandle, Busy, heap
  <2>n. handle[h].kind # "none" => handle[h].node \in Nodes
    BY <1>k DEF HandleStates
  <2>3. ASSUME NEW n \in Nodes, Live(n) PROVE LiveStrong(strong'[n]) > 0 <=> LiveStrong(strong[n]) > 0
    BY <1>k, <2>1, <2>3 DEF Live, Busy, heap
  <2>w. ASSUME NEW n \in Nodes, Live(n) PROVE weak'[n].count = weak[n].count
    BY <1>k, <1>c, <2>1, <2>w DEF Live, WeakWords, Busy, heap
  <2>4. ASSUME NEW n \in Nodes, Live(n) PROVE WeakMine(t, n)' - WeakMine(t, n) = 0
    <3>1. WeakMine(t, n) = Ind(LiveStrong(strong[n]) > 0)
      BY <1>i, <2>2
    <3>2. WeakMine(t, n)' = Ind(LiveStrong(strong'[n]) > 0) + Ind("strong" = "weak" /\ handle[h].node = n)
      BY <1>s, <2>1
    <3> QED BY <2>3, <2>4, <3>1, <3>2 DEF Ind
  <2>5. ASSUME NEW n \in Nodes PROVE Ind(handle'[h] = [kind |-> "weak", node |-> n]) - Ind(handle[h] = [kind |-> "weak", node |-> n]) = 0
    BY <1>k, <2>1, <2>n DEF Ind, HandleStates, Busy, heap
  <2>6. WeakByHand(t, h)
    <3>1. \A n \in Nodes : WeakMine(t, n) \in Int /\ WeakMine(t, n)' \in Int /\ Ind(handle[h].node = n) \in Int
          /\ Ind(handle[h] = [kind |-> "weak", node |-> n]) \in Int /\ Ind(handle'[h] = [kind |-> "weak", node |-> n]) \in Int
      BY DEF WeakMine, Ind
    <3> SUFFICES ASSUME NEW n \in Nodes, Live(n) PROVE weak'[n].count - WeakHand(t, h, n)' = weak[n].count - WeakHand(t, h, n)
      BY DEF WeakByHand
    <3> DEFINE a == WeakMine(t, n)
               b == WeakMine(t, n)'
               c == Ind(handle[h] = [kind |-> "weak", node |-> n])
               d == Ind(handle'[h] = [kind |-> "weak", node |-> n])
               e == Ind(handle[h].node = n)
    <3>2. WeakHand(t, h, n) = c + a /\ WeakHand(t, h, n)' = d + b
      BY DEF WeakHand
    <3>3. a \in Int /\ b \in Int /\ c \in Int /\ d \in Int /\ e \in Int /\ weak[n].count \in Int
      BY <3>1, <1>c
    <3>4. weak'[n].count = weak[n].count /\ b - a = 0 /\ d - c = 0
      BY <2>w, <2>4, <2>5
    <3> HIDE DEF a, b, c, d, e
    <3>5. d + b = c + a + (d - c) + (b - a)
      BY <3>3
    <3> QED BY <3>2, <3>3, <3>4, <3>5, SMTT(30)
  <2> QED BY <2>2, <2>6
<1>6. ASSUME NEW f \in {"drop", "intoInner"}, NEW h \in Handles, DropShift(t, f, h) PROVE WeakByHand(t, h) /\ OnlyHandle(h)
  <2>1. /\ f \in {"drop", "intoInner"}
        /\ Entered(t, f, h, h, Null)
        /\ handle[h].kind = "strong"
        /\ \A u \in Threads : pc[u] # "idle" => op[u].hnd # h
        /\ handle' = [handle EXCEPT ![h] = Busy]
        /\ Starts(t, handle[h].node, "strong", "ds_dec")
        /\ dr'[t] = [IdleDrop EXCEPT !.ret = "ret"]
        /\ UNCHANGED <<heap, jn>>
    BY <1>k, <1>6, DropShiftEffect
  <2>2. pc[t] = "idle" /\ OnlyHandle(h)
    BY <1>k, <2>1 DEF Entered, OnlyHandle, Busy, heap
  <2>n. handle[h].kind # "none" => handle[h].node \in Nodes
    BY <1>k DEF HandleStates
  <2>3. ASSUME NEW n \in Nodes, Live(n) PROVE LiveStrong(strong'[n]) > 0 <=> LiveStrong(strong[n]) > 0
    BY <1>k, <2>1, <2>3 DEF Live, Busy, heap
  <2>w. ASSUME NEW n \in Nodes, Live(n) PROVE weak'[n].count = weak[n].count
    BY <1>k, <1>c, <2>1, <2>w DEF Live, WeakWords, Busy, heap
  <2>4. ASSUME NEW n \in Nodes, Live(n) PROVE WeakMine(t, n)' - WeakMine(t, n) = 0
    <3>1. WeakMine(t, n) = Ind(LiveStrong(strong[n]) > 0)
      BY <1>i, <2>2
    <3>2. WeakMine(t, n)' = Ind(LiveStrong(strong'[n]) > 0) + Ind("strong" = "weak" /\ handle[h].node = n)
      BY <1>s, <2>1
    <3> QED BY <2>3, <2>4, <3>1, <3>2 DEF Ind
  <2>5. ASSUME NEW n \in Nodes PROVE Ind(handle'[h] = [kind |-> "weak", node |-> n]) - Ind(handle[h] = [kind |-> "weak", node |-> n]) = 0
    BY <1>k, <2>1, <2>n DEF Ind, HandleStates, Busy, heap
  <2>6. WeakByHand(t, h)
    <3>1. \A n \in Nodes : WeakMine(t, n) \in Int /\ WeakMine(t, n)' \in Int /\ Ind(handle[h].node = n) \in Int
          /\ Ind(handle[h] = [kind |-> "weak", node |-> n]) \in Int /\ Ind(handle'[h] = [kind |-> "weak", node |-> n]) \in Int
      BY DEF WeakMine, Ind
    <3> SUFFICES ASSUME NEW n \in Nodes, Live(n) PROVE weak'[n].count - WeakHand(t, h, n)' = weak[n].count - WeakHand(t, h, n)
      BY DEF WeakByHand
    <3> DEFINE a == WeakMine(t, n)
               b == WeakMine(t, n)'
               c == Ind(handle[h] = [kind |-> "weak", node |-> n])
               d == Ind(handle'[h] = [kind |-> "weak", node |-> n])
               e == Ind(handle[h].node = n)
    <3>2. WeakHand(t, h, n) = c + a /\ WeakHand(t, h, n)' = d + b
      BY DEF WeakHand
    <3>3. a \in Int /\ b \in Int /\ c \in Int /\ d \in Int /\ e \in Int /\ weak[n].count \in Int
      BY <3>1, <1>c
    <3>4. weak'[n].count = weak[n].count /\ b - a = 0 /\ d - c = 0
      BY <2>w, <2>4, <2>5
    <3> HIDE DEF a, b, c, d, e
    <3>5. d + b = c + a + (d - c) + (b - a)
      BY <3>3
    <3> QED BY <3>2, <3>3, <3>4, <3>5, SMTT(30)
  <2> QED BY <2>2, <2>6
<1>7. ASSUME NEW h \in Handles, DropShiftWeak(t, h) PROVE WeakByHand(t, h) /\ OnlyHandle(h)
  <2>1. /\ Entered(t, "dropWeak", h, h, Null)
        /\ handle[h].kind = "weak"
        /\ \A u \in Threads : pc[u] # "idle" => op[u].hnd # h
        /\ handle' = [handle EXCEPT ![h] = Busy]
        /\ Starts(t, handle[h].node, "weak", "jan_lock")
        /\ jn'[t] = [IdleJanitor EXCEPT !.ret = "dw_weak"]
        /\ dr'[t] = [IdleDrop EXCEPT !.ret = "ret"]
        /\ UNCHANGED heap
    BY <1>k, <1>7, DropShiftWeakEffect
  <2>2. pc[t] = "idle" /\ OnlyHandle(h)
    BY <1>k, <2>1 DEF Entered, OnlyHandle, Busy, heap
  <2>n. handle[h].kind # "none" => handle[h].node \in Nodes
    BY <1>k DEF HandleStates
  <2>3. ASSUME NEW n \in Nodes, Live(n) PROVE LiveStrong(strong'[n]) > 0 <=> LiveStrong(strong[n]) > 0
    BY <1>k, <2>1, <2>3 DEF Live, Busy, heap
  <2>w. ASSUME NEW n \in Nodes, Live(n) PROVE weak'[n].count = weak[n].count
    BY <1>k, <1>c, <2>1, <2>w DEF Live, WeakWords, Busy, heap
  <2>4. ASSUME NEW n \in Nodes, Live(n) PROVE WeakMine(t, n)' - WeakMine(t, n) = Ind(handle[h].node = n)
    <3>1. WeakMine(t, n) = Ind(LiveStrong(strong[n]) > 0)
      BY <1>i, <2>2
    <3>2. WeakMine(t, n)' = Ind(LiveStrong(strong'[n]) > 0) + Ind("weak" = "weak" /\ handle[h].node = n)
      BY <1>s, <2>1
    <3> QED BY <2>3, <2>4, <3>1, <3>2 DEF Ind
  <2>5. ASSUME NEW n \in Nodes PROVE Ind(handle'[h] = [kind |-> "weak", node |-> n]) - Ind(handle[h] = [kind |-> "weak", node |-> n]) = 0 - Ind(handle[h].node = n)
    BY <1>k, <2>1, <2>n DEF Ind, HandleStates, Busy, heap
  <2>6. WeakByHand(t, h)
    <3>1. \A n \in Nodes : WeakMine(t, n) \in Int /\ WeakMine(t, n)' \in Int /\ Ind(handle[h].node = n) \in Int
          /\ Ind(handle[h] = [kind |-> "weak", node |-> n]) \in Int /\ Ind(handle'[h] = [kind |-> "weak", node |-> n]) \in Int
      BY DEF WeakMine, Ind
    <3> SUFFICES ASSUME NEW n \in Nodes, Live(n) PROVE weak'[n].count - WeakHand(t, h, n)' = weak[n].count - WeakHand(t, h, n)
      BY DEF WeakByHand
    <3> DEFINE a == WeakMine(t, n)
               b == WeakMine(t, n)'
               c == Ind(handle[h] = [kind |-> "weak", node |-> n])
               d == Ind(handle'[h] = [kind |-> "weak", node |-> n])
               e == Ind(handle[h].node = n)
    <3>2. WeakHand(t, h, n) = c + a /\ WeakHand(t, h, n)' = d + b
      BY DEF WeakHand
    <3>3. a \in Int /\ b \in Int /\ c \in Int /\ d \in Int /\ e \in Int /\ weak[n].count \in Int
      BY <3>1, <1>c
    <3>4. weak'[n].count = weak[n].count /\ b - a = e /\ d - c = 0 - e
      BY <2>w, <2>4, <2>5
    <3> HIDE DEF a, b, c, d, e
    <3>5. d + b = c + a + (d - c) + (b - a)
      BY <3>3
    <3> QED BY <3>2, <3>3, <3>4, <3>5, SMTT(30)
  <2> QED BY <2>2, <2>6
<1>8. ASSUME NEW f \in {"get", "reload", "tryGetMut"}, NEW h \in Handles, Reload(t, f, h) PROVE WeakByHand(t, h) /\ OnlyHandle(h)
  <2>1. /\ f \in {"get", "reload", "tryGetMut"}
        /\ Entered(t, f, h, h, Null)
        /\ handle[h].kind = "strong"
        /\ \A u \in Threads : pc[u] # "idle" => op[u].hnd # h
        /\ handle' = [handle EXCEPT ![h] = Busy]
        /\ item'[t] = handle[h].node
        /\ pc'[t] = "get_load"
        /\ UNCHANGED <<heap, av, jn, dr>>
    BY <1>k, <1>8, ReloadEffect
  <2>2. pc[t] = "idle" /\ OnlyHandle(h)
    BY <1>k, <2>1 DEF Entered, OnlyHandle, Busy, heap
  <2>n. handle[h].kind # "none" => handle[h].node \in Nodes
    BY <1>k DEF HandleStates
  <2>3. ASSUME NEW n \in Nodes, Live(n) PROVE LiveStrong(strong'[n]) > 0 <=> LiveStrong(strong[n]) > 0
    BY <1>k, <2>1, <2>3 DEF Live, Busy, heap
  <2>w. ASSUME NEW n \in Nodes, Live(n) PROVE weak'[n].count = weak[n].count
    BY <1>k, <1>c, <2>1, <2>w DEF Live, WeakWords, Busy, heap
  <2>4. ASSUME NEW n \in Nodes, Live(n) PROVE WeakMine(t, n)' - WeakMine(t, n) = 0
    <3>1. WeakMine(t, n) = Ind(LiveStrong(strong[n]) > 0)
      BY <1>i, <2>2
    <3>2. WeakMine(t, n)' = Ind(LiveStrong(strong'[n]) > 0)
      BY <1>j, <2>1, <2>2
    <3> QED BY <2>3, <2>4, <3>1, <3>2 DEF Ind
  <2>5. ASSUME NEW n \in Nodes PROVE Ind(handle'[h] = [kind |-> "weak", node |-> n]) - Ind(handle[h] = [kind |-> "weak", node |-> n]) = 0
    BY <1>k, <2>1, <2>n DEF Ind, HandleStates, Busy, heap
  <2>6. WeakByHand(t, h)
    <3>1. \A n \in Nodes : WeakMine(t, n) \in Int /\ WeakMine(t, n)' \in Int /\ Ind(handle[h].node = n) \in Int
          /\ Ind(handle[h] = [kind |-> "weak", node |-> n]) \in Int /\ Ind(handle'[h] = [kind |-> "weak", node |-> n]) \in Int
      BY DEF WeakMine, Ind
    <3> SUFFICES ASSUME NEW n \in Nodes, Live(n) PROVE weak'[n].count - WeakHand(t, h, n)' = weak[n].count - WeakHand(t, h, n)
      BY DEF WeakByHand
    <3> DEFINE a == WeakMine(t, n)
               b == WeakMine(t, n)'
               c == Ind(handle[h] = [kind |-> "weak", node |-> n])
               d == Ind(handle'[h] = [kind |-> "weak", node |-> n])
               e == Ind(handle[h].node = n)
    <3>2. WeakHand(t, h, n) = c + a /\ WeakHand(t, h, n)' = d + b
      BY DEF WeakHand
    <3>3. a \in Int /\ b \in Int /\ c \in Int /\ d \in Int /\ e \in Int /\ weak[n].count \in Int
      BY <3>1, <1>c
    <3>4. weak'[n].count = weak[n].count /\ b - a = 0 /\ d - c = 0
      BY <2>w, <2>4, <2>5
    <3> HIDE DEF a, b, c, d, e
    <3>5. d + b = c + a + (d - c) + (b - a)
      BY <3>3
    <3> QED BY <3>2, <3>3, <3>4, <3>5, SMTT(30)
  <2> QED BY <2>2, <2>6
<1>9. ASSUME NEW h \in Handles, SharedGet(t, h) PROVE WeakByHand(t, h) /\ OnlyHandle(h)
  <2>1. /\ Entered(t, "sharedGet", h, h, Null)
        /\ handle[h].kind = "strong"
        /\ pc'[t] = "sg_load"
        /\ UNCHANGED <<heap, handle, item, av, jn, dr>>
    BY <1>k, <1>9, SharedGetEffect
  <2>2. pc[t] = "idle" /\ OnlyHandle(h)
    BY <1>k, <2>1 DEF Entered, OnlyHandle, heap
  <2>n. handle[h].kind # "none" => handle[h].node \in Nodes
    BY <1>k DEF HandleStates
  <2>3. ASSUME NEW n \in Nodes, Live(n) PROVE LiveStrong(strong'[n]) > 0 <=> LiveStrong(strong[n]) > 0
    BY <1>k, <2>1, <2>3 DEF Live, heap
  <2>w. ASSUME NEW n \in Nodes, Live(n) PROVE weak'[n].count = weak[n].count
    BY <1>k, <1>c, <2>1, <2>w DEF Live, WeakWords, heap
  <2>4. ASSUME NEW n \in Nodes, Live(n) PROVE WeakMine(t, n)' - WeakMine(t, n) = 0
    <3>1. WeakMine(t, n) = Ind(LiveStrong(strong[n]) > 0)
      BY <1>i, <2>2
    <3>2. WeakMine(t, n)' = Ind(LiveStrong(strong'[n]) > 0)
      BY <1>j, <2>1, <2>2
    <3> QED BY <2>3, <2>4, <3>1, <3>2 DEF Ind
  <2>5. ASSUME NEW n \in Nodes PROVE Ind(handle'[h] = [kind |-> "weak", node |-> n]) - Ind(handle[h] = [kind |-> "weak", node |-> n]) = 0
    BY <1>k, <2>1, <2>n DEF Ind, HandleStates, heap
  <2>6. WeakByHand(t, h)
    <3>1. \A n \in Nodes : WeakMine(t, n) \in Int /\ WeakMine(t, n)' \in Int /\ Ind(handle[h].node = n) \in Int
          /\ Ind(handle[h] = [kind |-> "weak", node |-> n]) \in Int /\ Ind(handle'[h] = [kind |-> "weak", node |-> n]) \in Int
      BY DEF WeakMine, Ind
    <3> SUFFICES ASSUME NEW n \in Nodes, Live(n) PROVE weak'[n].count - WeakHand(t, h, n)' = weak[n].count - WeakHand(t, h, n)
      BY DEF WeakByHand
    <3> DEFINE a == WeakMine(t, n)
               b == WeakMine(t, n)'
               c == Ind(handle[h] = [kind |-> "weak", node |-> n])
               d == Ind(handle'[h] = [kind |-> "weak", node |-> n])
               e == Ind(handle[h].node = n)
    <3>2. WeakHand(t, h, n) = c + a /\ WeakHand(t, h, n)' = d + b
      BY DEF WeakHand
    <3>3. a \in Int /\ b \in Int /\ c \in Int /\ d \in Int /\ e \in Int /\ weak[n].count \in Int
      BY <3>1, <1>c
    <3>4. weak'[n].count = weak[n].count /\ b - a = 0 /\ d - c = 0
      BY <2>w, <2>4, <2>5
    <3> HIDE DEF a, b, c, d, e
    <3>5. d + b = c + a + (d - c) + (b - a)
      BY <3>3
    <3> QED BY <3>2, <3>3, <3>4, <3>5, SMTT(30)
  <2> QED BY <2>2, <2>6
<1> QED BY <1>1, <1>2, <1>3, <1>4, <1>5, <1>6, <1>7, <1>8, <1>9 DEF Call

(* All weak references to n that t, h and the link of m can be.             *)
WeakOf(t, h, m, n) == Ind(mem[m] = "live" /\ prev[m] = n) + WeakHand(t, h, n)

WeakAll(t, h, m) ==
  \A n \in Nodes : Live(n) /\ Live(n)' => weak'[n].count - WeakOf(t, h, m, n)' = weak[n].count - WeakOf(t, h, m, n)

\* no link but that of m comes or goes
LinksBut(m) ==
  \A k \in Nodes \ {m} : \A n \in Nodes : mem'[k] = "live" /\ prev'[k] = n <=> mem[k] = "live" /\ prev[k] = n

(* A step of t that changes at most what handle h holds and where the link  *)
(* of m leads changes the number of weak references by what these are.      *)
LEMMA WeakChange ==
  ASSUME NEW t \in Threads, NEW h \in Handles, NEW m \in Nodes, NEW n \in Nodes,
         \A u \in Threads \ {t} : Still(u), \A g \in Handles \ {h} : handle'[g] = handle[g],
         LinksBut(m)
  PROVE  /\ Cardinality(WeakHolders(n)) \in Nat /\ Cardinality(WeakHolders(n)') \in Nat
         /\ Cardinality(WeakHolders(n)') - WeakOf(t, h, m, n)' = Cardinality(WeakHolders(n)) - WeakOf(t, h, m, n)
<1> DEFINE S == WeakHolders(n)
           P == WeakHolders(n)'
           a == <<"handle", h>>
           b == <<"link", m>>
           c == <<"group", n>>
           d == <<"start", t>>
           e == <<"item", t>>
           f == <<"extra", t>>
           g == <<"nxt", t>>
           x == <<"gap", t>>
<1>1. IsFiniteSet(S) /\ IsFiniteSet(P)
  <2>1. S \in SUBSET Holders /\ P \in SUBSET Holders
    BY DEF WeakHolders, Holders
  <2> HIDE DEF S, P
  <2> QED BY <2>1, HoldersFinite, FS_Subset
<1>2. Distinct(a, b, c, d, e, f, g, x)
  BY DEF Distinct
<1>3. WeakOf(t, h, m, n) = Ind(a \in S) + Ind(b \in S) + Ind(c \in S) + Ind(d \in S) + Ind(e \in S)
                             + Ind(f \in S) + Ind(g \in S) + Ind(x \in S)
  <2>1. /\ a \in S <=> handle[h] = [kind |-> "weak", node |-> n]
        /\ b \in S <=> mem[m] = "live" /\ prev[m] = n
        /\ c \in S <=> LiveStrong(strong[n]) > 0
        /\ d \in S <=> WeakOnStart(t) /\ av[t].start = n
        /\ e \in S <=> WeakOnItem(t) /\ item[t] = n
        /\ f \in S <=> WeakForGroup(t) /\ item[t] = n
        /\ g \in S <=> pc[t] \in {"adv_dec", "adv_unweak"} /\ av[t].nxt = n
        /\ x \in S <=> WeakOnGap(t) /\ jn[t].del = n
    BY DEF WeakHolders
  <2> HIDE DEF a, b, c, d, e, f, g, x, S
  <2> QED BY <2>1 DEF WeakOf, WeakHand, WeakMine, Ind
<1>4. WeakOf(t, h, m, n)' = Ind(a \in P) + Ind(b \in P) + Ind(c \in P) + Ind(d \in P) + Ind(e \in P)
                              + Ind(f \in P) + Ind(g \in P) + Ind(x \in P)
  <2>1. /\ a \in P <=> handle'[h] = [kind |-> "weak", node |-> n]
        /\ b \in P <=> mem'[m] = "live" /\ prev'[m] = n
        /\ c \in P <=> LiveStrong(strong[n])' > 0
        /\ d \in P <=> WeakOnStart(t)' /\ av'[t].start = n
        /\ e \in P <=> WeakOnItem(t)' /\ item'[t] = n
        /\ f \in P <=> WeakForGroup(t)' /\ item'[t] = n
        /\ g \in P <=> pc'[t] \in {"adv_dec", "adv_unweak"} /\ av'[t].nxt = n
        /\ x \in P <=> WeakOnGap(t)' /\ jn'[t].del = n
    BY DEF WeakHolders
  <2> HIDE DEF a, b, c, d, e, f, g, x, P
  <2> QED BY <2>1 DEF WeakOf, WeakHand, WeakMine, Ind
<1>5. S \ {a, b, c, d, e, f, g, x} = P \ {a, b, c, d, e, f, g, x}
  <2>1. \A u \in Threads \ {t} :
           /\ WeakOnStart(u)' <=> WeakOnStart(u)
           /\ WeakOnItem(u)' <=> WeakOnItem(u)
           /\ WeakForGroup(u)' <=> WeakForGroup(u)
           /\ WeakOnGap(u)' <=> WeakOnGap(u)
           /\ av'[u] = av[u] /\ item'[u] = item[u] /\ jn'[u] = jn[u] /\ pc'[u] = pc[u]
    BY DEF Still, WeakOnStart, WeakOnItem, WeakForGroup, WeakOnGap, At
  <2>2. ASSUME NEW q \in Handles \ {h}
        PROVE  handle'[q] = [kind |-> "weak", node |-> n] <=> handle[q] = [kind |-> "weak", node |-> n]
    OBVIOUS
  <2>3. ASSUME NEW q \in Nodes \ {m}
        PROVE  mem'[q] = "live" /\ prev'[q] = n <=> mem[q] = "live" /\ prev[q] = n
    BY DEF LinksBut
  <2> QED BY <2>1, <2>2, <2>3 DEF WeakHolders
<1>6. /\ Ind(a \in S) \in Int /\ Ind(b \in S) \in Int /\ Ind(c \in S) \in Int
      /\ Ind(d \in S) \in Int /\ Ind(e \in S) \in Int
      /\ Ind(f \in S) \in Int /\ Ind(g \in S) \in Int /\ Ind(x \in S) \in Int
      /\ Ind(a \in P) \in Int /\ Ind(b \in P) \in Int /\ Ind(c \in P) \in Int
      /\ Ind(d \in P) \in Int /\ Ind(e \in P) \in Int
      /\ Ind(f \in P) \in Int /\ Ind(g \in P) \in Int /\ Ind(x \in P) \in Int
  BY DEF Ind
<1> HIDE DEF S, P, a, b, c, d, e, f, g, x
<1>7. Split(S, a, b, c, d, e, f, g, x)
  BY ONLY <1>1, <1>2, WithoutEight
<1>8. Split(P, a, b, c, d, e, f, g, x)
  BY ONLY <1>1, <1>2, WithoutEight
<1>9. Cardinality(P) - WeakOf(t, h, m, n)' = Cardinality(S) - WeakOf(t, h, m, n)
  <2> DEFINE r == Cardinality(S \ {a, b, c, d, e, f, g, x})
  <2>1. r \in Nat /\ r = Cardinality(P \ {a, b, c, d, e, f, g, x})
    BY <1>5, <1>7 DEF Split
  <2> HIDE DEF r
  <2>2. Cardinality(S) = r + WeakOf(t, h, m, n)
    BY <1>3, <1>6, <1>7, <2>1 DEF r, Split
  <2>3. Cardinality(P) = r + WeakOf(t, h, m, n)'
    BY <1>4, <1>6, <1>8, <2>1 DEF r, Split
  <2>4. WeakOf(t, h, m, n) \in Int /\ WeakOf(t, h, m, n)' \in Int
    BY <1>3, <1>4, <1>6
  <2> QED BY <2>1, <2>2, <2>3, <2>4
<1> QED BY <1>7, <1>8, <1>9 DEF S, P, Split
===============================================================================
