------------------------ MODULE ArcShiftRegisterProofs ------------------------
(***************************************************************************)
(* Proof that the chain implements the register, for every number of       *)
(* threads, handles and nodes: every step of a call is a step of the       *)
(* register, or changes nothing the register shows.                        *)
(***************************************************************************)
EXTENDS ArcShiftRefines, ArcShiftSafeProofs

USE DEF Advancing, Dropping, Walking, Swapping, SwappedIn, SharedGetting

-----------------------------------------------------------------------------
(* What a step does to what its call has been asked for and has decided.    *)

\* what was asked for stays, and what was decided is not taken back
Pledged(t) ==
  /\ op'[t].f = op[t].f /\ op'[t].hnd = op[t].hnd /\ op'[t].out = op[t].out /\ op'[t].since = op[t].since
  /\ \/ op'[t].val = op[t].val
     \/ UpdateNext(t) /\ op[t].val = Null /\ op'[t].val \in Nodes /\ mem[op'[t].val] = "unused"
  /\ ~op'[t].ok => \/ ~op[t].ok \/ RcuCancel(t)
                   \/ UpgradeLoadNext(t) /\ ~HasNext(item[t]) /\ ValueIsGone(item[t], op[t].cs)

\* where the call goes with it
Proceeds(t) ==
  /\ pc'[t] # "idle"
  /\ Linking(pc'[t], av'[t]) => Linking(pc[t], av[t])
  /\ Linking(pc[t], av[t]) => \/ Linking(pc'[t], av'[t]) \/ RcuCancel(t)
                              \/ UpdateCas(t) /\ CanLink(item[t], op[t].nw)
  /\ Linked(pc[t], pd[t]) => Linked(pc'[t], pd'[t]) \/ item'[t] = op[t].val
  /\ \/ item'[t] = item[t] \/ Before(item[t], item'[t]) \/ op[t].f = "sharedGet"
     \/ item'[t] = op[t].val
  /\ pc'[t] = "upg_next" => op'[t].cs = strong[item[t]] /\ item'[t] = item[t] /\ UNCHANGED strong
  /\ pc'[t] = "upg_done" => UpgradeCheck(t) /\ ~HasNext(item[t])
  /\ op[t].f = "upgrade" /\ op'[t].ok /\ pc'[t] = "ret" => pc[t] = "upg_done"
  /\ pc[t] = "upg_done" => pc'[t] = "ret" /\ op'[t].ok

(* What was asked for and decided stays in the steps of an advance.         *)
LEMMA AdvancePledged ==
  ASSUME TypeOK, NEW t \in Threads, Shape(t), AdvanceStep(t)
  PROVE  Pledged(t)
<1>k. TypeOK
  OBVIOUS
<1>r. /\ pc \in [Threads -> Labels] /\ item \in [Threads -> Nodes] /\ av \in [Threads -> AdvanceFrames]
      /\ pd \in [Threads -> PayloadFrames] /\ jn \in [Threads -> JanitorFrames]
      /\ dr \in [Threads -> DropFrames] /\ op \in [Threads -> CallFrames]
      /\ strong \in [Nodes -> 0..UsizeMax] /\ UsizeMax \in Nat /\ weak \in [Nodes -> WeakWords]
      /\ mem \in [Nodes -> {"unused", "private", "live", "freed"}] /\ prev \in [Nodes -> Ptrs]
      /\ stamp \in [Nodes -> Nat] /\ next \in [Nodes -> NextWords] /\ adv \in [Nodes -> Int]
      /\ handle \in [Handles -> HandleStates]
  BY HeapAssumption DEF TypeOK
<1>s. Shape(t)
  OBVIOUS
<1>1. CASE AdvanceLoad(t)
  BY <1>k, <1>r, <1>1, SMTT(30) DEF AdvanceLoad, Goto, ReturnAdvance, ReadOnly, IdleAdvance,
     AdvanceFrames, Pledged, ValueIsGone, locals, client, heap
<1>2. CASE AdvanceInc(t)
  BY <1>k, <1>r, <1>2, SMTT(30) DEF AdvanceInc, Goto, OnlyAdv, Pledged, ValueIsGone, locals,
     client, heap
<1>3. CASE AdvanceReload(t)
  BY <1>k, <1>r, <1>3, SMTT(30) DEF AdvanceReload, Goto, ReadOnly, Pledged, ValueIsGone, locals,
     client, heap
<1>4. CASE AdvanceWeakInc(t)
  BY <1>k, <1>r, <1>4, SMTT(30) DEF AdvanceWeakInc, AddWeak, Goto, OnlyWeak, Pledged,
     ValueIsGone, locals, client, heap
<1>5. CASE AdvanceDec(t)
  BY <1>k, <1>r, <1>5, SMTT(30) DEF AdvanceDec, Goto, OnlyAdv, Pledged, ValueIsGone, locals,
     client, heap
<1>6. CASE AdvanceWeakDec(t)
  BY <1>k, <1>r, <1>6, SMTT(30) DEF AdvanceWeakDec, SubWeak, Goto, OnlyWeak, Pledged,
     ValueIsGone, locals, client, heap
<1>7. CASE WeakLeaveStart(t)
  BY <1>k, <1>r, <1>7, SMTT(30) DEF WeakLeaveStart, SubWeak, ReturnAdvance, OnlyWeak, Goto,
     IdleAdvance, AdvanceFrames, Pledged, ValueIsGone, locals, client, heap
<1>8. CASE PayloadMark(t)
  <2>1. CASE pd[t].ret = "advs_a_decw"
    BY <1>k, <1>r, <1>8, <2>1, SMTT(30) DEF PayloadMark, Goto, OnlyNext, IdlePayload, Pledged,
     ValueIsGone, locals, client, heap
  <2>2. CASE pd[t].ret = "dw_cas"
    BY <1>k, <1>r, <1>8, <2>2, SMTT(30) DEF PayloadMark, Goto, OnlyNext, IdlePayload, Pledged,
     ValueIsGone, locals, client, heap
  <2>3. CASE pd[t].ret = "upd_decw"
    BY <1>k, <1>r, <1>8, <2>3, SMTT(30) DEF PayloadMark, Goto, OnlyNext, IdlePayload, Pledged,
     ValueIsGone, locals, client, heap
  <2>r. pd[t].ret \in {"advs_a_decw", "dw_cas", "upd_decw"}
    BY <1>r, <1>s, <1>8 DEF
     PayloadFrames, Shape, PayloadMark
  <2> QED BY <2>1, <2>2, <2>3, <2>r
<1>9. CASE PayloadDrop(t)
  <2>1. CASE pd[t].ret = "advs_a_decw"
    BY <1>k, <1>r, <1>9, <2>1, SMTT(30) DEF PayloadDrop, DropPayload, Goto, IdlePayload,
     Pledged, ValueIsGone, locals, client, heap
  <2>2. CASE pd[t].ret = "dw_cas"
    BY <1>k, <1>r, <1>9, <2>2, SMTT(30) DEF PayloadDrop, DropPayload, Goto, IdlePayload,
     Pledged, ValueIsGone, locals, client, heap
  <2>3. CASE pd[t].ret = "upd_decw"
    BY <1>k, <1>r, <1>9, <2>3, SMTT(30) DEF PayloadDrop, DropPayload, Goto, IdlePayload,
     Pledged, ValueIsGone, locals, client, heap
  <2>r. pd[t].ret \in {"advs_a_decw", "dw_cas", "upd_decw"}
    BY <1>r, <1>s, <1>9 DEF
     PayloadFrames, Shape, PayloadDrop
  <2> QED BY <2>1, <2>2, <2>3, <2>r
<1>10. CASE StrongLoad(t)
  BY <1>k, <1>r, <1>10, SMTT(30) DEF StrongLoad, TryStrong, ReadOnly, Goto, IdleAdvance,
     AdvanceFrames, Pledged, ValueIsGone, locals, client, heap
<1>11. CASE StrongIncWeak(t)
  BY <1>k, <1>r, <1>11, SMTT(30) DEF StrongIncWeak, AddWeak, Goto, OnlyWeak, Pledged,
     ValueIsGone, locals, client, heap
<1>12. CASE StrongCas(t)
  <2>1. CASE strong[item[t]] = av[t].cs
    BY <1>k, <1>r, <1>12, <2>1, SMTT(30) DEF StrongCas, AddStrong, Goto, TryStrong, OnlyStrong,
     IdleAdvance, AdvanceFrames, Pledged, ValueIsGone, locals, client, heap
  <2>2. CASE strong[item[t]] # av[t].cs /\ av[t].cs = 0
    BY <1>k, <1>r, <1>12, <2>2, SMTT(30) DEF StrongCas, AddStrong, Goto, TryStrong, OnlyStrong,
     IdleAdvance, AdvanceFrames, Pledged, ValueIsGone, locals, client, heap
  <2>3. CASE strong[item[t]] # av[t].cs /\ av[t].cs # 0
    BY <1>k, <1>r, <1>12, <2>3, SMTT(30) DEF StrongCas, AddStrong, Goto, TryStrong, OnlyStrong,
     IdleAdvance, AdvanceFrames, Pledged, ValueIsGone, locals, client, heap
  <2> QED BY <2>1, <2>2, <2>3
<1>13. CASE StrongRaceDecWeak(t)
  BY <1>k, <1>r, <1>13, SMTT(30) DEF StrongRaceDecWeak, SubWeak, TryStrong, OnlyWeak, Goto,
     IdleAdvance, AdvanceFrames, Pledged, ValueIsGone, locals, client, heap
<1>14. CASE StrongRecheck(t)
  BY <1>k, <1>r, <1>14, SMTT(30) DEF StrongRecheck, Goto, ReadOnly, Pledged, ValueIsGone,
     locals, client, heap
<1>15. CASE StrongUndo(t)
  <2>1. CASE LastStrong(item[t])
    BY <1>k, <1>r, <1>15, <2>1, SMTT(30) DEF StrongUndo, SubStrong, Goto, RetryAdvance,
     OnlyStrong, IdleAdvance, AdvanceFrames, Pledged, ValueIsGone, locals, client, heap
  <2>2. CASE ~LastStrong(item[t])
    BY <1>k, <1>r, <1>15, <2>2, SMTT(30) DEF StrongUndo, SubStrong, Goto, RetryAdvance,
     OnlyStrong, IdleAdvance, AdvanceFrames, Pledged, ValueIsGone, locals, client, heap
  <2> QED BY <2>1, <2>2
<1>16. CASE StrongUndoDecWeak(t)
  BY <1>k, <1>r, <1>16, SMTT(30) DEF StrongUndoDecWeak, SubWeak, RetryAdvance, OnlyWeak, Goto,
     IdleAdvance, AdvanceFrames, Pledged, ValueIsGone, locals, client, heap
<1>17. CASE StrongDecWeakB(t)
  BY <1>k, <1>r, <1>17, SMTT(30) DEF StrongDecWeakB, SubWeak, Goto, OnlyWeak, Pledged,
     ValueIsGone, locals, client, heap
<1>18. CASE StrongLeaveStart(t)
  <2>1. CASE LastStrong(av[t].start)
    BY <1>k, <1>r, <1>18, <2>1, SMTT(30) DEF StrongLeaveStart, SubStrong, StartPayloadDrop,
     ReturnAdvance, OnlyStrong, Goto, IdleAdvance, AdvanceFrames, Pledged, ValueIsGone, locals,
     client, heap
  <2>2. CASE ~LastStrong(av[t].start)
    BY <1>k, <1>r, <1>18, <2>2, SMTT(30) DEF StrongLeaveStart, SubStrong, StartPayloadDrop,
     ReturnAdvance, OnlyStrong, Goto, IdleAdvance, AdvanceFrames, Pledged, ValueIsGone, locals,
     client, heap
  <2> QED BY <2>1, <2>2
<1>19. CASE StrongDecWeakA(t)
  BY <1>k, <1>r, <1>19, SMTT(30) DEF StrongDecWeakA, SubWeak, ReturnAdvance, OnlyWeak, Goto,
     IdleAdvance, AdvanceFrames, Pledged, ValueIsGone, locals, client, heap
<1> QED BY <1>1, <1>2, <1>3, <1>4, <1>5, <1>6, <1>7, <1>8, <1>9, <1>10, <1>11, <1>12, <1>13,
  <1>14, <1>15, <1>16, <1>17, <1>18, <1>19 DEF AdvanceStep

(* Where the steps of an advance lead the call.                             *)
LEMMA AdvanceProceeds ==
  ASSUME OrderInv, NEW t \in Threads, Shape(t), Places(t), AdvanceStep(t)
  PROVE  Proceeds(t)
<1>k. TypeOK
  BY NodesTyped
<1>r. /\ pc \in [Threads -> Labels] /\ item \in [Threads -> Nodes] /\ av \in [Threads -> AdvanceFrames]
      /\ pd \in [Threads -> PayloadFrames] /\ jn \in [Threads -> JanitorFrames]
      /\ dr \in [Threads -> DropFrames] /\ op \in [Threads -> CallFrames]
      /\ strong \in [Nodes -> 0..UsizeMax] /\ UsizeMax \in Nat /\ weak \in [Nodes -> WeakWords]
      /\ mem \in [Nodes -> {"unused", "private", "live", "freed"}] /\ prev \in [Nodes -> Ptrs]
      /\ stamp \in [Nodes -> Nat] /\ next \in [Nodes -> NextWords] /\ adv \in [Nodes -> Int]
      /\ handle \in [Handles -> HandleStates]
  BY <1>k, HeapAssumption DEF TypeOK
<1>s. Shape(t)
  OBVIOUS
<1>c. /\ pc[t] \in Advancing \/ (pc[t] \in Dropping /\ pd[t].ret = "advs_a_decw") => (av[t].ret = "ret" => op[t].f # "upgrade")
      /\ pc[t] \in Updating => op[t].f # "upgrade"
      /\ pc[t] \in {"get_load", "get_done", "tgm_weak", "tgm_strong", "tgm_again", "mutref", "reading"} \cup SharedGetting
           => op[t].f # "upgrade"
      /\ dr[t].ret = "ret" => op[t].f # "upgrade" \/ ~op[t].ok
      /\ pc[t] \in Upgrading => op[t].f = "upgrade" /\ op[t].ok
      /\ pc[t] \in SharedGetting => op[t].f = "sharedGet"
      /\ pc[t] \in Advancing => av[t].ret # "idle"
      /\ pc[t] \in Dropping => pd[t].ret # "idle"
      /\ pc[t] \in Janitoring => jn[t].ret \in {"dw_weak", "upd_done", "get_done"}
      /\ pc[t] \in Dying \cup {"ds_dec"} => dr[t].ret # "idle"
  BY <1>s DEF Shape, Continues, DropShape
<1>i. /\ pc[t] \notin Advancing \cup Dropping => av[t].ret = "idle"
      /\ pc[t] \in Dropping /\ pd[t].ret # "advs_a_decw" => av[t].ret = "idle"
      /\ pd[t].ret # "idle" => pc[t] \in Dropping
  <2>1. Knows(pc[t], item[t], av[t], pd[t], jn[t], op[t])
    BY OrderInv DEF OrderInv, Local
  <2> QED BY <2>1 DEF Knows, Frames
<1>p. pc[t] \in {"adv_weak", "adv_dec", "adv_unweak"} => Before(item[t], av[t].nxt)
  BY DEF Places
<1>1. CASE AdvanceLoad(t)
  BY <1>k, <1>r, <1>c, <1>i, <1>1, SMTT(30) DEF AdvanceLoad, Goto, ReturnAdvance, ReadOnly,
     IdleAdvance, AdvanceFrames, Proceeds, Linking, Linked, Janitoring, Before, Dying, Updating,
     Upgrading, locals, client, heap
<1>2. CASE AdvanceInc(t)
  BY <1>k, <1>r, <1>c, <1>i, <1>2, SMTT(30) DEF AdvanceInc, Goto, OnlyAdv, Proceeds, Linking,
     Linked, Janitoring, Before, Dying, Updating, Upgrading, locals, client, heap
<1>3. CASE AdvanceReload(t)
  BY <1>k, <1>r, <1>c, <1>i, <1>3, SMTT(30) DEF AdvanceReload, Goto, ReadOnly, Proceeds,
     Linking, Linked, Janitoring, Before, Dying, Updating, Upgrading, locals, client, heap
<1>4. CASE AdvanceWeakInc(t)
  BY <1>k, <1>r, <1>c, <1>i, <1>4, SMTT(30) DEF AdvanceWeakInc, AddWeak, Goto, OnlyWeak,
     Proceeds, Linking, Linked, Janitoring, Before, Dying, Updating, Upgrading, locals, client,
     heap
<1>5. CASE AdvanceDec(t)
  BY <1>k, <1>r, <1>c, <1>i, <1>p, <1>5, SMTT(30) DEF AdvanceDec, Goto, OnlyAdv, Proceeds,
     Linking, Linked, Janitoring, Before, Dying, Updating, Upgrading, locals, client, heap
<1>6. CASE AdvanceWeakDec(t)
  BY <1>k, <1>r, <1>c, <1>i, <1>p, <1>6, SMTT(30) DEF AdvanceWeakDec, SubWeak, Goto, OnlyWeak,
     Proceeds, Linking, Linked, Janitoring, Before, Dying, Updating, Upgrading, locals, client,
     heap
<1>7. CASE WeakLeaveStart(t)
  BY <1>k, <1>r, <1>c, <1>i, <1>7, SMTT(30) DEF WeakLeaveStart, SubWeak, ReturnAdvance,
     OnlyWeak, Goto, IdleAdvance, AdvanceFrames, Proceeds, Linking, Linked, Janitoring, Before,
     Dying, Updating, Upgrading, locals, client, heap
<1>8. CASE PayloadMark(t)
  <2>1. CASE pd[t].ret = "advs_a_decw"
    BY <1>k, <1>r, <1>c, <1>i, <1>8, <2>1, SMTT(30) DEF PayloadMark, Goto, OnlyNext,
     IdlePayload, Proceeds, Linking, Linked, Janitoring, Before, Dying, Updating, Upgrading,
     locals, client, heap
  <2>2. CASE pd[t].ret = "dw_cas"
    BY <1>k, <1>r, <1>c, <1>i, <1>8, <2>2, SMTT(30) DEF PayloadMark, Goto, OnlyNext,
     IdlePayload, Proceeds, Linking, Linked, Janitoring, Before, Dying, Updating, Upgrading,
     locals, client, heap
  <2>3. CASE pd[t].ret = "upd_decw"
    BY <1>k, <1>r, <1>c, <1>i, <1>8, <2>3, SMTT(30) DEF PayloadMark, Goto, OnlyNext,
     IdlePayload, Proceeds, Linking, Linked, Janitoring, Before, Dying, Updating, Upgrading,
     locals, client, heap
  <2>r. pd[t].ret \in {"advs_a_decw", "dw_cas", "upd_decw"}
    BY <1>r, <1>s, <1>8 DEF
     PayloadFrames, Shape, PayloadMark
  <2> QED BY <2>1, <2>2, <2>3, <2>r
<1>9. CASE PayloadDrop(t)
  <2>1. CASE pd[t].ret = "advs_a_decw"
    BY <1>k, <1>r, <1>c, <1>i, <1>9, <2>1, SMTT(30) DEF PayloadDrop, DropPayload, Goto,
     IdlePayload, Proceeds, Linking, Linked, Janitoring, Before, Dying, Updating, Upgrading,
     locals, client, heap
  <2>2. CASE pd[t].ret = "dw_cas"
    BY <1>k, <1>r, <1>c, <1>i, <1>9, <2>2, SMTT(30) DEF PayloadDrop, DropPayload, Goto,
     IdlePayload, Proceeds, Linking, Linked, Janitoring, Before, Dying, Updating, Upgrading,
     locals, client, heap
  <2>3. CASE pd[t].ret = "upd_decw"
    BY <1>k, <1>r, <1>c, <1>i, <1>9, <2>3, SMTT(30) DEF PayloadDrop, DropPayload, Goto,
     IdlePayload, Proceeds, Linking, Linked, Janitoring, Before, Dying, Updating, Upgrading,
     locals, client, heap
  <2>r. pd[t].ret \in {"advs_a_decw", "dw_cas", "upd_decw"}
    BY <1>r, <1>s, <1>9 DEF
     PayloadFrames, Shape, PayloadDrop
  <2> QED BY <2>1, <2>2, <2>3, <2>r
<1>10. CASE StrongLoad(t)
  BY <1>k, <1>r, <1>c, <1>i, <1>10, SMTT(30) DEF StrongLoad, TryStrong, ReadOnly, Goto,
     IdleAdvance, AdvanceFrames, Proceeds, Linking, Linked, Janitoring, Before, Dying, Updating,
     Upgrading, locals, client, heap
<1>11. CASE StrongIncWeak(t)
  BY <1>k, <1>r, <1>c, <1>i, <1>11, SMTT(30) DEF StrongIncWeak, AddWeak, Goto, OnlyWeak,
     Proceeds, Linking, Linked, Janitoring, Before, Dying, Updating, Upgrading, locals, client,
     heap
<1>12. CASE StrongCas(t)
  <2>1. CASE strong[item[t]] = av[t].cs
    BY <1>k, <1>r, <1>c, <1>i, <1>12, <2>1, SMTT(30) DEF StrongCas, AddStrong, Goto, TryStrong,
     OnlyStrong, IdleAdvance, AdvanceFrames, Proceeds, Linking, Linked, Janitoring, Before,
     Dying, Updating, Upgrading, locals, client, heap
  <2>2. CASE strong[item[t]] # av[t].cs /\ av[t].cs = 0
    BY <1>k, <1>r, <1>c, <1>i, <1>12, <2>2, SMTT(30) DEF StrongCas, AddStrong, Goto, TryStrong,
     OnlyStrong, IdleAdvance, AdvanceFrames, Proceeds, Linking, Linked, Janitoring, Before,
     Dying, Updating, Upgrading, locals, client, heap
  <2>3. CASE strong[item[t]] # av[t].cs /\ av[t].cs # 0
    BY <1>k, <1>r, <1>c, <1>i, <1>12, <2>3, SMTT(30) DEF StrongCas, AddStrong, Goto, TryStrong,
     OnlyStrong, IdleAdvance, AdvanceFrames, Proceeds, Linking, Linked, Janitoring, Before,
     Dying, Updating, Upgrading, locals, client, heap
  <2> QED BY <2>1, <2>2, <2>3
<1>13. CASE StrongRaceDecWeak(t)
  BY <1>k, <1>r, <1>c, <1>i, <1>13, SMTT(30) DEF StrongRaceDecWeak, SubWeak, TryStrong,
     OnlyWeak, Goto, IdleAdvance, AdvanceFrames, Proceeds, Linking, Linked, Janitoring, Before,
     Dying, Updating, Upgrading, locals, client, heap
<1>14. CASE StrongRecheck(t)
  BY <1>k, <1>r, <1>c, <1>i, <1>14, SMTT(30) DEF StrongRecheck, Goto, ReadOnly, Proceeds,
     Linking, Linked, Janitoring, Before, Dying, Updating, Upgrading, locals, client, heap
<1>15. CASE StrongUndo(t)
  <2>1. CASE LastStrong(item[t])
    BY <1>k, <1>r, <1>c, <1>i, <1>15, <2>1, SMTT(30) DEF StrongUndo, SubStrong, Goto,
     RetryAdvance, OnlyStrong, IdleAdvance, AdvanceFrames, Proceeds, Linking, Linked,
     Janitoring, Before, Dying, Updating, Upgrading, locals, client, heap
  <2>2. CASE ~LastStrong(item[t])
    BY <1>k, <1>r, <1>c, <1>i, <1>15, <2>2, SMTT(30) DEF StrongUndo, SubStrong, Goto,
     RetryAdvance, OnlyStrong, IdleAdvance, AdvanceFrames, Proceeds, Linking, Linked,
     Janitoring, Before, Dying, Updating, Upgrading, locals, client, heap
  <2> QED BY <2>1, <2>2
<1>16. CASE StrongUndoDecWeak(t)
  BY <1>k, <1>r, <1>c, <1>i, <1>16, SMTT(30) DEF StrongUndoDecWeak, SubWeak, RetryAdvance,
     OnlyWeak, Goto, IdleAdvance, AdvanceFrames, Proceeds, Linking, Linked, Janitoring, Before,
     Dying, Updating, Upgrading, locals, client, heap
<1>17. CASE StrongDecWeakB(t)
  BY <1>k, <1>r, <1>c, <1>i, <1>17, SMTT(30) DEF StrongDecWeakB, SubWeak, Goto, OnlyWeak,
     Proceeds, Linking, Linked, Janitoring, Before, Dying, Updating, Upgrading, locals, client,
     heap
<1>18. CASE StrongLeaveStart(t)
  <2>1. CASE LastStrong(av[t].start)
    BY <1>k, <1>r, <1>c, <1>i, <1>18, <2>1, SMTT(30) DEF StrongLeaveStart, SubStrong,
     StartPayloadDrop, ReturnAdvance, OnlyStrong, Goto, IdleAdvance, AdvanceFrames, Proceeds,
     Linking, Linked, Janitoring, Before, Dying, Updating, Upgrading, locals, client, heap
  <2>2. CASE ~LastStrong(av[t].start)
    <3>2. CASE av[t].ret = "jan_lock"
      BY <1>k, <1>r, <1>c, <1>i, <1>18, <2>2, <3>2, SMTT(30) DEF StrongLeaveStart, SubStrong,
     StartPayloadDrop, ReturnAdvance, OnlyStrong, Goto, IdleAdvance, AdvanceFrames, Proceeds,
     Linking, Linked, Janitoring, Before, Dying, Updating, Upgrading, locals, client, heap
    <3>3. CASE av[t].ret = "ds_dec"
      BY <1>k, <1>r, <1>c, <1>i, <1>18, <2>2, <3>3, SMTT(30) DEF StrongLeaveStart, SubStrong,
     StartPayloadDrop, ReturnAdvance, OnlyStrong, Goto, IdleAdvance, AdvanceFrames, Proceeds,
     Linking, Linked, Janitoring, Before, Dying, Updating, Upgrading, locals, client, heap
    <3>4. CASE av[t].ret = "upd_next"
      BY <1>k, <1>r, <1>c, <1>i, <1>18, <2>2, <3>4, SMTT(30) DEF StrongLeaveStart, SubStrong,
     StartPayloadDrop, ReturnAdvance, OnlyStrong, Goto, IdleAdvance, AdvanceFrames, Proceeds,
     Linking, Linked, Janitoring, Before, Dying, Updating, Upgrading, locals, client, heap
    <3>5. CASE av[t].ret = "reading"
      BY <1>k, <1>r, <1>c, <1>i, <1>18, <2>2, <3>5, SMTT(30) DEF StrongLeaveStart, SubStrong,
     StartPayloadDrop, ReturnAdvance, OnlyStrong, Goto, IdleAdvance, AdvanceFrames, Proceeds,
     Linking, Linked, Janitoring, Before, Dying, Updating, Upgrading, locals, client, heap
    <3>6. CASE av[t].ret = "ret"
      BY <1>k, <1>r, <1>c, <1>i, <1>18, <2>2, <3>6, SMTT(30) DEF StrongLeaveStart, SubStrong,
     StartPayloadDrop, ReturnAdvance, OnlyStrong, Goto, IdleAdvance, AdvanceFrames, Proceeds,
     Linking, Linked, Janitoring, Before, Dying, Updating, Upgrading, locals, client, heap
    <3>r. av[t].ret = "jan_lock" \/ av[t].ret = "ds_dec" \/ av[t].ret = "upd_next" \/ av[t].ret = "reading" \/ av[t].ret = "ret"
      BY <1>s, <1>18, <2>2 DEF Shape, Continues, StrongLeaveStart
    <3> QED BY <3>2, <3>3, <3>4, <3>5, <3>6, <3>r
  <2> QED BY <2>1, <2>2
<1>19. CASE StrongDecWeakA(t)
  BY <1>k, <1>r, <1>c, <1>i, <1>19, SMTT(30) DEF StrongDecWeakA, SubWeak, ReturnAdvance,
     OnlyWeak, Goto, IdleAdvance, AdvanceFrames, Proceeds, Linking, Linked, Janitoring, Before,
     Dying, Updating, Upgrading, locals, client, heap
<1> QED BY <1>1, <1>2, <1>3, <1>4, <1>5, <1>6, <1>7, <1>8, <1>9, <1>10, <1>11, <1>12, <1>13,
  <1>14, <1>15, <1>16, <1>17, <1>18, <1>19 DEF AdvanceStep

(* What was asked for and decided stays in the steps of the janitor.        *)
LEMMA JanitorPledged ==
  ASSUME TypeOK, NEW t \in Threads, Shape(t), JanitorStep(t)
  PROVE  Pledged(t)
<1>k. TypeOK
  OBVIOUS
<1>r. /\ pc \in [Threads -> Labels] /\ item \in [Threads -> Nodes] /\ av \in [Threads -> AdvanceFrames]
      /\ pd \in [Threads -> PayloadFrames] /\ jn \in [Threads -> JanitorFrames]
      /\ dr \in [Threads -> DropFrames] /\ op \in [Threads -> CallFrames]
      /\ strong \in [Nodes -> 0..UsizeMax] /\ UsizeMax \in Nat /\ weak \in [Nodes -> WeakWords]
      /\ mem \in [Nodes -> {"unused", "private", "live", "freed"}] /\ prev \in [Nodes -> Ptrs]
      /\ stamp \in [Nodes -> Nat] /\ next \in [Nodes -> NextWords] /\ adv \in [Nodes -> Int]
      /\ handle \in [Handles -> HandleStates]
  BY HeapAssumption DEF TypeOK
<1>s. Shape(t)
  OBVIOUS
<1>1. CASE JanitorLockStart(t)
  <2>1. CASE next[item[t]].locked
    <3>1. /\ pc[t] = "jan_lock"
          /\ OnlyNext
          /\ UNCHANGED <<item, av, pd, dr, op>>
          /\ Disturb(item[t])
          /\ pc'[t] = jn[t].ret
          /\ jn'[t].ret = jn[t].ret /\ ~jn'[t].rerun /\ jn'[t].status = "Indeterminate"
      BY <1>k, <1>1, <2>1, JanitorLockStartEffect
    <3> QED BY <1>k, <1>r, <2>1, <3>1, SMTT(30) DEF Starts, OnlyNext, Disturb, Pledged,
     ValueIsGone, locals, client, heap
  <2>2. CASE ~next[item[t]].locked
    <3>1. /\ pc[t] = "jan_lock"
          /\ OnlyNext
          /\ UNCHANGED <<item, av, pd, dr, op>>
          /\ Lock(item[t])
          /\ pc'[t] = IF prev[item[t]] = Null THEN "jan_unlock" ELSE "jan_sweep"
          /\ jn'[t].ret = jn[t].ret /\ jn'[t].cur = prev[item[t]] /\ jn'[t].cand = prev[item[t]] /\ jn'[t].fail = Null
          /\ jn'[t].rdel = Null /\ jn'[t].right = Null /\ jn'[t].carry = Null /\ jn'[t].del = Null
          /\ ~jn'[t].seen /\ ~jn'[t].rerun
      BY <1>k, <1>1, <2>2, JanitorLockStartEffect
    <3> QED BY <1>k, <1>r, <2>2, <3>1, SMTT(30) DEF Starts, OnlyNext, Lock, Pledged,
     ValueIsGone, locals, client, heap
  <2> QED BY <2>1, <2>2
<1>2. CASE JanitorSweep(t)
  BY <1>k, <1>r, <1>2, SMTT(30) DEF JanitorSweep, Janitor, Disturb, Goto, Lock, OnlyNext,
     Pledged, ValueIsGone, locals, client, heap
<1>3. CASE JanitorCleanup(t)
  BY <1>k, <1>r, <1>3, SMTT(30) DEF JanitorCleanup, Janitor, Unlock, Goto, OnlyNext, Pledged,
     ValueIsGone, locals, client, heap
<1>4. CASE JanitorUnlockStart(t)
  <2>1. /\ pc[t] = "jan_unlock"
        /\ OnlyNext
        /\ UNCHANGED <<item, av, pd, dr, op>>
        /\ Unlock(item[t])
        /\ pc'[t] = jn[t].ret
        /\ jn'[t].ret = jn[t].ret /\ jn'[t].rerun = (jn[t].rerun \/ next[item[t]].disturbed) /\ jn'[t].status = StrongStatus(jn[t])
    BY <1>k, <1>4, JanitorUnlockStartEffect
  <2> QED BY <1>k, <1>r, <2>1, SMTT(30) DEF Starts, OnlyNext, Unlock, Pledged, ValueIsGone,
     locals, client, heap
<1>5. CASE JanitorStrong(t)
  BY <1>k, <1>r, <1>5, SMTT(30) DEF JanitorStrong, Janitor, Goto, ReadOnly, Pledged,
     ValueIsGone, locals, client, heap
<1>6. CASE JanitorSetNext(t)
  BY <1>k, <1>r, <1>6, SMTT(30) DEF JanitorSetNext, Janitor, SetNext, Goto, OnlyNext, Pledged,
     ValueIsGone, locals, client, heap
<1>7. CASE JanitorCheckAdvance(t)
  BY <1>k, <1>r, <1>7, SMTT(30) DEF JanitorCheckAdvance, Janitor, Goto, ReadOnly, Pledged,
     ValueIsGone, locals, client, heap
<1>8. CASE JanitorFinal(t)
  BY <1>k, <1>r, <1>8, SMTT(30) DEF JanitorFinal, Janitor, Goto, ReadOnly, Pledged, ValueIsGone,
     locals, client, heap
<1>9. CASE JanitorDelete(t)
  BY <1>k, <1>r, <1>9, SMTT(30) DEF JanitorDelete, Janitor, Goto, ReadOnly, Pledged,
     ValueIsGone, locals, client, heap
<1>10. CASE JanitorFree(t)
  <2>1. op' = op \/ op' = [op EXCEPT ![t].stolen = jn[t].del]
    BY <1>10 DEF JanitorFree, Deallocate, DropPayload
  <2> QED BY <1>k, <1>r, <2>1 DEF Pledged, CallFrames
<1>11. CASE JanitorClearPrev(t)
  BY <1>k, <1>r, <1>11, SMTT(30) DEF JanitorClearPrev, Janitor, Goto, OnlyWeak, Pledged,
     ValueIsGone, locals, client, heap
<1>12. CASE JanitorUnlink(t)
  BY <1>k, <1>r, <1>12, SMTT(30) DEF JanitorUnlink, Janitor, Goto, OnlyPrev, Pledged,
     ValueIsGone, locals, client, heap
<1>13. CASE JanitorCarry(t)
  BY <1>k, <1>r, <1>13, SMTT(30) DEF JanitorCarry, Janitor, ReleaseCarry, Goto, OnlyNext,
     Unlock, Pledged, ValueIsGone, locals, client, heap
<1>14. CASE JanitorUncarry(t)
  BY <1>k, <1>r, <1>14, SMTT(30) DEF JanitorUncarry, Janitor, ReleaseCarry, Goto, OnlyNext,
     Unlock, Pledged, ValueIsGone, locals, client, heap
<1> QED BY <1>1, <1>2, <1>3, <1>4, <1>5, <1>6, <1>7, <1>8, <1>9, <1>10, <1>11, <1>12, <1>13,
  <1>14 DEF JanitorStep

(* Where the steps of the janitor lead the call.                            *)
LEMMA JanitorProceeds ==
  ASSUME OrderInv, NEW t \in Threads, Shape(t), JanitorStep(t)
  PROVE  Proceeds(t)
<1>k. TypeOK
  BY NodesTyped
<1>r. /\ pc \in [Threads -> Labels] /\ item \in [Threads -> Nodes] /\ av \in [Threads -> AdvanceFrames]
      /\ pd \in [Threads -> PayloadFrames] /\ jn \in [Threads -> JanitorFrames]
      /\ dr \in [Threads -> DropFrames] /\ op \in [Threads -> CallFrames]
      /\ strong \in [Nodes -> 0..UsizeMax] /\ UsizeMax \in Nat /\ weak \in [Nodes -> WeakWords]
      /\ mem \in [Nodes -> {"unused", "private", "live", "freed"}] /\ prev \in [Nodes -> Ptrs]
      /\ stamp \in [Nodes -> Nat] /\ next \in [Nodes -> NextWords] /\ adv \in [Nodes -> Int]
      /\ handle \in [Handles -> HandleStates]
  BY <1>k, HeapAssumption DEF TypeOK
<1>s. Shape(t)
  OBVIOUS
<1>c. /\ pc[t] \in Advancing \/ (pc[t] \in Dropping /\ pd[t].ret = "advs_a_decw") => (av[t].ret = "ret" => op[t].f # "upgrade")
      /\ pc[t] \in Updating => op[t].f # "upgrade"
      /\ pc[t] \in {"get_load", "get_done", "tgm_weak", "tgm_strong", "tgm_again", "mutref", "reading"} \cup SharedGetting
           => op[t].f # "upgrade"
      /\ dr[t].ret = "ret" => op[t].f # "upgrade" \/ ~op[t].ok
      /\ pc[t] \in Upgrading => op[t].f = "upgrade" /\ op[t].ok
      /\ pc[t] \in SharedGetting => op[t].f = "sharedGet"
      /\ pc[t] \in Advancing => av[t].ret # "idle"
      /\ pc[t] \in Dropping => pd[t].ret # "idle"
      /\ pc[t] \in Janitoring => jn[t].ret \in {"dw_weak", "upd_done", "get_done"}
      /\ pc[t] \in Dying \cup {"ds_dec"} => dr[t].ret # "idle"
  BY <1>s DEF Shape, Continues, DropShape
<1>i. /\ pc[t] \notin Advancing \cup Dropping => av[t].ret = "idle"
      /\ pc[t] \in Dropping /\ pd[t].ret # "advs_a_decw" => av[t].ret = "idle"
      /\ pd[t].ret # "idle" => pc[t] \in Dropping
  <2>1. Knows(pc[t], item[t], av[t], pd[t], jn[t], op[t])
    BY OrderInv DEF OrderInv, Local
  <2> QED BY <2>1 DEF Knows, Frames
<1>1. CASE JanitorLockStart(t)
  <2>1. CASE next[item[t]].locked
    <3>1. /\ pc[t] = "jan_lock"
          /\ OnlyNext
          /\ UNCHANGED <<item, av, pd, dr, op>>
          /\ Disturb(item[t])
          /\ pc'[t] = jn[t].ret
          /\ jn'[t].ret = jn[t].ret /\ ~jn'[t].rerun /\ jn'[t].status = "Indeterminate"
      BY <1>k, <1>1, <2>1, JanitorLockStartEffect
    <3>3. CASE jn[t].ret = "dw_weak"
      BY <1>k, <1>r, <1>c, <1>i, <2>1, <3>1, <3>3, SMTT(30) DEF Starts, OnlyNext, Disturb,
     Proceeds, Linking, Linked, Janitoring, Before, Dying, Updating, Upgrading, locals, client,
     heap
    <3>4. CASE jn[t].ret = "upd_done"
      BY <1>k, <1>r, <1>c, <1>i, <2>1, <3>1, <3>4, SMTT(30) DEF Starts, OnlyNext, Disturb,
     Proceeds, Linking, Linked, Janitoring, Before, Dying, Updating, Upgrading, locals, client,
     heap
    <3>5. CASE jn[t].ret = "get_done"
      BY <1>k, <1>r, <1>c, <1>i, <2>1, <3>1, <3>5, SMTT(30) DEF Starts, OnlyNext, Disturb,
     Proceeds, Linking, Linked, Janitoring, Before, Dying, Updating, Upgrading, locals, client,
     heap
    <3>9. jn[t].ret = "dw_weak" \/ jn[t].ret = "upd_done" \/ jn[t].ret = "get_done"
      BY <1>k, <1>r, <1>s, <3>1, <2>1 DEF DropFrames, Shape, Dying, CallFrames, Continues,
     Janitoring
    <3> QED BY <3>3, <3>4, <3>5, <3>9
  <2>2. CASE ~next[item[t]].locked
    <3>1. /\ pc[t] = "jan_lock"
          /\ OnlyNext
          /\ UNCHANGED <<item, av, pd, dr, op>>
          /\ Lock(item[t])
          /\ pc'[t] = IF prev[item[t]] = Null THEN "jan_unlock" ELSE "jan_sweep"
          /\ jn'[t].ret = jn[t].ret /\ jn'[t].cur = prev[item[t]] /\ jn'[t].cand = prev[item[t]] /\ jn'[t].fail = Null
          /\ jn'[t].rdel = Null /\ jn'[t].right = Null /\ jn'[t].carry = Null /\ jn'[t].del = Null
          /\ ~jn'[t].seen /\ ~jn'[t].rerun
      BY <1>k, <1>1, <2>2, JanitorLockStartEffect
    <3> QED BY <1>k, <1>r, <1>c, <1>i, <2>2, <3>1, SMTT(30) DEF Starts, OnlyNext, Lock,
     Proceeds, Linking, Linked, Janitoring, Before, Dying, Updating, Upgrading, locals, client,
     heap
  <2> QED BY <2>1, <2>2
<1>2. CASE JanitorSweep(t)
  BY <1>k, <1>r, <1>c, <1>i, <1>2, SMTT(30) DEF JanitorSweep, Janitor, Disturb, Goto, Lock,
     OnlyNext, Proceeds, Linking, Linked, Janitoring, Before, Dying, Updating, Upgrading,
     locals, client, heap
<1>3. CASE JanitorCleanup(t)
  BY <1>k, <1>r, <1>c, <1>i, <1>3, SMTT(30) DEF JanitorCleanup, Janitor, Unlock, Goto, OnlyNext,
     Proceeds, Linking, Linked, Janitoring, Before, Dying, Updating, Upgrading, locals, client,
     heap
<1>4. CASE JanitorUnlockStart(t)
  <2>1. /\ pc[t] = "jan_unlock"
        /\ OnlyNext
        /\ UNCHANGED <<item, av, pd, dr, op>>
        /\ Unlock(item[t])
        /\ pc'[t] = jn[t].ret
        /\ jn'[t].ret = jn[t].ret /\ jn'[t].rerun = (jn[t].rerun \/ next[item[t]].disturbed) /\ jn'[t].status = StrongStatus(jn[t])
    BY <1>k, <1>4, JanitorUnlockStartEffect
  <2>3. CASE jn[t].ret = "dw_weak"
    BY <1>k, <1>r, <1>c, <1>i, <2>1, <2>3, SMTT(30) DEF Starts, OnlyNext, Unlock, Proceeds,
     Linking, Linked, Janitoring, Before, Dying, Updating, Upgrading, locals, client, heap
  <2>4. CASE jn[t].ret = "upd_done"
    BY <1>k, <1>r, <1>c, <1>i, <2>1, <2>4, SMTT(30) DEF Starts, OnlyNext, Unlock, Proceeds,
     Linking, Linked, Janitoring, Before, Dying, Updating, Upgrading, locals, client, heap
  <2>5. CASE jn[t].ret = "get_done"
    BY <1>k, <1>r, <1>c, <1>i, <2>1, <2>5, SMTT(30) DEF Starts, OnlyNext, Unlock, Proceeds,
     Linking, Linked, Janitoring, Before, Dying, Updating, Upgrading, locals, client, heap
  <2>9. jn[t].ret = "dw_weak" \/ jn[t].ret = "upd_done" \/ jn[t].ret = "get_done"
    BY <1>k, <1>r, <1>s, <2>1 DEF DropFrames, Shape, Dying, CallFrames, Continues, Janitoring
  <2> QED BY <2>3, <2>4, <2>5, <2>9
<1>5. CASE JanitorStrong(t)
  BY <1>k, <1>r, <1>c, <1>i, <1>5, SMTT(30) DEF JanitorStrong, Janitor, Goto, ReadOnly,
     Proceeds, Linking, Linked, Janitoring, Before, Dying, Updating, Upgrading, locals, client,
     heap
<1>6. CASE JanitorSetNext(t)
  BY <1>k, <1>r, <1>c, <1>i, <1>6, SMTT(30) DEF JanitorSetNext, Janitor, SetNext, Goto,
     OnlyNext, Proceeds, Linking, Linked, Janitoring, Before, Dying, Updating, Upgrading,
     locals, client, heap
<1>7. CASE JanitorCheckAdvance(t)
  BY <1>k, <1>r, <1>c, <1>i, <1>7, SMTT(30) DEF JanitorCheckAdvance, Janitor, Goto, ReadOnly,
     Proceeds, Linking, Linked, Janitoring, Before, Dying, Updating, Upgrading, locals, client,
     heap
<1>8. CASE JanitorFinal(t)
  BY <1>k, <1>r, <1>c, <1>i, <1>8, SMTT(30) DEF JanitorFinal, Janitor, Goto, ReadOnly, Proceeds,
     Linking, Linked, Janitoring, Before, Dying, Updating, Upgrading, locals, client, heap
<1>9. CASE JanitorDelete(t)
  BY <1>k, <1>r, <1>c, <1>i, <1>9, SMTT(30) DEF JanitorDelete, Janitor, Goto, ReadOnly,
     Proceeds, Linking, Linked, Janitoring, Before, Dying, Updating, Upgrading, locals, client,
     heap
<1>10. CASE JanitorFree(t)
  BY <1>k, <1>r, <1>c, <1>i, <1>10, SMTT(30) DEF JanitorFree, Janitor, Deallocate, Goto,
     DropPayload, Proceeds, Linking, Linked, Janitoring, Before, Dying, Updating, Upgrading,
     locals, client, heap
<1>11. CASE JanitorClearPrev(t)
  BY <1>k, <1>r, <1>c, <1>i, <1>11, SMTT(30) DEF JanitorClearPrev, Janitor, Goto, OnlyWeak,
     Proceeds, Linking, Linked, Janitoring, Before, Dying, Updating, Upgrading, locals, client,
     heap
<1>12. CASE JanitorUnlink(t)
  BY <1>k, <1>r, <1>c, <1>i, <1>12, SMTT(30) DEF JanitorUnlink, Janitor, Goto, OnlyPrev,
     Proceeds, Linking, Linked, Janitoring, Before, Dying, Updating, Upgrading, locals, client,
     heap
<1>13. CASE JanitorCarry(t)
  BY <1>k, <1>r, <1>c, <1>i, <1>13, SMTT(30) DEF JanitorCarry, Janitor, ReleaseCarry, Goto,
     OnlyNext, Unlock, Proceeds, Linking, Linked, Janitoring, Before, Dying, Updating,
     Upgrading, locals, client, heap
<1>14. CASE JanitorUncarry(t)
  BY <1>k, <1>r, <1>c, <1>i, <1>14, SMTT(30) DEF JanitorUncarry, Janitor, ReleaseCarry, Goto,
     OnlyNext, Unlock, Proceeds, Linking, Linked, Janitoring, Before, Dying, Updating,
     Upgrading, locals, client, heap
<1> QED BY <1>1, <1>2, <1>3, <1>4, <1>5, <1>6, <1>7, <1>8, <1>9, <1>10, <1>11, <1>12, <1>13,
  <1>14 DEF JanitorStep

(* What was asked for and decided stays in the steps of the drop of a reference.*)
LEMMA DropPledged ==
  ASSUME TypeOK, NEW t \in Threads, Shape(t), DropStep(t)
  PROVE  Pledged(t)
<1>k. TypeOK
  OBVIOUS
<1>r. /\ pc \in [Threads -> Labels] /\ item \in [Threads -> Nodes] /\ av \in [Threads -> AdvanceFrames]
      /\ pd \in [Threads -> PayloadFrames] /\ jn \in [Threads -> JanitorFrames]
      /\ dr \in [Threads -> DropFrames] /\ op \in [Threads -> CallFrames]
      /\ strong \in [Nodes -> 0..UsizeMax] /\ UsizeMax \in Nat /\ weak \in [Nodes -> WeakWords]
      /\ mem \in [Nodes -> {"unused", "private", "live", "freed"}] /\ prev \in [Nodes -> Ptrs]
      /\ stamp \in [Nodes -> Nat] /\ next \in [Nodes -> NextWords] /\ adv \in [Nodes -> Int]
      /\ handle \in [Handles -> HandleStates]
  BY HeapAssumption DEF TypeOK
<1>s. Shape(t)
  OBVIOUS
<1>1. CASE DropStrongDec(t)
  <2>1. CASE LastStrong(item[t])
    <3>1. /\ pc[t] = "ds_dec"
          /\ SubStrong(item[t])
          /\ OnlyStrong
          /\ UNCHANGED <<pd, op>>
          /\ Starts(t, item[t], "weak", "jan_lock")
          /\ jn'[t] = [IdleJanitor EXCEPT !.ret = "dw_weak"]
          /\ dr'[t] = [IdleDrop EXCEPT !.ret = dr[t].ret]
      BY <1>k, <1>1, <2>1, DropStrongDecEffect
    <3> QED BY <1>k, <1>r, <2>1, <3>1, SMTT(30) DEF Starts, SubStrong, OnlyStrong, IdleJanitor,
     IdleDrop, Pledged, ValueIsGone, locals, client, heap
  <2>2. CASE ~LastStrong(item[t])
    <3>1. /\ pc[t] = "ds_dec"
          /\ SubStrong(item[t])
          /\ OnlyStrong
          /\ UNCHANGED <<pd, op>>
          /\ pc'[t] = dr[t].ret
          /\ dr'[t] = IdleDrop
          /\ jn'[t] = IdleJanitor
          /\ UNCHANGED <<item, av>>
      BY <1>k, <1>1, <2>2, DropStrongDecEffect
    <3>3. CASE dr[t].ret = "ret"
      BY <1>k, <1>r, <2>2, <3>1, <3>3, SMTT(30) DEF Starts, SubStrong, OnlyStrong, IdleDrop,
     IdleJanitor, Pledged, ValueIsGone, locals, client, heap
    <3>4. CASE dr[t].ret = "sg_dec"
      BY <1>k, <1>r, <2>2, <3>1, <3>4, SMTT(30) DEF Starts, SubStrong, OnlyStrong, IdleDrop,
     IdleJanitor, Pledged, ValueIsGone, locals, client, heap
    <3>9. dr[t].ret = "ret" \/ dr[t].ret = "sg_dec"
      BY <1>k, <1>r, <1>s, <3>1, <2>2 DEF DropFrames, Shape, Dying, CallFrames, Continues,
     Janitoring
    <3> QED BY <3>3, <3>4, <3>9
  <2> QED BY <2>1, <2>2
<1>2. CASE DropWeakLoad(t)
  <2>1. CASE jn[t].rerun
    <3>1. /\ pc[t] = "dw_weak"
          /\ ReadOnly
          /\ UNCHANGED <<pd, op>>
          /\ Starts(t, item[t], "weak", "jan_lock")
          /\ jn'[t] = [IdleJanitor EXCEPT !.ret = "dw_weak"]
          /\ UNCHANGED dr
      BY <1>k, <1>2, <2>1, DropWeakLoadEffect
    <3> QED BY <1>k, <1>r, <2>1, <3>1, SMTT(30) DEF Starts, ReadOnly, IdleJanitor, Pledged,
     ValueIsGone, locals, client, heap
  <2>2. CASE ~jn[t].rerun
    <3>1. /\ pc[t] = "dw_weak"
          /\ ReadOnly
          /\ UNCHANGED <<pd, op>>
          /\ pc'[t] = "dw_next"
          /\ dr'[t] = [dr[t] EXCEPT !.ww = weak[item[t]]]
          /\ UNCHANGED <<item, av, jn>>
      BY <1>k, <1>2, <2>2, DropWeakLoadEffect
    <3> QED BY <1>k, <1>r, <2>2, <3>1, SMTT(30) DEF Starts, ReadOnly, Pledged, ValueIsGone,
     locals, client, heap
  <2> QED BY <2>1, <2>2
<1>3. CASE DropWeakNext(t)
  <2>1. CASE HasNext(item[t])
    <3>1. /\ pc[t] = "dw_next"
          /\ ReadOnly
          /\ UNCHANGED <<pd, op>>
          /\ Starts(t, item[t], "weak", "jan_lock")
          /\ jn'[t] = [IdleJanitor EXCEPT !.ret = "dw_weak"]
          /\ dr'[t] = [IdleDrop EXCEPT !.ret = dr[t].ret]
      BY <1>k, <1>3, <2>1, DropWeakNextEffect
    <3> QED BY <1>k, <1>r, <2>1, <3>1, SMTT(30) DEF Starts, ReadOnly, IdleJanitor, IdleDrop,
     Pledged, ValueIsGone, locals, client, heap
  <2>2. CASE ~HasNext(item[t])
    <3>1. /\ pc[t] = "dw_next"
          /\ ReadOnly
          /\ UNCHANGED <<pd, op>>
          /\ pc'[t] = IF jn[t].status = "NoStrongRefsExist" THEN "dw_claim" ELSE "dw_cas"
          /\ UNCHANGED <<item, av, jn, dr>>
      BY <1>k, <1>3, <2>2, DropWeakNextEffect
    <3> QED BY <1>k, <1>r, <2>2, <3>1, SMTT(30) DEF Starts, ReadOnly, Pledged, ValueIsGone,
     locals, client, heap
  <2> QED BY <2>1, <2>2
<1>4. CASE ClaimTeardown(t)
  BY <1>k, <1>r, <1>4, SMTT(30) DEF ClaimTeardown, StartPayloadDrop, Goto, OnlyStrong, Pledged,
     ValueIsGone, locals, client, heap
<1>5. CASE DropWeakCas(t)
  <2>1. CASE ~SameWeakWord(item[t], dr[t].ww)
    <3>1. /\ pc[t] = "dw_cas"
          /\ OnlyWeak
          /\ UNCHANGED <<pd, op>>
          /\ Starts(t, item[t], "weak", "jan_lock")
          /\ jn'[t] = [IdleJanitor EXCEPT !.ret = "dw_weak"]
          /\ dr'[t] = [IdleDrop EXCEPT !.ret = dr[t].ret]
          /\ UNCHANGED weak
      BY <1>k, <1>5, <2>1, DropWeakCasEffect
    <3> QED BY <1>k, <1>r, <2>1, <3>1, SMTT(30) DEF Starts, OnlyWeak, IdleJanitor, IdleDrop,
     Pledged, ValueIsGone, locals, client, heap
  <2>2. CASE SameWeakWord(item[t], dr[t].ww) /\ SoleUser(dr[t].ww)
    <3>1. /\ pc[t] = "dw_cas"
          /\ OnlyWeak
          /\ UNCHANGED <<pd, op>>
          /\ SubWeak(item[t])
          /\ pc'[t] = "dw_free"
          /\ UNCHANGED <<item, av, jn, dr>>
      BY <1>k, <1>5, <2>2, DropWeakCasEffect
    <3> QED BY <1>k, <1>r, <2>2, <3>1, SMTT(30) DEF Starts, OnlyWeak, SubWeak, Pledged,
     ValueIsGone, locals, client, heap
  <2>3. CASE SameWeakWord(item[t], dr[t].ww) /\ ~SoleUser(dr[t].ww)
    <3>1. /\ pc[t] = "dw_cas"
          /\ OnlyWeak
          /\ UNCHANGED <<pd, op>>
          /\ SubWeak(item[t])
          /\ pc'[t] = dr[t].ret
          /\ dr'[t] = IdleDrop
          /\ jn'[t] = IdleJanitor
          /\ UNCHANGED <<item, av>>
      BY <1>k, <1>5, <2>3, DropWeakCasEffect
    <3>3. CASE dr[t].ret = "ret"
      BY <1>k, <1>r, <2>3, <3>1, <3>3, SMTT(30) DEF Starts, OnlyWeak, SubWeak, IdleDrop,
     IdleJanitor, Pledged, ValueIsGone, locals, client, heap
    <3>4. CASE dr[t].ret = "sg_dec"
      BY <1>k, <1>r, <2>3, <3>1, <3>4, SMTT(30) DEF Starts, OnlyWeak, SubWeak, IdleDrop,
     IdleJanitor, Pledged, ValueIsGone, locals, client, heap
    <3>9. dr[t].ret = "ret" \/ dr[t].ret = "sg_dec"
      BY <1>k, <1>r, <1>s, <3>1, <2>3 DEF DropFrames, Shape, Dying, CallFrames, Continues,
     Janitoring
    <3> QED BY <3>3, <3>4, <3>9
  <2> QED BY <2>1, <2>2, <2>3
<1>6. CASE DropWeakFree(t)
  <2>1. /\ op'[t].f = op[t].f /\ op'[t].hnd = op[t].hnd /\ op'[t].out = op[t].out /\ op'[t].since = op[t].since
        /\ op'[t].val = op[t].val /\ op'[t].ok = op[t].ok
    BY <1>r, <1>6 DEF DropWeakFree, CallFrames
  <2> QED BY <2>1 DEF Pledged
<1> QED BY <1>1, <1>2, <1>3, <1>4, <1>5, <1>6 DEF DropStep

(* Where the steps of the drop of a reference lead the call.                *)
LEMMA DropProceeds ==
  ASSUME OrderInv, NEW t \in Threads, Shape(t), DropStep(t)
  PROVE  Proceeds(t)
<1>k. TypeOK
  BY NodesTyped
<1>r. /\ pc \in [Threads -> Labels] /\ item \in [Threads -> Nodes] /\ av \in [Threads -> AdvanceFrames]
      /\ pd \in [Threads -> PayloadFrames] /\ jn \in [Threads -> JanitorFrames]
      /\ dr \in [Threads -> DropFrames] /\ op \in [Threads -> CallFrames]
      /\ strong \in [Nodes -> 0..UsizeMax] /\ UsizeMax \in Nat /\ weak \in [Nodes -> WeakWords]
      /\ mem \in [Nodes -> {"unused", "private", "live", "freed"}] /\ prev \in [Nodes -> Ptrs]
      /\ stamp \in [Nodes -> Nat] /\ next \in [Nodes -> NextWords] /\ adv \in [Nodes -> Int]
      /\ handle \in [Handles -> HandleStates]
  BY <1>k, HeapAssumption DEF TypeOK
<1>s. Shape(t)
  OBVIOUS
<1>c. /\ pc[t] \in Advancing \/ (pc[t] \in Dropping /\ pd[t].ret = "advs_a_decw") => (av[t].ret = "ret" => op[t].f # "upgrade")
      /\ pc[t] \in Updating => op[t].f # "upgrade"
      /\ pc[t] \in {"get_load", "get_done", "tgm_weak", "tgm_strong", "tgm_again", "mutref", "reading"} \cup SharedGetting
           => op[t].f # "upgrade"
      /\ dr[t].ret = "ret" => op[t].f # "upgrade" \/ ~op[t].ok
      /\ pc[t] \in Upgrading => op[t].f = "upgrade" /\ op[t].ok
      /\ pc[t] \in SharedGetting => op[t].f = "sharedGet"
      /\ pc[t] \in Advancing => av[t].ret # "idle"
      /\ pc[t] \in Dropping => pd[t].ret # "idle"
      /\ pc[t] \in Janitoring => jn[t].ret \in {"dw_weak", "upd_done", "get_done"}
      /\ pc[t] \in Dying \cup {"ds_dec"} => dr[t].ret # "idle"
  BY <1>s DEF Shape, Continues, DropShape
<1>i. /\ pc[t] \notin Advancing \cup Dropping => av[t].ret = "idle"
      /\ pc[t] \in Dropping /\ pd[t].ret # "advs_a_decw" => av[t].ret = "idle"
      /\ pd[t].ret # "idle" => pc[t] \in Dropping
  <2>1. Knows(pc[t], item[t], av[t], pd[t], jn[t], op[t])
    BY OrderInv DEF OrderInv, Local
  <2> QED BY <2>1 DEF Knows, Frames
<1>1. CASE DropStrongDec(t)
  <2>1. CASE LastStrong(item[t])
    <3>1. /\ pc[t] = "ds_dec"
          /\ SubStrong(item[t])
          /\ OnlyStrong
          /\ UNCHANGED <<pd, op>>
          /\ Starts(t, item[t], "weak", "jan_lock")
          /\ jn'[t] = [IdleJanitor EXCEPT !.ret = "dw_weak"]
          /\ dr'[t] = [IdleDrop EXCEPT !.ret = dr[t].ret]
      BY <1>k, <1>1, <2>1, DropStrongDecEffect
    <3> QED BY <1>k, <1>r, <1>c, <1>i, <2>1, <3>1, SMTT(30) DEF Starts, SubStrong, OnlyStrong,
     IdleJanitor, IdleDrop, Proceeds, Linking, Linked, Janitoring, Before, Dying, Updating,
     Upgrading, locals, client, heap
  <2>2. CASE ~LastStrong(item[t])
    <3>1. /\ pc[t] = "ds_dec"
          /\ SubStrong(item[t])
          /\ OnlyStrong
          /\ UNCHANGED <<pd, op>>
          /\ pc'[t] = dr[t].ret
          /\ dr'[t] = IdleDrop
          /\ jn'[t] = IdleJanitor
          /\ UNCHANGED <<item, av>>
      BY <1>k, <1>1, <2>2, DropStrongDecEffect
    <3>3. CASE dr[t].ret = "ret"
      BY <1>k, <1>r, <1>c, <1>i, <2>2, <3>1, <3>3, SMTT(30) DEF Starts, SubStrong, OnlyStrong,
     IdleDrop, IdleJanitor, Proceeds, Linking, Linked, Janitoring, Before, Dying, Updating,
     Upgrading, locals, client, heap
    <3>4. CASE dr[t].ret = "sg_dec"
      BY <1>k, <1>r, <1>c, <1>i, <2>2, <3>1, <3>4, SMTT(30) DEF Starts, SubStrong, OnlyStrong,
     IdleDrop, IdleJanitor, Proceeds, Linking, Linked, Janitoring, Before, Dying, Updating,
     Upgrading, locals, client, heap
    <3>9. dr[t].ret = "ret" \/ dr[t].ret = "sg_dec"
      BY <1>k, <1>r, <1>s, <3>1, <2>2 DEF DropFrames, Shape, Dying, CallFrames, Continues,
     Janitoring
    <3> QED BY <3>3, <3>4, <3>9
  <2> QED BY <2>1, <2>2
<1>2. CASE DropWeakLoad(t)
  <2>1. CASE jn[t].rerun
    <3>1. /\ pc[t] = "dw_weak"
          /\ ReadOnly
          /\ UNCHANGED <<pd, op>>
          /\ Starts(t, item[t], "weak", "jan_lock")
          /\ jn'[t] = [IdleJanitor EXCEPT !.ret = "dw_weak"]
          /\ UNCHANGED dr
      BY <1>k, <1>2, <2>1, DropWeakLoadEffect
    <3> QED BY <1>k, <1>r, <1>c, <1>i, <2>1, <3>1, SMTT(30) DEF Starts, ReadOnly, IdleJanitor,
     Proceeds, Linking, Linked, Janitoring, Before, Dying, Updating, Upgrading, locals, client,
     heap
  <2>2. CASE ~jn[t].rerun
    <3>1. /\ pc[t] = "dw_weak"
          /\ ReadOnly
          /\ UNCHANGED <<pd, op>>
          /\ pc'[t] = "dw_next"
          /\ dr'[t] = [dr[t] EXCEPT !.ww = weak[item[t]]]
          /\ UNCHANGED <<item, av, jn>>
      BY <1>k, <1>2, <2>2, DropWeakLoadEffect
    <3> QED BY <1>k, <1>r, <1>c, <1>i, <2>2, <3>1, SMTT(30) DEF Starts, ReadOnly, Proceeds,
     Linking, Linked, Janitoring, Before, Dying, Updating, Upgrading, locals, client, heap
  <2> QED BY <2>1, <2>2
<1>3. CASE DropWeakNext(t)
  <2>1. CASE HasNext(item[t])
    <3>1. /\ pc[t] = "dw_next"
          /\ ReadOnly
          /\ UNCHANGED <<pd, op>>
          /\ Starts(t, item[t], "weak", "jan_lock")
          /\ jn'[t] = [IdleJanitor EXCEPT !.ret = "dw_weak"]
          /\ dr'[t] = [IdleDrop EXCEPT !.ret = dr[t].ret]
      BY <1>k, <1>3, <2>1, DropWeakNextEffect
    <3> QED BY <1>k, <1>r, <1>c, <1>i, <2>1, <3>1, SMTT(30) DEF Starts, ReadOnly, IdleJanitor,
     IdleDrop, Proceeds, Linking, Linked, Janitoring, Before, Dying, Updating, Upgrading,
     locals, client, heap
  <2>2. CASE ~HasNext(item[t])
    <3>1. /\ pc[t] = "dw_next"
          /\ ReadOnly
          /\ UNCHANGED <<pd, op>>
          /\ pc'[t] = IF jn[t].status = "NoStrongRefsExist" THEN "dw_claim" ELSE "dw_cas"
          /\ UNCHANGED <<item, av, jn, dr>>
      BY <1>k, <1>3, <2>2, DropWeakNextEffect
    <3> QED BY <1>k, <1>r, <1>c, <1>i, <2>2, <3>1, SMTT(30) DEF Starts, ReadOnly, Proceeds,
     Linking, Linked, Janitoring, Before, Dying, Updating, Upgrading, locals, client, heap
  <2> QED BY <2>1, <2>2
<1>4. CASE ClaimTeardown(t)
  BY <1>k, <1>r, <1>c, <1>i, <1>4, SMTT(30) DEF ClaimTeardown, StartPayloadDrop, Goto,
     OnlyStrong, Proceeds, Linking, Linked, Janitoring, Before, Dying, Updating, Upgrading,
     locals, client, heap
<1>5. CASE DropWeakCas(t)
  <2>1. CASE ~SameWeakWord(item[t], dr[t].ww)
    <3>1. /\ pc[t] = "dw_cas"
          /\ OnlyWeak
          /\ UNCHANGED <<pd, op>>
          /\ Starts(t, item[t], "weak", "jan_lock")
          /\ jn'[t] = [IdleJanitor EXCEPT !.ret = "dw_weak"]
          /\ dr'[t] = [IdleDrop EXCEPT !.ret = dr[t].ret]
          /\ UNCHANGED weak
      BY <1>k, <1>5, <2>1, DropWeakCasEffect
    <3> QED BY <1>k, <1>r, <1>c, <1>i, <2>1, <3>1, SMTT(30) DEF Starts, OnlyWeak, IdleJanitor,
     IdleDrop, Proceeds, Linking, Linked, Janitoring, Before, Dying, Updating, Upgrading,
     locals, client, heap
  <2>2. CASE SameWeakWord(item[t], dr[t].ww) /\ SoleUser(dr[t].ww)
    <3>1. /\ pc[t] = "dw_cas"
          /\ OnlyWeak
          /\ UNCHANGED <<pd, op>>
          /\ SubWeak(item[t])
          /\ pc'[t] = "dw_free"
          /\ UNCHANGED <<item, av, jn, dr>>
      BY <1>k, <1>5, <2>2, DropWeakCasEffect
    <3> QED BY <1>k, <1>r, <1>c, <1>i, <2>2, <3>1, SMTT(30) DEF Starts, OnlyWeak, SubWeak,
     Proceeds, Linking, Linked, Janitoring, Before, Dying, Updating, Upgrading, locals, client,
     heap
  <2>3. CASE SameWeakWord(item[t], dr[t].ww) /\ ~SoleUser(dr[t].ww)
    <3>1. /\ pc[t] = "dw_cas"
          /\ OnlyWeak
          /\ UNCHANGED <<pd, op>>
          /\ SubWeak(item[t])
          /\ pc'[t] = dr[t].ret
          /\ dr'[t] = IdleDrop
          /\ jn'[t] = IdleJanitor
          /\ UNCHANGED <<item, av>>
      BY <1>k, <1>5, <2>3, DropWeakCasEffect
    <3>3. CASE dr[t].ret = "ret"
      BY <1>k, <1>r, <1>c, <1>i, <2>3, <3>1, <3>3, SMTT(30) DEF Starts, OnlyWeak, SubWeak,
     IdleDrop, IdleJanitor, Proceeds, Linking, Linked, Janitoring, Before, Dying, Updating,
     Upgrading, locals, client, heap
    <3>4. CASE dr[t].ret = "sg_dec"
      BY <1>k, <1>r, <1>c, <1>i, <2>3, <3>1, <3>4, SMTT(30) DEF Starts, OnlyWeak, SubWeak,
     IdleDrop, IdleJanitor, Proceeds, Linking, Linked, Janitoring, Before, Dying, Updating,
     Upgrading, locals, client, heap
    <3>9. dr[t].ret = "ret" \/ dr[t].ret = "sg_dec"
      BY <1>k, <1>r, <1>s, <3>1, <2>3 DEF DropFrames, Shape, Dying, CallFrames, Continues,
     Janitoring
    <3> QED BY <3>3, <3>4, <3>9
  <2> QED BY <2>1, <2>2, <2>3
<1>6. CASE DropWeakFree(t)
  <2>1. /\ pc[t] = "dw_free"
        /\ mem' = [mem EXCEPT ![item[t]] = "freed"]
        /\ drops' = IF next[item[t]].dropped THEN drops ELSE [drops EXCEPT ![item[t]] = @ + 1]
        /\ UNCHANGED <<next, prev, strong, weak, adv, client, pd>>
        /\ op'[t].f = op[t].f /\ op'[t].ok = op[t].ok /\ op'[t].guard = op[t].guard /\ op'[t].hnd = op[t].hnd /\ op'[t].out = op[t].out
        /\ pc'[t] = dr[t].ret
        /\ dr'[t] = IdleDrop
        /\ jn'[t] = IdleJanitor
        /\ UNCHANGED <<item, av>>
    BY <1>k, <1>6, DropWeakFreeEffect
  <2>3. CASE dr[t].ret = "ret"
    BY <1>k, <1>r, <1>c, <1>i, <2>1, <2>3, SMTT(30) DEF Starts, IdleDrop, IdleJanitor, Proceeds,
     Linking, Linked, Janitoring, Before, Dying, Updating, Upgrading, locals, client, heap
  <2>4. CASE dr[t].ret = "sg_dec"
    BY <1>k, <1>r, <1>c, <1>i, <2>1, <2>4, SMTT(30) DEF Starts, IdleDrop, IdleJanitor, Proceeds,
     Linking, Linked, Janitoring, Before, Dying, Updating, Upgrading, locals, client, heap
  <2>9. dr[t].ret = "ret" \/ dr[t].ret = "sg_dec"
    BY <1>k, <1>r, <1>s, <2>1 DEF DropFrames, Shape, Dying, CallFrames, Continues, Janitoring
  <2> QED BY <2>3, <2>4, <2>9
<1> QED BY <1>1, <1>2, <1>3, <1>4, <1>5, <1>6 DEF DropStep

(* What was asked for and decided stays in the steps of an update.          *)
LEMMA UpdatePledged ==
  ASSUME OrderInv, NEW t \in Threads, Shape(t), UpdateStep(t)
  PROVE  Pledged(t)
<1>k. TypeOK
  BY NodesTyped
<1>r. /\ pc \in [Threads -> Labels] /\ item \in [Threads -> Nodes] /\ av \in [Threads -> AdvanceFrames]
      /\ pd \in [Threads -> PayloadFrames] /\ jn \in [Threads -> JanitorFrames]
      /\ dr \in [Threads -> DropFrames] /\ op \in [Threads -> CallFrames]
      /\ strong \in [Nodes -> 0..UsizeMax] /\ UsizeMax \in Nat /\ weak \in [Nodes -> WeakWords]
      /\ mem \in [Nodes -> {"unused", "private", "live", "freed"}] /\ prev \in [Nodes -> Ptrs]
      /\ stamp \in [Nodes -> Nat] /\ next \in [Nodes -> NextWords] /\ adv \in [Nodes -> Int]
      /\ handle \in [Handles -> HandleStates]
  BY <1>k, HeapAssumption DEF TypeOK
<1>s. Shape(t)
  OBVIOUS
<1>1. CASE UpdateNext(t)
  <2>1. CASE HasNext(item[t])
    <3>1. /\ pc[t] = "upd_next"
          /\ UNCHANGED <<client, pd, jn, dr>>
          /\ UNCHANGED <<next, adv, drops>>
          /\ Starts(t, item[t], "strong", "upd_next")
          /\ UNCHANGED <<heap, op>>
      BY <1>k, <1>1, <2>1, UpdateNextEffect
    <3> QED BY <1>k, <1>r, <1>1, <2>1, <3>1, SMTT(30) DEF Starts, Pledged, ValueIsGone, locals,
     client, heap
  <2>2. CASE ~HasNext(item[t]) /\ op[t].val # Null
    <3>1. /\ pc[t] = "upd_next"
          /\ UNCHANGED <<client, pd, jn, dr>>
          /\ UNCHANGED <<next, adv, drops>>
          /\ pc'[t] = "upd_weak"
          /\ op'[t] = [op[t] EXCEPT !.nw = next[item[t]]]
          /\ prev' = [prev EXCEPT ![op[t].val] = item[t]]
          /\ UNCHANGED <<strong, weak, mem, item, av>>
      BY <1>k, <1>1, <2>2, UpdateNextEffect
    <3> QED BY <1>k, <1>r, <1>1, <2>2, <3>1, SMTT(30) DEF Starts, Pledged, ValueIsGone, locals,
     client, heap
  <2>3. CASE ~HasNext(item[t]) /\ op[t].val = Null
    <3>1. /\ pc[t] = "upd_next"
          /\ UNCHANGED <<client, pd, jn, dr>>
          /\ UNCHANGED <<next, adv, drops>>
          /\ Unused # {}
          /\ pc'[t] = "upd_weak"
          /\ op'[t] = [op[t] EXCEPT !.val = FreshNode, !.nw = next[item[t]]]
          /\ NewHolder(FreshNode, item[t])
          /\ UNCHANGED <<item, av>>
      BY <1>k, <1>1, <2>3, UpdateNextEffect
    <3>2. FreshNode \in Nodes /\ mem[FreshNode] = "unused" /\ ~Published(FreshNode)
      BY <3>1, FreshIsUnused
    <3> QED BY <1>k, <1>r, <1>1, <2>3, <3>1, <3>2, SMTT(30) DEF Starts, NewHolder, Pledged,
     ValueIsGone, locals, client, heap
  <2> QED BY <2>1, <2>2, <2>3
<1>2. CASE RcuCancel(t)
  BY <1>k, <1>r, <1>2, SMTT(30) DEF RcuCancel, Goto, Pledged, ValueIsGone, locals, client, heap
<1>3. CASE UpdateWeakInc(t)
  BY <1>k, <1>r, <1>3, SMTT(30) DEF UpdateWeakInc, AddWeak, Goto, OnlyWeak, Pledged,
     ValueIsGone, locals, client, heap
<1>4. CASE UpdateCas(t)
  <2>1. CASE CanLink(item[t], op[t].nw)
    BY <1>k, <1>r, <1>4, <2>1, SMTT(30) DEF UpdateCas, SetNext, Publish, Goto, Pledged,
     ValueIsGone, locals, client, heap
  <2>2. CASE ~CanLink(item[t], op[t].nw)
    BY <1>k, <1>r, <1>4, <2>2, SMTT(30) DEF UpdateCas, SetNext, Publish, Goto, Pledged,
     ValueIsGone, locals, client, heap
  <2> QED BY <2>1, <2>2
<1>5. CASE UpdateFail(t)
  <2>1. /\ pc[t] = "upd_fail"
        /\ SubWeak(item[t])
        /\ OnlyWeak
        /\ UNCHANGED <<pd, jn, dr, op>>
        /\ Starts(t, item[t], "strong", "upd_next")
    BY <1>k, <1>5, UpdateFailEffect
  <2> QED BY <1>k, <1>r, <2>1, SMTT(30) DEF Starts, SubWeak, OnlyWeak, Pledged, ValueIsGone,
     locals, client, heap
<1>6. CASE UpdateMark(t)
  BY <1>k, <1>r, <1>6, SMTT(30) DEF UpdateMark, Goto, OnlyWeak, Pledged, ValueIsGone, locals,
     client, heap
<1>7. CASE UpdateDec(t)
  <2>1. CASE LastStrong(item[t])
    BY <1>k, <1>r, <1>7, <2>1, SMTT(30) DEF UpdateDec, SubStrong, StartPayloadDrop, Goto,
     OnlyStrong, Pledged, ValueIsGone, locals, client, heap
  <2>2. CASE ~LastStrong(item[t])
    BY <1>k, <1>r, <1>7, <2>2, SMTT(30) DEF UpdateDec, SubStrong, StartPayloadDrop, Goto,
     OnlyStrong, Pledged, ValueIsGone, locals, client, heap
  <2> QED BY <2>1, <2>2
<1>8. CASE UpdateDecWeak(t)
  BY <1>k, <1>r, <1>8, SMTT(30) DEF UpdateDecWeak, SubWeak, Goto, OnlyWeak, Pledged,
     ValueIsGone, locals, client, heap
<1>9. CASE UpdateDone(t)
  <2>1. CASE jn[t].rerun
    <3>1. /\ pc[t] = "upd_done"
          /\ ReadOnly
          /\ UNCHANGED <<pd, jn, dr, op>>
          /\ Starts(t, item[t], "strong", "jan_lock")
      BY <1>k, <1>9, <2>1, UpdateDoneEffect
    <3> QED BY <1>k, <1>r, <2>1, <3>1, SMTT(30) DEF Starts, ReadOnly, Pledged, ValueIsGone,
     locals, client, heap
  <2>2. CASE ~jn[t].rerun
    <3>1. /\ pc[t] = "upd_done"
          /\ ReadOnly
          /\ UNCHANGED <<pd, jn, dr, op>>
          /\ pc'[t] = "ret"
          /\ UNCHANGED <<item, av>>
      BY <1>k, <1>9, <2>2, UpdateDoneEffect
    <3> QED BY <1>k, <1>r, <2>2, <3>1, SMTT(30) DEF Starts, ReadOnly, Pledged, ValueIsGone,
     locals, client, heap
  <2> QED BY <2>1, <2>2
<1> QED BY <1>1, <1>2, <1>3, <1>4, <1>5, <1>6, <1>7, <1>8, <1>9 DEF UpdateStep

(* Where the steps of an update lead the call.                              *)
LEMMA UpdateProceeds ==
  ASSUME OrderInv, NEW t \in Threads, Shape(t), UpdateStep(t)
  PROVE  Proceeds(t)
<1>k. TypeOK
  BY NodesTyped
<1>r. /\ pc \in [Threads -> Labels] /\ item \in [Threads -> Nodes] /\ av \in [Threads -> AdvanceFrames]
      /\ pd \in [Threads -> PayloadFrames] /\ jn \in [Threads -> JanitorFrames]
      /\ dr \in [Threads -> DropFrames] /\ op \in [Threads -> CallFrames]
      /\ strong \in [Nodes -> 0..UsizeMax] /\ UsizeMax \in Nat /\ weak \in [Nodes -> WeakWords]
      /\ mem \in [Nodes -> {"unused", "private", "live", "freed"}] /\ prev \in [Nodes -> Ptrs]
      /\ stamp \in [Nodes -> Nat] /\ next \in [Nodes -> NextWords] /\ adv \in [Nodes -> Int]
      /\ handle \in [Handles -> HandleStates]
  BY <1>k, HeapAssumption DEF TypeOK
<1>s. Shape(t)
  OBVIOUS
<1>c. /\ pc[t] \in Advancing \/ (pc[t] \in Dropping /\ pd[t].ret = "advs_a_decw") => (av[t].ret = "ret" => op[t].f # "upgrade")
      /\ pc[t] \in Updating => op[t].f # "upgrade"
      /\ pc[t] \in {"get_load", "get_done", "tgm_weak", "tgm_strong", "tgm_again", "mutref", "reading"} \cup SharedGetting
           => op[t].f # "upgrade"
      /\ dr[t].ret = "ret" => op[t].f # "upgrade" \/ ~op[t].ok
      /\ pc[t] \in Upgrading => op[t].f = "upgrade" /\ op[t].ok
      /\ pc[t] \in SharedGetting => op[t].f = "sharedGet"
      /\ pc[t] \in Advancing => av[t].ret # "idle"
      /\ pc[t] \in Dropping => pd[t].ret # "idle"
      /\ pc[t] \in Janitoring => jn[t].ret \in {"dw_weak", "upd_done", "get_done"}
      /\ pc[t] \in Dying \cup {"ds_dec"} => dr[t].ret # "idle"
  BY <1>s DEF Shape, Continues, DropShape
<1>i. /\ pc[t] \notin Advancing \cup Dropping => av[t].ret = "idle"
      /\ pc[t] \in Dropping /\ pd[t].ret # "advs_a_decw" => av[t].ret = "idle"
      /\ pd[t].ret # "idle" => pc[t] \in Dropping
  <2>1. Knows(pc[t], item[t], av[t], pd[t], jn[t], op[t])
    BY OrderInv DEF OrderInv, Local
  <2> QED BY <2>1 DEF Knows, Frames
<1>1. CASE UpdateNext(t)
  <2>1. CASE HasNext(item[t])
    <3>1. /\ pc[t] = "upd_next"
          /\ UNCHANGED <<client, pd, jn, dr>>
          /\ UNCHANGED <<next, adv, drops>>
          /\ Starts(t, item[t], "strong", "upd_next")
          /\ UNCHANGED <<heap, op>>
      BY <1>k, <1>1, <2>1, UpdateNextEffect
    <3> QED BY <1>k, <1>r, <1>c, <1>i, <2>1, <3>1, SMTT(30) DEF Starts, Proceeds, Linking,
     Linked, Janitoring, Before, Dying, Updating, Upgrading, locals, client, heap
  <2>2. CASE ~HasNext(item[t]) /\ op[t].val # Null
    <3>1. /\ pc[t] = "upd_next"
          /\ UNCHANGED <<client, pd, jn, dr>>
          /\ UNCHANGED <<next, adv, drops>>
          /\ pc'[t] = "upd_weak"
          /\ op'[t] = [op[t] EXCEPT !.nw = next[item[t]]]
          /\ prev' = [prev EXCEPT ![op[t].val] = item[t]]
          /\ UNCHANGED <<strong, weak, mem, item, av>>
      BY <1>k, <1>1, <2>2, UpdateNextEffect
    <3> QED BY <1>k, <1>r, <1>c, <1>i, <2>2, <3>1, SMTT(30) DEF Starts, Proceeds, Linking,
     Linked, Janitoring, Before, Dying, Updating, Upgrading, locals, client, heap
  <2>3. CASE ~HasNext(item[t]) /\ op[t].val = Null
    <3>1. /\ pc[t] = "upd_next"
          /\ UNCHANGED <<client, pd, jn, dr>>
          /\ UNCHANGED <<next, adv, drops>>
          /\ Unused # {}
          /\ pc'[t] = "upd_weak"
          /\ op'[t] = [op[t] EXCEPT !.val = FreshNode, !.nw = next[item[t]]]
          /\ NewHolder(FreshNode, item[t])
          /\ UNCHANGED <<item, av>>
      BY <1>k, <1>1, <2>3, UpdateNextEffect
    <3>2. FreshNode \in Nodes /\ mem[FreshNode] = "unused" /\ ~Published(FreshNode)
      BY <3>1, FreshIsUnused
    <3> QED BY <1>k, <1>r, <1>c, <1>i, <2>3, <3>1, <3>2, SMTT(30) DEF Starts, NewHolder,
     Proceeds, Linking, Linked, Janitoring, Before, Dying, Updating, Upgrading, locals, client,
     heap
  <2> QED BY <2>1, <2>2, <2>3
<1>2. CASE RcuCancel(t)
  BY <1>k, <1>r, <1>c, <1>i, <1>2, SMTT(30) DEF RcuCancel, Goto, Proceeds, Linking, Linked,
     Janitoring, Before, Dying, Updating, Upgrading, locals, client, heap
<1>3. CASE UpdateWeakInc(t)
  BY <1>k, <1>r, <1>c, <1>i, <1>3, SMTT(30) DEF UpdateWeakInc, AddWeak, Goto, OnlyWeak,
     Proceeds, Linking, Linked, Janitoring, Before, Dying, Updating, Upgrading, locals, client,
     heap
<1>4. CASE UpdateCas(t)
  <2>1. CASE CanLink(item[t], op[t].nw)
    BY <1>k, <1>r, <1>c, <1>i, <1>4, <2>1, SMTT(30) DEF UpdateCas, SetNext, Publish, Goto,
     Proceeds, Linking, Linked, Janitoring, Before, Dying, Updating, Upgrading, locals, client,
     heap
  <2>2. CASE ~CanLink(item[t], op[t].nw)
    BY <1>k, <1>r, <1>c, <1>i, <1>4, <2>2, SMTT(30) DEF UpdateCas, SetNext, Publish, Goto,
     Proceeds, Linking, Linked, Janitoring, Before, Dying, Updating, Upgrading, locals, client,
     heap
  <2> QED BY <2>1, <2>2
<1>5. CASE UpdateFail(t)
  <2>1. /\ pc[t] = "upd_fail"
        /\ SubWeak(item[t])
        /\ OnlyWeak
        /\ UNCHANGED <<pd, jn, dr, op>>
        /\ Starts(t, item[t], "strong", "upd_next")
    BY <1>k, <1>5, UpdateFailEffect
  <2> QED BY <1>k, <1>r, <1>c, <1>i, <2>1, SMTT(30) DEF Starts, SubWeak, OnlyWeak, Proceeds,
     Linking, Linked, Janitoring, Before, Dying, Updating, Upgrading, locals, client, heap
<1>6. CASE UpdateMark(t)
  BY <1>k, <1>r, <1>c, <1>i, <1>6, SMTT(30) DEF UpdateMark, Goto, OnlyWeak, Proceeds, Linking,
     Linked, Janitoring, Before, Dying, Updating, Upgrading, locals, client, heap
<1>7. CASE UpdateDec(t)
  <2>1. CASE LastStrong(item[t])
    BY <1>k, <1>r, <1>c, <1>i, <1>7, <2>1, SMTT(30) DEF UpdateDec, SubStrong, StartPayloadDrop,
     Goto, OnlyStrong, Proceeds, Linking, Linked, Janitoring, Before, Dying, Updating,
     Upgrading, locals, client, heap
  <2>2. CASE ~LastStrong(item[t])
    BY <1>k, <1>r, <1>c, <1>i, <1>7, <2>2, SMTT(30) DEF UpdateDec, SubStrong, StartPayloadDrop,
     Goto, OnlyStrong, Proceeds, Linking, Linked, Janitoring, Before, Dying, Updating,
     Upgrading, locals, client, heap
  <2> QED BY <2>1, <2>2
<1>8. CASE UpdateDecWeak(t)
  BY <1>k, <1>r, <1>c, <1>i, <1>8, SMTT(30) DEF UpdateDecWeak, SubWeak, Goto, OnlyWeak,
     Proceeds, Linking, Linked, Janitoring, Before, Dying, Updating, Upgrading, locals, client,
     heap
<1>9. CASE UpdateDone(t)
  <2>1. CASE jn[t].rerun
    <3>1. /\ pc[t] = "upd_done"
          /\ ReadOnly
          /\ UNCHANGED <<pd, jn, dr, op>>
          /\ Starts(t, item[t], "strong", "jan_lock")
      BY <1>k, <1>9, <2>1, UpdateDoneEffect
    <3> QED BY <1>k, <1>r, <1>c, <1>i, <2>1, <3>1, SMTT(30) DEF Starts, ReadOnly, Proceeds,
     Linking, Linked, Janitoring, Before, Dying, Updating, Upgrading, locals, client, heap
  <2>2. CASE ~jn[t].rerun
    <3>1. /\ pc[t] = "upd_done"
          /\ ReadOnly
          /\ UNCHANGED <<pd, jn, dr, op>>
          /\ pc'[t] = "ret"
          /\ UNCHANGED <<item, av>>
      BY <1>k, <1>9, <2>2, UpdateDoneEffect
    <3> QED BY <1>k, <1>r, <1>c, <1>i, <2>2, <3>1, SMTT(30) DEF Starts, ReadOnly, Proceeds,
     Linking, Linked, Janitoring, Before, Dying, Updating, Upgrading, locals, client, heap
  <2> QED BY <2>1, <2>2
<1> QED BY <1>1, <1>2, <1>3, <1>4, <1>5, <1>6, <1>7, <1>8, <1>9 DEF UpdateStep

(* What was asked for and decided stays in the steps of an upgrade.         *)
LEMMA UpgradePledged ==
  ASSUME TypeOK, NEW t \in Threads, Shape(t), UpgradeStep(t)
  PROVE  Pledged(t)
<1>k. TypeOK
  OBVIOUS
<1>r. /\ pc \in [Threads -> Labels] /\ item \in [Threads -> Nodes] /\ av \in [Threads -> AdvanceFrames]
      /\ pd \in [Threads -> PayloadFrames] /\ jn \in [Threads -> JanitorFrames]
      /\ dr \in [Threads -> DropFrames] /\ op \in [Threads -> CallFrames]
      /\ strong \in [Nodes -> 0..UsizeMax] /\ UsizeMax \in Nat /\ weak \in [Nodes -> WeakWords]
      /\ mem \in [Nodes -> {"unused", "private", "live", "freed"}] /\ prev \in [Nodes -> Ptrs]
      /\ stamp \in [Nodes -> Nat] /\ next \in [Nodes -> NextWords] /\ adv \in [Nodes -> Int]
      /\ handle \in [Handles -> HandleStates]
  BY HeapAssumption DEF TypeOK
<1>s. Shape(t)
  OBVIOUS
<1>1. CASE UpgradeLoadStrong(t)
  BY <1>k, <1>r, <1>1, SMTT(30) DEF UpgradeLoadStrong, Goto, ReadOnly, Pledged, ValueIsGone,
     locals, client, heap
<1>2. CASE UpgradeLoadNext(t)
  <2>1. CASE HasNext(item[t])
    <3>1. /\ pc[t] = "upg_next"
          /\ ReadOnly
          /\ UNCHANGED pd
          /\ Starts(t, item[t], "weak", "upg_strong")
          /\ UNCHANGED <<jn, dr, op>>
      BY <1>k, <1>2, <2>1, UpgradeLoadNextEffect
    <3> QED BY <1>k, <1>r, <1>2, <2>1, <3>1, SMTT(30) DEF Starts, ReadOnly, Pledged,
     ValueIsGone, locals, client, heap
  <2>2. CASE ~HasNext(item[t]) /\ ValueIsGone(item[t], op[t].cs)
    <3>1. /\ pc[t] = "upg_next"
          /\ ReadOnly
          /\ UNCHANGED pd
          /\ Starts(t, item[t], "weak", "jan_lock")
          /\ jn'[t] = [IdleJanitor EXCEPT !.ret = "dw_weak"]
          /\ dr'[t] = [IdleDrop EXCEPT !.ret = "ret"]
          /\ op'[t] = [op[t] EXCEPT !.ok = FALSE]
      BY <1>k, <1>2, <2>2, UpgradeLoadNextEffect
    <3> QED BY <1>k, <1>r, <1>2, <2>2, <3>1, SMTT(30) DEF Starts, ReadOnly, IdleJanitor,
     IdleDrop, Pledged, ValueIsGone, locals, client, heap
  <2>3. CASE ~HasNext(item[t]) /\ ~ValueIsGone(item[t], op[t].cs)
    <3>1. /\ pc[t] = "upg_next"
          /\ ReadOnly
          /\ UNCHANGED pd
          /\ pc'[t] = IF op[t].cs = 0 THEN "upg_incw" ELSE "upg_cas"
          /\ UNCHANGED <<item, av, jn, dr, op>>
      BY <1>k, <1>2, <2>3, UpgradeLoadNextEffect
    <3> QED BY <1>k, <1>r, <1>2, <2>3, <3>1, SMTT(30) DEF Starts, ReadOnly, Pledged,
     ValueIsGone, locals, client, heap
  <2> QED BY <2>1, <2>2, <2>3
<1>3. CASE UpgradeIncWeak(t)
  BY <1>k, <1>r, <1>3, SMTT(30) DEF UpgradeIncWeak, AddWeak, Goto, OnlyWeak, Pledged,
     ValueIsGone, locals, client, heap
<1>4. CASE UpgradeCas(t)
  <2>1. CASE strong[item[t]] = op[t].cs
    <3>1. /\ pc[t] = "upg_cas"
          /\ OnlyStrong
          /\ UNCHANGED <<pd, jn, dr, op>>
          /\ AddStrong(item[t])
          /\ pc'[t] = "upg_check"
          /\ UNCHANGED <<item, av>>
      BY <1>k, <1>4, <2>1, UpgradeCasEffect
    <3> QED BY <1>k, <1>r, <2>1, <3>1, SMTT(30) DEF Starts, OnlyStrong, AddStrong, Pledged,
     ValueIsGone, locals, client, heap
  <2>2. CASE strong[item[t]] # op[t].cs /\ op[t].cs = 0
    <3>1. /\ pc[t] = "upg_cas"
          /\ OnlyStrong
          /\ UNCHANGED <<pd, jn, dr, op>>
          /\ pc'[t] = "upg_race"
          /\ UNCHANGED <<strong, item, av>>
      BY <1>k, <1>4, <2>2, UpgradeCasEffect
    <3> QED BY <1>k, <1>r, <2>2, <3>1, SMTT(30) DEF Starts, OnlyStrong, Pledged, ValueIsGone,
     locals, client, heap
  <2>3. CASE strong[item[t]] # op[t].cs /\ op[t].cs # 0
    <3>1. /\ pc[t] = "upg_cas"
          /\ OnlyStrong
          /\ UNCHANGED <<pd, jn, dr, op>>
          /\ Starts(t, item[t], "weak", "upg_strong")
          /\ UNCHANGED strong
      BY <1>k, <1>4, <2>3, UpgradeCasEffect
    <3> QED BY <1>k, <1>r, <2>3, <3>1, SMTT(30) DEF Starts, OnlyStrong, Pledged, ValueIsGone,
     locals, client, heap
  <2> QED BY <2>1, <2>2, <2>3
<1>5. CASE UpgradeRaceDecWeak(t)
  <2>1. /\ pc[t] = "upg_race"
        /\ SubWeak(item[t])
        /\ OnlyWeak
        /\ UNCHANGED <<pd, jn, dr, op>>
        /\ Starts(t, item[t], "weak", "upg_strong")
    BY <1>k, <1>5, UpgradeRaceDecWeakEffect
  <2> QED BY <1>k, <1>r, <2>1, SMTT(30) DEF Starts, SubWeak, OnlyWeak, Pledged, ValueIsGone,
     locals, client, heap
<1>6. CASE UpgradeCheck(t)
  BY <1>k, <1>r, <1>6, SMTT(30) DEF UpgradeCheck, Goto, ReadOnly, Pledged, ValueIsGone, locals,
     client, heap
<1>7. CASE UpgradeUndo(t)
  <2>1. CASE LastStrong(item[t])
    <3>1. /\ pc[t] = "upg_undo"
          /\ SubStrong(item[t])
          /\ OnlyStrong
          /\ UNCHANGED <<pd, jn, dr, op>>
          /\ pc'[t] = "upg_undo_decw"
          /\ UNCHANGED <<item, av>>
      BY <1>k, <1>7, <2>1, UpgradeUndoEffect
    <3> QED BY <1>k, <1>r, <2>1, <3>1, SMTT(30) DEF Starts, SubStrong, OnlyStrong, Pledged,
     ValueIsGone, locals, client, heap
  <2>2. CASE ~LastStrong(item[t])
    <3>1. /\ pc[t] = "upg_undo"
          /\ SubStrong(item[t])
          /\ OnlyStrong
          /\ UNCHANGED <<pd, jn, dr, op>>
          /\ Starts(t, item[t], "weak", "upg_strong")
      BY <1>k, <1>7, <2>2, UpgradeUndoEffect
    <3> QED BY <1>k, <1>r, <2>2, <3>1, SMTT(30) DEF Starts, SubStrong, OnlyStrong, Pledged,
     ValueIsGone, locals, client, heap
  <2> QED BY <2>1, <2>2
<1>8. CASE UpgradeUndoDecWeak(t)
  <2>1. /\ pc[t] = "upg_undo_decw"
        /\ SubWeak(item[t])
        /\ OnlyWeak
        /\ UNCHANGED <<pd, jn, dr, op>>
        /\ Starts(t, item[t], "weak", "upg_strong")
    BY <1>k, <1>8, UpgradeUndoDecWeakEffect
  <2> QED BY <1>k, <1>r, <2>1, SMTT(30) DEF Starts, SubWeak, OnlyWeak, Pledged, ValueIsGone,
     locals, client, heap
<1>9. CASE UpgradeDone(t)
  BY <1>k, <1>r, <1>9, SMTT(30) DEF UpgradeDone, SubWeak, Goto, OnlyWeak, Pledged, ValueIsGone,
     locals, client, heap
<1> QED BY <1>1, <1>2, <1>3, <1>4, <1>5, <1>6, <1>7, <1>8, <1>9 DEF UpgradeStep

(* Where the steps of an upgrade lead the call.                             *)
LEMMA UpgradeProceeds ==
  ASSUME OrderInv, NEW t \in Threads, Shape(t), UpgradeStep(t)
  PROVE  Proceeds(t)
<1>k. TypeOK
  BY NodesTyped
<1>r. /\ pc \in [Threads -> Labels] /\ item \in [Threads -> Nodes] /\ av \in [Threads -> AdvanceFrames]
      /\ pd \in [Threads -> PayloadFrames] /\ jn \in [Threads -> JanitorFrames]
      /\ dr \in [Threads -> DropFrames] /\ op \in [Threads -> CallFrames]
      /\ strong \in [Nodes -> 0..UsizeMax] /\ UsizeMax \in Nat /\ weak \in [Nodes -> WeakWords]
      /\ mem \in [Nodes -> {"unused", "private", "live", "freed"}] /\ prev \in [Nodes -> Ptrs]
      /\ stamp \in [Nodes -> Nat] /\ next \in [Nodes -> NextWords] /\ adv \in [Nodes -> Int]
      /\ handle \in [Handles -> HandleStates]
  BY <1>k, HeapAssumption DEF TypeOK
<1>s. Shape(t)
  OBVIOUS
<1>c. /\ pc[t] \in Advancing \/ (pc[t] \in Dropping /\ pd[t].ret = "advs_a_decw") => (av[t].ret = "ret" => op[t].f # "upgrade")
      /\ pc[t] \in Updating => op[t].f # "upgrade"
      /\ pc[t] \in {"get_load", "get_done", "tgm_weak", "tgm_strong", "tgm_again", "mutref", "reading"} \cup SharedGetting
           => op[t].f # "upgrade"
      /\ dr[t].ret = "ret" => op[t].f # "upgrade" \/ ~op[t].ok
      /\ pc[t] \in Upgrading => op[t].f = "upgrade" /\ op[t].ok
      /\ pc[t] \in SharedGetting => op[t].f = "sharedGet"
      /\ pc[t] \in Advancing => av[t].ret # "idle"
      /\ pc[t] \in Dropping => pd[t].ret # "idle"
      /\ pc[t] \in Janitoring => jn[t].ret \in {"dw_weak", "upd_done", "get_done"}
      /\ pc[t] \in Dying \cup {"ds_dec"} => dr[t].ret # "idle"
  BY <1>s DEF Shape, Continues, DropShape
<1>i. /\ pc[t] \notin Advancing \cup Dropping => av[t].ret = "idle"
      /\ pc[t] \in Dropping /\ pd[t].ret # "advs_a_decw" => av[t].ret = "idle"
      /\ pd[t].ret # "idle" => pc[t] \in Dropping
  <2>1. Knows(pc[t], item[t], av[t], pd[t], jn[t], op[t])
    BY OrderInv DEF OrderInv, Local
  <2> QED BY <2>1 DEF Knows, Frames
<1>1. CASE UpgradeLoadStrong(t)
  BY <1>k, <1>r, <1>c, <1>i, <1>1, SMTT(30) DEF UpgradeLoadStrong, Goto, ReadOnly, Proceeds,
     Linking, Linked, Janitoring, Before, Dying, Updating, Upgrading, locals, client, heap
<1>2. CASE UpgradeLoadNext(t)
  <2>1. CASE HasNext(item[t])
    <3>1. /\ pc[t] = "upg_next"
          /\ ReadOnly
          /\ UNCHANGED pd
          /\ Starts(t, item[t], "weak", "upg_strong")
          /\ UNCHANGED <<jn, dr, op>>
      BY <1>k, <1>2, <2>1, UpgradeLoadNextEffect
    <3> QED BY <1>k, <1>r, <1>c, <1>i, <2>1, <3>1, SMTT(30) DEF Starts, ReadOnly, Proceeds,
     Linking, Linked, Janitoring, Before, Dying, Updating, Upgrading, locals, client, heap
  <2>2. CASE ~HasNext(item[t]) /\ ValueIsGone(item[t], op[t].cs)
    <3>1. /\ pc[t] = "upg_next"
          /\ ReadOnly
          /\ UNCHANGED pd
          /\ Starts(t, item[t], "weak", "jan_lock")
          /\ jn'[t] = [IdleJanitor EXCEPT !.ret = "dw_weak"]
          /\ dr'[t] = [IdleDrop EXCEPT !.ret = "ret"]
          /\ op'[t] = [op[t] EXCEPT !.ok = FALSE]
      BY <1>k, <1>2, <2>2, UpgradeLoadNextEffect
    <3> QED BY <1>k, <1>r, <1>c, <1>i, <2>2, <3>1, SMTT(30) DEF Starts, ReadOnly, IdleJanitor,
     IdleDrop, Proceeds, Linking, Linked, Janitoring, Before, Dying, Updating, Upgrading,
     locals, client, heap
  <2>3. CASE ~HasNext(item[t]) /\ ~ValueIsGone(item[t], op[t].cs)
    <3>1. /\ pc[t] = "upg_next"
          /\ ReadOnly
          /\ UNCHANGED pd
          /\ pc'[t] = IF op[t].cs = 0 THEN "upg_incw" ELSE "upg_cas"
          /\ UNCHANGED <<item, av, jn, dr, op>>
      BY <1>k, <1>2, <2>3, UpgradeLoadNextEffect
    <3> QED BY <1>k, <1>r, <1>c, <1>i, <2>3, <3>1, SMTT(30) DEF Starts, ReadOnly, Proceeds,
     Linking, Linked, Janitoring, Before, Dying, Updating, Upgrading, locals, client, heap
  <2> QED BY <2>1, <2>2, <2>3
<1>3. CASE UpgradeIncWeak(t)
  BY <1>k, <1>r, <1>c, <1>i, <1>3, SMTT(30) DEF UpgradeIncWeak, AddWeak, Goto, OnlyWeak,
     Proceeds, Linking, Linked, Janitoring, Before, Dying, Updating, Upgrading, locals, client,
     heap
<1>4. CASE UpgradeCas(t)
  <2>1. CASE strong[item[t]] = op[t].cs
    <3>1. /\ pc[t] = "upg_cas"
          /\ OnlyStrong
          /\ UNCHANGED <<pd, jn, dr, op>>
          /\ AddStrong(item[t])
          /\ pc'[t] = "upg_check"
          /\ UNCHANGED <<item, av>>
      BY <1>k, <1>4, <2>1, UpgradeCasEffect
    <3> QED BY <1>k, <1>r, <1>c, <1>i, <2>1, <3>1, SMTT(30) DEF Starts, OnlyStrong, AddStrong,
     Proceeds, Linking, Linked, Janitoring, Before, Dying, Updating, Upgrading, locals, client,
     heap
  <2>2. CASE strong[item[t]] # op[t].cs /\ op[t].cs = 0
    <3>1. /\ pc[t] = "upg_cas"
          /\ OnlyStrong
          /\ UNCHANGED <<pd, jn, dr, op>>
          /\ pc'[t] = "upg_race"
          /\ UNCHANGED <<strong, item, av>>
      BY <1>k, <1>4, <2>2, UpgradeCasEffect
    <3> QED BY <1>k, <1>r, <1>c, <1>i, <2>2, <3>1, SMTT(30) DEF Starts, OnlyStrong, Proceeds,
     Linking, Linked, Janitoring, Before, Dying, Updating, Upgrading, locals, client, heap
  <2>3. CASE strong[item[t]] # op[t].cs /\ op[t].cs # 0
    <3>1. /\ pc[t] = "upg_cas"
          /\ OnlyStrong
          /\ UNCHANGED <<pd, jn, dr, op>>
          /\ Starts(t, item[t], "weak", "upg_strong")
          /\ UNCHANGED strong
      BY <1>k, <1>4, <2>3, UpgradeCasEffect
    <3> QED BY <1>k, <1>r, <1>c, <1>i, <2>3, <3>1, SMTT(30) DEF Starts, OnlyStrong, Proceeds,
     Linking, Linked, Janitoring, Before, Dying, Updating, Upgrading, locals, client, heap
  <2> QED BY <2>1, <2>2, <2>3
<1>5. CASE UpgradeRaceDecWeak(t)
  <2>1. /\ pc[t] = "upg_race"
        /\ SubWeak(item[t])
        /\ OnlyWeak
        /\ UNCHANGED <<pd, jn, dr, op>>
        /\ Starts(t, item[t], "weak", "upg_strong")
    BY <1>k, <1>5, UpgradeRaceDecWeakEffect
  <2> QED BY <1>k, <1>r, <1>c, <1>i, <2>1, SMTT(30) DEF Starts, SubWeak, OnlyWeak, Proceeds,
     Linking, Linked, Janitoring, Before, Dying, Updating, Upgrading, locals, client, heap
<1>6. CASE UpgradeCheck(t)
  BY <1>k, <1>r, <1>c, <1>i, <1>6, SMTT(30) DEF UpgradeCheck, Goto, ReadOnly, Proceeds, Linking,
     Linked, Janitoring, Before, Dying, Updating, Upgrading, locals, client, heap
<1>7. CASE UpgradeUndo(t)
  <2>1. CASE LastStrong(item[t])
    <3>1. /\ pc[t] = "upg_undo"
          /\ SubStrong(item[t])
          /\ OnlyStrong
          /\ UNCHANGED <<pd, jn, dr, op>>
          /\ pc'[t] = "upg_undo_decw"
          /\ UNCHANGED <<item, av>>
      BY <1>k, <1>7, <2>1, UpgradeUndoEffect
    <3> QED BY <1>k, <1>r, <1>c, <1>i, <2>1, <3>1, SMTT(30) DEF Starts, SubStrong, OnlyStrong,
     Proceeds, Linking, Linked, Janitoring, Before, Dying, Updating, Upgrading, locals, client,
     heap
  <2>2. CASE ~LastStrong(item[t])
    <3>1. /\ pc[t] = "upg_undo"
          /\ SubStrong(item[t])
          /\ OnlyStrong
          /\ UNCHANGED <<pd, jn, dr, op>>
          /\ Starts(t, item[t], "weak", "upg_strong")
      BY <1>k, <1>7, <2>2, UpgradeUndoEffect
    <3> QED BY <1>k, <1>r, <1>c, <1>i, <2>2, <3>1, SMTT(30) DEF Starts, SubStrong, OnlyStrong,
     Proceeds, Linking, Linked, Janitoring, Before, Dying, Updating, Upgrading, locals, client,
     heap
  <2> QED BY <2>1, <2>2
<1>8. CASE UpgradeUndoDecWeak(t)
  <2>1. /\ pc[t] = "upg_undo_decw"
        /\ SubWeak(item[t])
        /\ OnlyWeak
        /\ UNCHANGED <<pd, jn, dr, op>>
        /\ Starts(t, item[t], "weak", "upg_strong")
    BY <1>k, <1>8, UpgradeUndoDecWeakEffect
  <2> QED BY <1>k, <1>r, <1>c, <1>i, <2>1, SMTT(30) DEF Starts, SubWeak, OnlyWeak, Proceeds,
     Linking, Linked, Janitoring, Before, Dying, Updating, Upgrading, locals, client, heap
<1>9. CASE UpgradeDone(t)
  BY <1>k, <1>r, <1>c, <1>i, <1>9, SMTT(30) DEF UpgradeDone, SubWeak, Goto, OnlyWeak, Proceeds,
     Linking, Linked, Janitoring, Before, Dying, Updating, Upgrading, locals, client, heap
<1> QED BY <1>1, <1>2, <1>3, <1>4, <1>5, <1>6, <1>7, <1>8, <1>9 DEF UpgradeStep

(* What was asked for and decided stays in the steps of the functions of the API.*)
LEMMA ApiPledged ==
  ASSUME TypeOK, NEW t \in Threads, Shape(t), ApiStep(t), ~Return(t)
  PROVE  Pledged(t)
<1>k. TypeOK
  OBVIOUS
<1>r. /\ pc \in [Threads -> Labels] /\ item \in [Threads -> Nodes] /\ av \in [Threads -> AdvanceFrames]
      /\ pd \in [Threads -> PayloadFrames] /\ jn \in [Threads -> JanitorFrames]
      /\ dr \in [Threads -> DropFrames] /\ op \in [Threads -> CallFrames]
      /\ strong \in [Nodes -> 0..UsizeMax] /\ UsizeMax \in Nat /\ weak \in [Nodes -> WeakWords]
      /\ mem \in [Nodes -> {"unused", "private", "live", "freed"}] /\ prev \in [Nodes -> Ptrs]
      /\ stamp \in [Nodes -> Nat] /\ next \in [Nodes -> NextWords] /\ adv \in [Nodes -> Int]
      /\ handle \in [Handles -> HandleStates]
  BY HeapAssumption DEF TypeOK
<1>s. Shape(t)
  OBVIOUS
<1>1. CASE GetLoad(t)
  <2>1. CASE NeedsReload(op[t].f, item[t])
    <3>1. /\ pc[t] = "get_load"
          /\ ReadOnly
          /\ UNCHANGED <<pd, dr, op>>
          /\ Starts(t, item[t], "strong", "jan_lock")
          /\ jn'[t].ret = "get_done"
      BY <1>k, <1>1, <2>1, GetLoadEffect
    <3> QED BY <1>k, <1>r, <2>1, <3>1, SMTT(30) DEF Starts, ReadOnly, Pledged, ValueIsGone,
     locals, client, heap
  <2>2. CASE ~NeedsReload(op[t].f, item[t])
    <3>1. /\ pc[t] = "get_load"
          /\ ReadOnly
          /\ UNCHANGED <<pd, dr, op>>
          /\ pc'[t] = AfterReload(op[t].f)
          /\ UNCHANGED <<item, av, jn>>
      BY <1>k, <1>1, <2>2, GetLoadEffect
    <3> QED BY <1>k, <1>r, <2>2, <3>1, SMTT(30) DEF Starts, ReadOnly, AfterReload, Pledged,
     ValueIsGone, locals, client, heap
  <2> QED BY <2>1, <2>2
<1>2. CASE GetDone(t)
  <2>1. CASE jn[t].rerun
    <3>1. /\ pc[t] = "get_done"
          /\ ReadOnly
          /\ UNCHANGED <<pd, jn, dr, op>>
          /\ Starts(t, item[t], "strong", "jan_lock")
      BY <1>k, <1>2, <2>1, GetDoneEffect
    <3> QED BY <1>k, <1>r, <2>1, <3>1, SMTT(30) DEF Starts, ReadOnly, Pledged, ValueIsGone,
     locals, client, heap
  <2>2. CASE ~jn[t].rerun
    <3>1. /\ pc[t] = "get_done"
          /\ ReadOnly
          /\ UNCHANGED <<pd, jn, dr, op>>
          /\ pc'[t] = AfterReload(op[t].f)
          /\ UNCHANGED <<item, av>>
      BY <1>k, <1>2, <2>2, GetDoneEffect
    <3> QED BY <1>k, <1>r, <2>2, <3>1, SMTT(30) DEF Starts, ReadOnly, AfterReload, Pledged,
     ValueIsGone, locals, client, heap
  <2> QED BY <2>1, <2>2
<1>3. CASE TryGetMutWeak(t)
  BY <1>k, <1>r, <1>3, SMTT(30) DEF TryGetMutWeak, Goto, ReadOnly, Pledged, ValueIsGone, locals,
     client, heap
<1>4. CASE TryGetMutStrong(t)
  BY <1>k, <1>r, <1>4, SMTT(30) DEF TryGetMutStrong, Goto, ReadOnly, Pledged, ValueIsGone,
     locals, client, heap
<1>5. CASE TryGetMutAgain(t)
  BY <1>k, <1>r, <1>5, SMTT(30) DEF TryGetMutAgain, Goto, ReadOnly, Pledged, ValueIsGone,
     locals, client, heap
<1>6. CASE SharedGetLoad(t)
  <2>1. op' = op \/ op' = [op EXCEPT ![t].guard = "raw"]
    BY <1>6 DEF SharedGetLoad
  <2> QED BY <1>k, <1>r, <2>1 DEF Pledged, CallFrames
<1>7. CASE SharedGetInc(t)
  BY <1>k, <1>r, <1>7, SMTT(30) DEF SharedGetInc, Goto, OnlyAdv, Pledged, ValueIsGone, locals,
     client, heap
<1>8. CASE SharedGetNext(t)
  BY <1>k, <1>r, <1>8, SMTT(30) DEF SharedGetNext, Goto, ReadOnly, Pledged, ValueIsGone, locals,
     client, heap
<1>9. CASE SharedGetStrong(t)
  BY <1>k, <1>r, <1>9, SMTT(30) DEF SharedGetStrong, Goto, ReadOnly, Pledged, ValueIsGone,
     locals, client, heap
<1>10. CASE SharedGetCas(t)
  <2>1. CASE strong[op[t].nxt] = op[t].cs
    BY <1>k, <1>r, <1>10, <2>1, SMTT(30) DEF SharedGetCas, AddStrong, Goto, OnlyStrong, Pledged,
     ValueIsGone, locals, client, heap
  <2>2. CASE strong[op[t].nxt] # op[t].cs
    BY <1>k, <1>r, <1>10, <2>2, SMTT(30) DEF SharedGetCas, AddStrong, Goto, OnlyStrong, Pledged,
     ValueIsGone, locals, client, heap
  <2> QED BY <2>1, <2>2
<1>11. CASE SharedGetRecheck(t)
  <2>1. CASE HasNext(op[t].nxt)
    <3>1. /\ pc[t] = "sg_recheck"
          /\ ReadOnly
          /\ UNCHANGED <<pd, jn, op>>
          /\ Starts(t, op[t].nxt, "strong", "ds_dec")
          /\ dr'[t] = [IdleDrop EXCEPT !.ret = "sg_dec"]
      BY <1>k, <1>11, <2>1, SharedGetRecheckEffect
    <3> QED BY <1>k, <1>r, <2>1, <3>1, SMTT(30) DEF Starts, ReadOnly, IdleDrop, Pledged,
     ValueIsGone, locals, client, heap
  <2>2. CASE ~HasNext(op[t].nxt)
    <3>1. /\ pc[t] = "sg_recheck"
          /\ ReadOnly
          /\ UNCHANGED <<pd, jn, op>>
          /\ pc'[t] = "sg_light"
          /\ UNCHANGED <<item, av, dr>>
      BY <1>k, <1>11, <2>2, SharedGetRecheckEffect
    <3> QED BY <1>k, <1>r, <2>2, <3>1, SMTT(30) DEF Starts, ReadOnly, Pledged, ValueIsGone,
     locals, client, heap
  <2> QED BY <2>1, <2>2
<1>12. CASE SharedGetLight(t)
  BY <1>k, <1>r, <1>12, SMTT(30) DEF SharedGetLight, Goto, OnlyAdv, Pledged, ValueIsGone,
     locals, client, heap
<1>13. CASE SharedGetDec(t)
  BY <1>k, <1>r, <1>13, SMTT(30) DEF SharedGetDec, Goto, OnlyAdv, Pledged, ValueIsGone, locals,
     client, heap
<1>14. CASE SharedGetClone(t)
  <2>1. /\ pc[t] = "sg_clone"
        /\ AddStrong(Base(t))
        /\ OnlyStrong
        /\ UNCHANGED <<pd, jn, dr>>
        /\ Starts(t, Base(t), "strong", "reading")
        /\ op'[t] = [op[t] EXCEPT !.guard = "full"]
    BY <1>k, <1>14, SharedGetCloneEffect
  <2> QED BY <1>k, <1>r, <2>1, SMTT(30) DEF Starts, AddStrong, OnlyStrong, Pledged, ValueIsGone,
     locals, client, heap
<1>15. CASE FinishReading(t)
  <2>1. CASE op[t].guard \in {"light", "full"}
    <3>1. /\ pc[t] \in {"reading", "mutref"}
          /\ ReadOnly
          /\ UNCHANGED <<pd, jn, op>>
          /\ Starts(t, item[t], "strong", "ds_dec")
          /\ dr'[t] = [IdleDrop EXCEPT !.ret = "ret"]
      BY <1>k, <1>15, <2>1, FinishReadingEffect
    <3> QED BY <1>k, <1>r, <2>1, <3>1, SMTT(30) DEF Starts, ReadOnly, IdleDrop, Pledged,
     ValueIsGone, locals, client, heap
  <2>2. CASE op[t].guard \notin {"light", "full"}
    <3>1. /\ pc[t] \in {"reading", "mutref"}
          /\ ReadOnly
          /\ UNCHANGED <<pd, jn, op>>
          /\ pc'[t] = "ret"
          /\ UNCHANGED <<item, av, dr>>
      BY <1>k, <1>15, <2>2, FinishReadingEffect
    <3> QED BY <1>k, <1>r, <2>2, <3>1, SMTT(30) DEF Starts, ReadOnly, Pledged, ValueIsGone,
     locals, client, heap
  <2> QED BY <2>1, <2>2
<1> QED BY <1>1, <1>2, <1>3, <1>4, <1>5, <1>6, <1>7, <1>8, <1>9, <1>10, <1>11, <1>12, <1>13,
  <1>14, <1>15 DEF ApiStep

(* Where the steps of the functions of the API lead the call.               *)
LEMMA ApiProceeds ==
  ASSUME OrderInv, NEW t \in Threads, Shape(t), ApiStep(t), ~Return(t)
  PROVE  Proceeds(t)
<1>k. TypeOK
  BY NodesTyped
<1>r. /\ pc \in [Threads -> Labels] /\ item \in [Threads -> Nodes] /\ av \in [Threads -> AdvanceFrames]
      /\ pd \in [Threads -> PayloadFrames] /\ jn \in [Threads -> JanitorFrames]
      /\ dr \in [Threads -> DropFrames] /\ op \in [Threads -> CallFrames]
      /\ strong \in [Nodes -> 0..UsizeMax] /\ UsizeMax \in Nat /\ weak \in [Nodes -> WeakWords]
      /\ mem \in [Nodes -> {"unused", "private", "live", "freed"}] /\ prev \in [Nodes -> Ptrs]
      /\ stamp \in [Nodes -> Nat] /\ next \in [Nodes -> NextWords] /\ adv \in [Nodes -> Int]
      /\ handle \in [Handles -> HandleStates]
  BY <1>k, HeapAssumption DEF TypeOK
<1>s. Shape(t)
  OBVIOUS
<1>c. /\ pc[t] \in Advancing \/ (pc[t] \in Dropping /\ pd[t].ret = "advs_a_decw") => (av[t].ret = "ret" => op[t].f # "upgrade")
      /\ pc[t] \in Updating => op[t].f # "upgrade"
      /\ pc[t] \in {"get_load", "get_done", "tgm_weak", "tgm_strong", "tgm_again", "mutref", "reading"} \cup SharedGetting
           => op[t].f # "upgrade"
      /\ dr[t].ret = "ret" => op[t].f # "upgrade" \/ ~op[t].ok
      /\ pc[t] \in Upgrading => op[t].f = "upgrade" /\ op[t].ok
      /\ pc[t] \in SharedGetting => op[t].f = "sharedGet"
      /\ pc[t] \in Advancing => av[t].ret # "idle"
      /\ pc[t] \in Dropping => pd[t].ret # "idle"
      /\ pc[t] \in Janitoring => jn[t].ret \in {"dw_weak", "upd_done", "get_done"}
      /\ pc[t] \in Dying \cup {"ds_dec"} => dr[t].ret # "idle"
  BY <1>s DEF Shape, Continues, DropShape
<1>i. /\ pc[t] \notin Advancing \cup Dropping => av[t].ret = "idle"
      /\ pc[t] \in Dropping /\ pd[t].ret # "advs_a_decw" => av[t].ret = "idle"
      /\ pd[t].ret # "idle" => pc[t] \in Dropping
  <2>1. Knows(pc[t], item[t], av[t], pd[t], jn[t], op[t])
    BY OrderInv DEF OrderInv, Local
  <2> QED BY <2>1 DEF Knows, Frames
<1>1. CASE GetLoad(t)
  <2>1. CASE NeedsReload(op[t].f, item[t])
    <3>1. /\ pc[t] = "get_load"
          /\ ReadOnly
          /\ UNCHANGED <<pd, dr, op>>
          /\ Starts(t, item[t], "strong", "jan_lock")
          /\ jn'[t].ret = "get_done"
      BY <1>k, <1>1, <2>1, GetLoadEffect
    <3> QED BY <1>k, <1>r, <1>c, <1>i, <2>1, <3>1, SMTT(30) DEF Starts, ReadOnly, Proceeds,
     Linking, Linked, Janitoring, Before, Dying, Updating, Upgrading, locals, client, heap
  <2>2. CASE ~NeedsReload(op[t].f, item[t])
    <3>1. /\ pc[t] = "get_load"
          /\ ReadOnly
          /\ UNCHANGED <<pd, dr, op>>
          /\ pc'[t] = AfterReload(op[t].f)
          /\ UNCHANGED <<item, av, jn>>
      BY <1>k, <1>1, <2>2, GetLoadEffect
    <3> QED BY <1>k, <1>r, <1>c, <1>i, <2>2, <3>1, SMTT(30) DEF Starts, ReadOnly, AfterReload,
     Proceeds, Linking, Linked, Janitoring, Before, Dying, Updating, Upgrading, locals, client,
     heap
  <2> QED BY <2>1, <2>2
<1>2. CASE GetDone(t)
  <2>1. CASE jn[t].rerun
    <3>1. /\ pc[t] = "get_done"
          /\ ReadOnly
          /\ UNCHANGED <<pd, jn, dr, op>>
          /\ Starts(t, item[t], "strong", "jan_lock")
      BY <1>k, <1>2, <2>1, GetDoneEffect
    <3> QED BY <1>k, <1>r, <1>c, <1>i, <2>1, <3>1, SMTT(30) DEF Starts, ReadOnly, Proceeds,
     Linking, Linked, Janitoring, Before, Dying, Updating, Upgrading, locals, client, heap
  <2>2. CASE ~jn[t].rerun
    <3>1. /\ pc[t] = "get_done"
          /\ ReadOnly
          /\ UNCHANGED <<pd, jn, dr, op>>
          /\ pc'[t] = AfterReload(op[t].f)
          /\ UNCHANGED <<item, av>>
      BY <1>k, <1>2, <2>2, GetDoneEffect
    <3> QED BY <1>k, <1>r, <1>c, <1>i, <2>2, <3>1, SMTT(30) DEF Starts, ReadOnly, AfterReload,
     Proceeds, Linking, Linked, Janitoring, Before, Dying, Updating, Upgrading, locals, client,
     heap
  <2> QED BY <2>1, <2>2
<1>3. CASE TryGetMutWeak(t)
  BY <1>k, <1>r, <1>c, <1>i, <1>3, SMTT(30) DEF TryGetMutWeak, Goto, ReadOnly, Proceeds,
     Linking, Linked, Janitoring, Before, Dying, Updating, Upgrading, locals, client, heap
<1>4. CASE TryGetMutStrong(t)
  BY <1>k, <1>r, <1>c, <1>i, <1>4, SMTT(30) DEF TryGetMutStrong, Goto, ReadOnly, Proceeds,
     Linking, Linked, Janitoring, Before, Dying, Updating, Upgrading, locals, client, heap
<1>5. CASE TryGetMutAgain(t)
  BY <1>k, <1>r, <1>c, <1>i, <1>5, SMTT(30) DEF TryGetMutAgain, Goto, ReadOnly, Proceeds,
     Linking, Linked, Janitoring, Before, Dying, Updating, Upgrading, locals, client, heap
<1>6. CASE SharedGetLoad(t)
  <2>1. CASE HasNext(Base(t))
    BY <1>k, <1>r, <1>c, <1>i, <1>6, <2>1, SMTT(30) DEF SharedGetLoad, Goto, ReadOnly, Proceeds,
     Linking, Linked, Janitoring, Before, Dying, Updating, Upgrading, locals, client, heap
  <2>2. CASE ~HasNext(Base(t))
    BY <1>k, <1>r, <1>c, <1>i, <1>6, <2>2, SMTT(30) DEF SharedGetLoad, Goto, ReadOnly, Proceeds,
     Linking, Linked, Janitoring, Before, Dying, Updating, Upgrading, locals, client, heap
  <2> QED BY <2>1, <2>2
<1>7. CASE SharedGetInc(t)
  BY <1>k, <1>r, <1>c, <1>i, <1>7, SMTT(30) DEF SharedGetInc, Goto, OnlyAdv, Proceeds, Linking,
     Linked, Janitoring, Before, Dying, Updating, Upgrading, locals, client, heap
<1>8. CASE SharedGetNext(t)
  BY <1>k, <1>r, <1>c, <1>i, <1>8, SMTT(30) DEF SharedGetNext, Goto, ReadOnly, Proceeds,
     Linking, Linked, Janitoring, Before, Dying, Updating, Upgrading, locals, client, heap
<1>9. CASE SharedGetStrong(t)
  BY <1>k, <1>r, <1>c, <1>i, <1>9, SMTT(30) DEF SharedGetStrong, Goto, ReadOnly, Proceeds,
     Linking, Linked, Janitoring, Before, Dying, Updating, Upgrading, locals, client, heap
<1>10. CASE SharedGetCas(t)
  <2>1. CASE strong[op[t].nxt] = op[t].cs
    BY <1>k, <1>r, <1>c, <1>i, <1>10, <2>1, SMTT(30) DEF SharedGetCas, AddStrong, Goto,
     OnlyStrong, Proceeds, Linking, Linked, Janitoring, Before, Dying, Updating, Upgrading,
     locals, client, heap
  <2>2. CASE strong[op[t].nxt] # op[t].cs
    BY <1>k, <1>r, <1>c, <1>i, <1>10, <2>2, SMTT(30) DEF SharedGetCas, AddStrong, Goto,
     OnlyStrong, Proceeds, Linking, Linked, Janitoring, Before, Dying, Updating, Upgrading,
     locals, client, heap
  <2> QED BY <2>1, <2>2
<1>11. CASE SharedGetRecheck(t)
  <2>1. CASE HasNext(op[t].nxt)
    <3>1. /\ pc[t] = "sg_recheck"
          /\ ReadOnly
          /\ UNCHANGED <<pd, jn, op>>
          /\ Starts(t, op[t].nxt, "strong", "ds_dec")
          /\ dr'[t] = [IdleDrop EXCEPT !.ret = "sg_dec"]
      BY <1>k, <1>11, <2>1, SharedGetRecheckEffect
    <3> QED BY <1>k, <1>r, <1>c, <1>i, <2>1, <3>1, SMTT(30) DEF Starts, ReadOnly, IdleDrop,
     Proceeds, Linking, Linked, Janitoring, Before, Dying, Updating, Upgrading, locals, client,
     heap
  <2>2. CASE ~HasNext(op[t].nxt)
    <3>1. /\ pc[t] = "sg_recheck"
          /\ ReadOnly
          /\ UNCHANGED <<pd, jn, op>>
          /\ pc'[t] = "sg_light"
          /\ UNCHANGED <<item, av, dr>>
      BY <1>k, <1>11, <2>2, SharedGetRecheckEffect
    <3> QED BY <1>k, <1>r, <1>c, <1>i, <2>2, <3>1, SMTT(30) DEF Starts, ReadOnly, Proceeds,
     Linking, Linked, Janitoring, Before, Dying, Updating, Upgrading, locals, client, heap
  <2> QED BY <2>1, <2>2
<1>12. CASE SharedGetLight(t)
  BY <1>k, <1>r, <1>c, <1>i, <1>12, SMTT(30) DEF SharedGetLight, Goto, OnlyAdv, Proceeds,
     Linking, Linked, Janitoring, Before, Dying, Updating, Upgrading, locals, client, heap
<1>13. CASE SharedGetDec(t)
  BY <1>k, <1>r, <1>c, <1>i, <1>13, SMTT(30) DEF SharedGetDec, Goto, OnlyAdv, Proceeds, Linking,
     Linked, Janitoring, Before, Dying, Updating, Upgrading, locals, client, heap
<1>14. CASE SharedGetClone(t)
  <2>1. /\ pc[t] = "sg_clone"
        /\ AddStrong(Base(t))
        /\ OnlyStrong
        /\ UNCHANGED <<pd, jn, dr>>
        /\ Starts(t, Base(t), "strong", "reading")
        /\ op'[t] = [op[t] EXCEPT !.guard = "full"]
    BY <1>k, <1>14, SharedGetCloneEffect
  <2> QED BY <1>k, <1>r, <1>c, <1>i, <2>1, SMTT(30) DEF Starts, AddStrong, OnlyStrong, Proceeds,
     Linking, Linked, Janitoring, Before, Dying, Updating, Upgrading, locals, client, heap
<1>15. CASE FinishReading(t)
  <2>1. CASE op[t].guard \in {"light", "full"}
    <3>1. /\ pc[t] \in {"reading", "mutref"}
          /\ ReadOnly
          /\ UNCHANGED <<pd, jn, op>>
          /\ Starts(t, item[t], "strong", "ds_dec")
          /\ dr'[t] = [IdleDrop EXCEPT !.ret = "ret"]
      BY <1>k, <1>15, <2>1, FinishReadingEffect
    <3> QED BY <1>k, <1>r, <1>c, <1>i, <2>1, <3>1, SMTT(30) DEF Starts, ReadOnly, IdleDrop,
     Proceeds, Linking, Linked, Janitoring, Before, Dying, Updating, Upgrading, locals, client,
     heap
  <2>2. CASE op[t].guard \notin {"light", "full"}
    <3>1. /\ pc[t] \in {"reading", "mutref"}
          /\ ReadOnly
          /\ UNCHANGED <<pd, jn, op>>
          /\ pc'[t] = "ret"
          /\ UNCHANGED <<item, av, dr>>
      BY <1>k, <1>15, <2>2, FinishReadingEffect
    <3> QED BY <1>k, <1>r, <1>c, <1>i, <2>2, <3>1, SMTT(30) DEF Starts, ReadOnly, Proceeds,
     Linking, Linked, Janitoring, Before, Dying, Updating, Upgrading, locals, client, heap
  <2> QED BY <2>1, <2>2
<1> QED BY <1>1, <1>2, <1>3, <1>4, <1>5, <1>6, <1>7, <1>8, <1>9, <1>10, <1>11, <1>12, <1>13,
  <1>14, <1>15 DEF ApiStep

-----------------------------------------------------------------------------
(* The newest value.                                                        *)

(* Only the compare-and-swap of an update publishes.                        *)
LEMMA AgesStay ==
  ASSUME SafeInv, NEW t \in Threads, AnyStep(t), ~(UpdateCas(t) /\ CanLink(item[t], op[t].nw))
  PROVE  UNCHANGED <<stamp, count>>
<1>1. HeapStep(t)
  BY EveryKind
<1>2. CASE HeapKept
  BY <1>2 DEF HeapKept, AgesKept
<1>3. CASE \E n \in Nodes : WeakTaken(t, n) \/ WeakGiven(n) \/ StrongTaken(n) \/ StrongGiven(n)
                            \/ AdvanceSet(n) \/ WordSet(n)
  BY <1>3 DEF WeakTaken, WeakGiven, StrongTaken, StrongGiven, AdvanceSet, WordSet, AgesKept
<1>4. CASE PayloadMark(t) \/ PayloadDrop(t)
  BY <1>4 DEF PayloadMark, PayloadDrop, OnlyNext, client
<1>5. CASE JanitorFree(t) \/ JanitorClearPrev(t) \/ JanitorUnlink(t)
  BY <1>5 DEF JanitorFree, JanitorClearPrev, JanitorUnlink, OnlyWeak, OnlyPrev, client
<1>6. CASE ClaimTeardown(t) \/ DropWeakFree(t)
  BY <1>6 DEF ClaimTeardown, DropWeakFree, OnlyStrong, client
<1>7. CASE UpdateNext(t) \/ RcuCancel(t) \/ UpdateMark(t)
  BY <1>7 DEF UpdateNext, RcuCancel, UpdateMark, OnlyWeak, client
<1>8. CASE UpdateCas(t)
  BY <1>8 DEF UpdateCas
<1>9. CASE \E h \in Handles : Update(t, h)
  BY <1>9 DEF Update, Enter
<1> QED BY <1>1, <1>2, <1>3, <1>4, <1>5, <1>6, <1>7, <1>8, <1>9 DEF HeapStep, Special

(* The compare-and-swap, when it succeeds.                                  *)
LEMMA LinkFacts ==
  ASSUME SafeInv, NEW t \in Threads, UpdateCas(t), CanLink(item[t], op[t].nw)
  PROVE  /\ Links(t, item[t], op[t].val) /\ op[t].f \in {"update", "rcu"}
         /\ Kept(item[t]) /\ ~HasNext(item[t])
<1>1. OrderInv /\ Shape(t)
  BY SafeParts
<1>2. Links(t, item[t], op[t].val)
  BY <1>1, UpdateLinks
<1>3. item[t] \in Nodes /\ pc[t] = "upd_cas"
  BY <1>2 DEF Links
<1>4. Keeps(t, item[t])
  BY <1>3 DEF Keeps, StrongOnItem, At, Undoing
<1> QED BY <1>1, <1>2, <1>3, <1>4 DEF Kept, Links, HasNext, Shape, Updating

(* A stamp is the name of a node.                                           *)
LEMMA StampsApart ==
  ASSUME SafeInv, NEW m \in Nodes, NEW n \in Nodes, stamp[m] = stamp[n], Published(m) \/ Published(n)
  PROVE  m = n
BY SafeParts DEF OrderInv, ChainOrdered, Published

(* A number from 1 to the newest is the number of one node.                 *)
LEMMA StampsCount ==
  ASSUME SafeInv
  PROVE  count \in Nat /\ count > 0 /\ \A n \in Nodes : stamp[n] \in Nat /\ stamp[n] <= count
<1>1. OrderInv /\ stamp \in [Nodes -> Nat] /\ count \in Nat /\ IdleNode \in Nodes
  BY SafeParts, NodesTyped, IdleFramesTyped
<1>2. stamp[IdleNode] > 0 /\ \A n \in Nodes : stamp[n] <= count
  BY <1>1 DEF OrderInv, ChainOrdered, Published
<1> QED BY <1>1, <1>2

(* Where a strong reference is on the newest value, that is not gone.       *)
LEMMA KeptNotGone ==
  ASSUME SafeInv, NEW n \in Nodes, Kept(n), ~HasNext(n)
  PROVE  ~Gone
<1>1. Live(n) /\ ~next[n].dropped
  BY KeptIntact
<1>2. strong[n] # STRONG_DROPPED
  <2>1. \E x : x \in StrongHolders(n)
    BY SafeParts, NodesTyped, KeptIsHeld
  <2> QED BY <1>1, <2>1, StrongKnown
<1>3. stamp[n] = count
  BY <1>1, NewestIsLast
<1>4. ~GoneNode(n)
  BY <1>1, <1>2 DEF GoneNode, Live
<1>5. count > 0
  BY StampsCount
<1> QED
  <2>1. ASSUME NEW m \in Nodes, stamp[m] = count PROVE m = n
    BY <1>3, <1>5, <2>1, StampsApart DEF Published
  <2> QED BY <1>4, <2>1 DEF Gone

(* What is gone stays gone: nothing is linked after it.                     *)
LEMMA GoneStays ==
  ASSUME SafeInv, NEW t \in Threads, AnyStep(t), Gone
  PROVE  Gone'
<1>1. PICK n \in Nodes : stamp[n] = count /\ GoneNode(n)
  BY DEF Gone
<1>2. ~(UpdateCas(t) /\ CanLink(item[t], op[t].nw))
  BY LinkFacts, KeptNotGone DEF Links
<1>3. UNCHANGED <<stamp, count>>
  BY <1>2, AgesStay
<1>4. Moves(t, n)
  BY StepFacts
<1>5. strong[n] = STRONG_DROPPED => strong'[n] = STRONG_DROPPED
  BY SentinelKept
<1>6. next[n].dropped => next'[n].dropped
  BY <1>4 DEF Moves, DroppedMoves
<1>7. mem[n] = "freed" => mem'[n] = "freed"
  BY <1>4 DEF Moves, MemMoves, Live
<1> QED BY <1>1, <1>3, <1>5, <1>6, <1>7 DEF Gone, GoneNode

\* the claim of the newest value
Claimed(t) ==
  /\ ClaimTeardown(t) /\ strong[item[t]] = 0 /\ strong'[item[t]] = STRONG_DROPPED
  /\ item[t] \in Nodes /\ Live(item[t]) /\ stamp[item[t]] = count

(* A value is given up by a claim or with the last node.                    *)
LEMMA GoneFrom ==
  ASSUME SafeInv, NEW t \in Threads, AnyStep(t), ~DropWeakFree(t), Gone'
  PROVE  Gone \/ Claimed(t)
<1>1. PICK n \in Nodes : stamp'[n] = count' /\ GoneNode(n)'
  BY DEF Gone
<1>2. Moves(t, n) /\ TypeOK' /\ OrderInv
  BY StepFacts, SafeParts
<1>3. CASE UpdateCas(t) /\ CanLink(item[t], op[t].nw)
  <2>1. Links(t, item[t], op[t].val) /\ n \in Nodes
    BY <1>3, LinkFacts
  <2>2. stamp \in [Nodes -> Nat] /\ count \in Nat /\ stamp[n] <= count
    BY StampsCount, NodesTyped, SafeParts
  <2>3. n = op[t].val /\ mem[n] = "private" /\ mem'[n] = "live" /\ strong'[n] = strong[n]
    BY <1>1, <2>1, <2>2, SafeParts, NodesTyped DEF Links
  <2>4. strong[n] = 1 /\ next[n] = NullNext
    BY <2>3, SafeParts DEF PrivateFresh
  <2>5. UsizeMax \in Nat /\ 1 < UsizeMax
    <3>1. Cardinality(Handles) \in Nat /\ Cardinality(Threads) \in Nat
      BY HeapAssumption, FS_CardinalityType
    <3> QED BY <3>1, HeapAssumption
  <2>6. next'[n].dropped = next[n].dropped
    BY <1>2, <1>3 DEF Moves, DroppedMoves, UpdateCas, PayloadMark
  <2> QED BY <1>1, <2>3, <2>4, <2>5, <2>6 DEF GoneNode, STRONG_DROPPED, NullNext
<1>4. CASE ~(UpdateCas(t) /\ CanLink(item[t], op[t].nw))
  <2>1. UNCHANGED <<stamp, count>> /\ stamp[n] = count
    BY <1>1, <1>4, AgesStay
  <2>2. count > 0 /\ \A m \in Nodes : stamp[m] \in Nat /\ stamp[m] <= count
    BY StampsCount
  <2>3. ~HasNext(n)
    BY <2>1, <2>2, <1>2, SafeParts, NodesTyped DEF OrderInv, ChainOrdered, HasNext, NextWords, Ptrs
  <2>4. mem[n] \notin {"unused", "private"}
    BY <2>1, <2>2, <1>2 DEF OrderInv, ChainOrdered, Published
  <2>5. CASE strong'[n] = STRONG_DROPPED
    <3>1. strong[n] = STRONG_DROPPED \/ (ClaimTeardown(t) /\ n = item[t] /\ strong[n] = 0 /\ Live(n))
      BY <2>5, SentinelKept
    <3> QED BY <2>1, <2>5, <3>1 DEF Gone, GoneNode, Claimed
  <2>6. CASE next'[n].dropped
    <3>1. CASE next[n].dropped
      BY <2>1, <3>1 DEF Gone, GoneNode
    <3>2. CASE ~next[n].dropped
      <4>1. PayloadMark(t) /\ MayDropPayload(pd[t].tgt, pd[t].override) /\ n = pd[t].tgt
        BY <1>2, <2>6, <3>2 DEF Moves, DroppedMoves
      <4>2. pc[t] = "pay_mark" /\ pd[t].override
        BY <2>3, <4>1 DEF MayDropPayload, PayloadMark
      <4>3. pd[t].ret = "dw_cas"
        <5>1. pd[t].ret \in {"idle", "advs_a_decw", "dw_cas", "upd_decw"}
          BY SafeParts, RegistersTyped DEF PayloadFrames
        <5>2. Shape(t) /\ pc[t] \in Dropping
          BY <4>2, SafeParts
        <5>3. pd[t].ret # "idle"
          BY <5>2 DEF Shape
        <5>4. pd[t].ret # "advs_a_decw"
          BY <4>2, <5>2 DEF Shape
        <5>5. pd[t].ret # "upd_decw"
          BY <4>2, <5>2 DEF Shape
        <5> QED BY <5>1, <5>3, <5>4, <5>5
      <4>4. strong[n] = STRONG_DROPPED
        BY <4>1, <4>3, SafeParts DEF TeardownSafe
      <4> QED BY <2>1, <4>4 DEF Gone, GoneNode
    <3> QED BY <3>1, <3>2
  <2>7. CASE mem'[n] = "freed"
    <3>1. mem[n] = "freed" \/ (JanitorFree(t) /\ n = jn[t].del)
      BY <1>2, <2>4, <2>7 DEF Moves, MemMoves
    <3>2. CASE mem[n] = "freed"
      BY <2>1, <3>2 DEF Gone, GoneNode
    <3>3. CASE JanitorFree(t) /\ n = jn[t].del
      <4>1. pc[t] = "jan_free"
        BY <3>3 DEF JanitorFree, Janitor
      <4>2. jn[t].right \in Nodes /\ Before(n, jn[t].right)
        BY <3>3, <4>1, OnlyLink
      <4> QED BY <2>1, <2>2, <4>2 DEF Before
    <3> QED BY <3>1, <3>2, <3>3
  <2> QED BY <1>1, <2>5, <2>6, <2>7 DEF GoneNode
<1> QED BY <1>3, <1>4

-----------------------------------------------------------------------------
(* Values that are destroyed.                                               *)

(* A step that drops no published value leaves the destroyed ones alone.    *)
LEMMA DestroyedStays ==
  ASSUME SafeInv, NEW t \in Threads, AnyStep(t), ~PayloadDrop(t),
         JanitorFree(t) => next[jn[t].del].dropped, DropWeakFree(t) => next[item[t]].dropped
  PROVE  Destroyed' = Destroyed
<1>1. ASSUME NEW n \in Nodes
      PROVE  /\ (Published(n) /\ drops[n] > 0) <=> (stamp'[n] > 0 /\ drops'[n] > 0)
             /\ Published(n) => stamp'[n] = stamp[n]
  <2>1. Moves(t, n) /\ Grows /\ OrderInv /\ OrderInv'
    BY StepFacts, SafeParts
  <2>2. stamp[n] \in Nat /\ drops[n] \in Nat /\ stamp'[n] \in Nat /\ drops'[n] \in Nat
    BY <2>1, NodesTyped DEF OrderInv, TypeOK
  <2>3. Published(n) => stamp'[n] = stamp[n]
    BY <2>1 DEF Grows
  <2>4. CASE UpdateCas(t) /\ CanLink(item[t], op[t].nw) /\ n = op[t].val
    <3>1. mem[n] = "private" /\ ~Published(n) /\ drops'[n] = drops[n]
      BY <2>4, LinkFacts DEF Links
    <3>2. drops[n] = 0
      BY <3>1, SafeParts DEF PrivateFresh
    <3> QED BY <2>3, <3>1, <3>2
  <2>5. CASE ~(UpdateCas(t) /\ CanLink(item[t], op[t].nw) /\ n = op[t].val)
    <3>1. stamp'[n] = stamp[n]
      <4>1. CASE UpdateCas(t) /\ CanLink(item[t], op[t].nw)
        BY <2>5, <4>1, LinkFacts, SafeParts, NodesTyped DEF Links
      <4> QED BY <4>1, AgesStay
    <3>2. CASE drops'[n] = drops[n]
      BY <2>2, <2>3, <3>1, <3>2 DEF Published
    <3>3. CASE mem'[n] = "freed" /\ mem[n] = "private"
      <4>1. ~Published(n)
        BY <2>1, <3>3 DEF OrderInv, ChainOrdered
      <4> QED BY <2>3, <3>1, <4>1 DEF Published
    <3>4. CASE mem'[n] = "freed" /\ mem[n] = "live"
      <4>1. drops'[n] = drops[n]
        BY <2>1, <3>4 DEF Moves, MemMoves
      <4> QED BY <2>3, <3>1, <4>1 DEF Published
    <3> QED BY <2>1, <3>2, <3>3, <3>4 DEF Moves, DropsMoves
  <2> QED BY <2>4, <2>5
<1>2. ASSUME NEW v \in Destroyed' PROVE v \in Destroyed
  <2>1. PICK n \in Nodes : v = stamp'[n] /\ stamp'[n] > 0 /\ drops'[n] > 0
    BY <1>2 DEF Destroyed, Published
  <2> QED BY <1>1, <2>1 DEF Destroyed
<1>3. ASSUME NEW v \in Destroyed PROVE v \in Destroyed'
  <2>1. PICK n \in Nodes : v = stamp[n] /\ Published(n) /\ drops[n] > 0
    BY <1>3 DEF Destroyed
  <2>2. v = stamp'[n] /\ stamp'[n] > 0 /\ drops'[n] > 0
    BY <1>1, <2>1
  <2> QED BY <2>2 DEF Destroyed, Published
<1> QED BY <1>2, <1>3

(* A step that drops one published value adds it.                           *)
LEMMA DestroyedGrows ==
  ASSUME SafeInv, NEW t \in Threads, AnyStep(t), NEW n \in Nodes, Published(n), drops'[n] = drops[n] + 1,
         \A m \in Nodes \ {n} : drops'[m] = drops[m], UNCHANGED stamp
  PROVE  Destroyed' = Destroyed \cup {stamp[n]}
<1>1. drops[n] \in Nat
  BY SafeParts, NodesTyped
<1>2. ASSUME NEW v \in Destroyed' PROVE v \in Destroyed \cup {stamp[n]}
  <2>1. PICK m \in Nodes : v = stamp[m] /\ stamp[m] > 0 /\ drops'[m] > 0
    BY <1>2 DEF Destroyed, Published
  <2>2. CASE m = n
    BY <2>1, <2>2
  <2>3. CASE m # n
    BY <2>1, <2>3 DEF Destroyed, Published
  <2> QED BY <2>2, <2>3
<1>3. ASSUME NEW v \in Destroyed PROVE v \in Destroyed'
  <2>1. PICK m \in Nodes : v = stamp[m] /\ Published(m) /\ drops[m] > 0
    BY <1>3 DEF Destroyed
  <2>2. drops'[m] > 0
    BY <1>1, <2>1
  <2> QED BY <2>1, <2>2 DEF Destroyed, Published
<1>4. stamp[n] \in Destroyed'
  BY <1>1 DEF Destroyed, Published
<1> QED BY <1>2, <1>3, <1>4

(* What is still there is not among the destroyed.                          *)
LEMMA NotDestroyed ==
  ASSUME SafeInv, NEW n \in Nodes, Published(n), drops[n] = 0
  PROVE  stamp[n] \notin Destroyed
<1>1. ASSUME NEW m \in Nodes, Published(m), drops[m] > 0, stamp[m] = stamp[n] PROVE FALSE
  BY <1>1, StampsApart
<1> QED BY <1>1 DEF Destroyed

-----------------------------------------------------------------------------
(* What the handles show.                                                   *)

(* A value keeps its number.                                                *)
LEMMA ShownStays ==
  ASSUME SafeInv, NEW t \in Threads, AnyStep(t), NEW h \in Handles, handle'[h] = handle[h]
  PROVE  Shown(h)' = Shown(h)
<1>1. handle[h].node \in Nodes /\ Published(handle[h].node) /\ Grows
  BY SafeParts, StepFacts, HandleNode
<1>2. stamp'[handle[h].node] = stamp[handle[h].node]
  BY <1>1 DEF Grows
<1> QED BY <1>2 DEF Shown

(* What the handles show stays when no handle changes.                      *)
LEMMA ViewStays ==
  ASSUME SafeInv, NEW t \in Threads, AnyStep(t), UNCHANGED handle
  PROVE  View' = View
<1>1. \A h \in Handles : Shown(h)' = Shown(h)
  BY ShownStays
<1> QED BY <1>1 DEF View

\* what a handle that holds w shows
Showing(w) == [kind |-> w.kind, value |-> IF w.kind = "strong" THEN stamp'[w.node] ELSE 0]

(* What the handles show when one handle changes.                           *)
LEMMA ViewMoves ==
  ASSUME SafeInv, NEW t \in Threads, AnyStep(t), NEW o \in Handles, NEW w, handle' = [handle EXCEPT ![o] = w]
  PROVE  View' = [View EXCEPT ![o] = Showing(w)]
<1>1. handle \in [Handles -> HandleStates]
  BY SafeParts, NodesTyped
<1>2. ASSUME NEW h \in Handles, h # o PROVE Shown(h)' = Shown(h)
  BY <1>1, <1>2, ShownStays
<1>3. Shown(o)' = Showing(w)
  BY <1>1 DEF Shown, Showing
<1> QED BY <1>2, <1>3 DEF View

-----------------------------------------------------------------------------
(* How far the calls are.                                                   *)

(* A step that is not the start of a call continues one.                    *)
LEMMA StepsContinue ==
  ASSUME TypeOK, NEW t \in Threads, Step(t)
  PROVE  pc[t] # "idle"
<1>1. AdvanceStep(t) => pc[t] # "idle"
  BY DEF AdvanceStep, AdvanceLoad, AdvanceInc, AdvanceReload, AdvanceWeakInc, AdvanceDec, AdvanceWeakDec, WeakLeaveStart, PayloadMark,
     PayloadDrop, StrongLoad, StrongIncWeak, StrongCas, StrongRaceDecWeak, StrongRecheck, StrongUndo, StrongUndoDecWeak,
     StrongDecWeakB, StrongLeaveStart, StrongDecWeakA
<1>2. JanitorStep(t) => pc[t] # "idle"
  BY JanitorLabels DEF Janitoring
<1>3. DropStep(t) => pc[t] # "idle"
  BY DEF DropStep, DropStrongDec, DropWeakLoad, DropWeakNext, ClaimTeardown, DropWeakCas, DropWeakFree
<1>4. UpdateStep(t) => pc[t] # "idle"
  BY DEF UpdateStep, UpdateNext, RcuCancel, UpdateWeakInc, UpdateCas, UpdateFail, UpdateMark, UpdateDec, UpdateDecWeak, UpdateDone
<1>5. UpgradeStep(t) => pc[t] # "idle"
  BY DEF UpgradeStep, UpgradeLoadStrong, UpgradeLoadNext, UpgradeIncWeak, UpgradeCas, UpgradeRaceDecWeak, UpgradeCheck, UpgradeUndo,
     UpgradeUndoDecWeak, UpgradeDone
<1>6. ApiStep(t) => pc[t] # "idle"
  BY DEF ApiStep, GetLoad, GetDone, TryGetMutWeak, TryGetMutStrong, TryGetMutAgain, SharedGetLoad, SharedGetInc, SharedGetNext,
     SharedGetStrong, SharedGetCas, SharedGetRecheck, SharedGetLight, SharedGetDec, SharedGetClone, FinishReading, Return
<1> QED BY <1>1, <1>2, <1>3, <1>4, <1>5, <1>6 DEF Step

(* Every step of a call but the last.                                       *)
LEMMA StepTrail ==
  ASSUME SafeInv, NEW t \in Threads, Step(t), ~Return(t)
  PROVE  Pledged(t) /\ Proceeds(t)
<1>1. TypeOK /\ OrderInv /\ Shape(t) /\ Places(t)
  BY SafeParts, NodesTyped
<1> QED BY <1>1, AdvancePledged, JanitorPledged, DropPledged, UpdatePledged, UpgradePledged, ApiPledged,
           AdvanceProceeds, JanitorProceeds, DropProceeds, UpdateProceeds, UpgradeProceeds, ApiProceeds DEF Step

\* the number of the published node of a call
PublishedKept(u) ==
  /\ HasPublished(u)' <=> HasPublished(u)
  /\ HasPublished(u) => stamp'[op[u].val] = stamp[op[u].val]

(* A step of t decides nothing about another call.                          *)
LEMMA OthersPublished ==
  ASSUME SafeInv, NEW t \in Threads, AnyStep(t), NEW u \in Threads \ {t}, Answers(u)
  PROVE  PublishedKept(u) /\ Still(u)
<1>1. Still(u) /\ Grows /\ OrderInv /\ op[u].val \in Ptrs /\ stamp \in [Nodes -> Nat] /\ mem \in [Nodes -> {"unused", "private", "live", "freed"}]
  BY StepFacts, SafeParts, NodesTyped
<1>2. op'[u].val = op[u].val
  BY <1>1 DEF Still
<1>3. CASE op[u].val = Null
  BY <1>1, <1>2, <1>3 DEF PublishedKept, HasPublished
<1>4. CASE Published(op[u].val) /\ op[u].val # Null
  <2>1. op[u].val \in Nodes
    BY <1>1, <1>4 DEF Ptrs
  <2>2. stamp'[op[u].val] = stamp[op[u].val]
    BY <1>1, <1>4, <2>1 DEF Grows
  <2> QED BY <1>1, <1>2, <1>4, <2>2 DEF PublishedKept, HasPublished, Published
<1>5. CASE ~Published(op[u].val) /\ op[u].val # Null
  <2>1. op[u].val \in Nodes
    BY <1>1, <1>5 DEF Ptrs
  <2>2. stamp'[op[u].val] = stamp[op[u].val]
    <3>1. CASE UpdateCas(t) /\ CanLink(item[t], op[t].nw)
      <4>1. Links(t, item[t], op[t].val) /\ pc[t] = "upd_cas" /\ op[t].val # Null
        BY <3>1, LinkFacts, SafeParts, NodesTyped DEF Links
      <4>2. op[t].val # op[u].val
        <5>1. Linking(pc[t], av[t])
          BY <4>1 DEF Linking
        <5>2. CASE Linking(pc[u], av[u])
          BY <1>1, <4>1, <5>1, <5>2 DEF OrderInv, Apart
        <5>3. CASE mem[op[u].val] = "freed"
          BY <4>1, <5>3 DEF Links
        <5> QED BY <1>5, <5>2, <5>3 DEF Answers
      <4> QED BY <1>1, <2>1, <4>1, <4>2 DEF Links
    <3> QED BY <3>1, AgesStay
  <2> QED BY <1>1, <1>2, <1>5, <2>2 DEF PublishedKept, HasPublished, Published
<1> QED BY <1>1, <1>3, <1>4, <1>5

(* A step of t leaves the progress of every other call as it is.            *)
LEMMA OthersProgress ==
  ASSUME SafeInv, NEW t \in Threads, AnyStep(t), NEW u \in Threads \ {t}, Answers(u)
  PROVE  Progress(u)' = Progress(u)
<1>1. PublishedKept(u) /\ Still(u)
  BY OthersPublished
<1>2. HasUpgraded(u)' <=> HasUpgraded(u)
  BY <1>1 DEF Still, HasUpgraded
<1>3. Fate(u)' = Fate(u)
  BY <1>1, <1>2 DEF Fate, PublishedKept
<1> QED BY <1>1, <1>3 DEF Progress, PublishedKept, Still

(* A step of t decides about its call only where it publishes.              *)
LEMMA OwnPublished ==
  ASSUME SafeInv, NEW t \in Threads, Step(t), ~Return(t), ~(UpdateCas(t) /\ CanLink(item[t], op[t].nw))
  PROVE  PublishedKept(t) /\ (op'[t].val # op[t].val => ~HasPublished(t) /\ ~HasPublished(t)')
<1>1. AnyStep(t) /\ Pledged(t) /\ UNCHANGED stamp
  BY StepTrail, AgesStay DEF AnyStep
<1>2. CASE op'[t].val = op[t].val
  BY <1>1, <1>2 DEF PublishedKept, HasPublished, Published
<1>3. CASE op[t].val = Null /\ op'[t].val \in Nodes /\ mem[op'[t].val] = "unused"
  <2>1. ~Published(op'[t].val)
    BY <1>3, SafeParts DEF OrderInv, ChainOrdered
  <2> QED BY <1>1, <1>3, <2>1 DEF PublishedKept, HasPublished, Published
<1> QED BY <1>1, <1>2, <1>3 DEF Pledged

(* A step of t that neither publishes nor upgrades leaves its own progress  *)
(* as it is.                                                                *)
LEMMA OwnProgress ==
  ASSUME SafeInv, NEW t \in Threads, Step(t), ~Return(t), ~(UpdateCas(t) /\ CanLink(item[t], op[t].nw)),
         ~(UpgradeCheck(t) /\ ~HasNext(item[t]))
  PROVE  Progress(t)' = Progress(t)
<1>1. Pledged(t) /\ Proceeds(t) /\ PublishedKept(t) /\ AnyStep(t)
      /\ (op'[t].val # op[t].val => ~HasPublished(t) /\ ~HasPublished(t)')
  BY StepTrail, OwnPublished DEF AnyStep
<1>2. pc[t] # "ret"
  <2>1. pc[t] = "ret" => Return(t)
    BY <1>1, StepAt
  <2> QED BY <2>1
<1>3. HasUpgraded(t)' <=> HasUpgraded(t)
  BY <1>1, <1>2 DEF HasUpgraded, Pledged, Proceeds
<1>4. Fate(t)' = Fate(t)
  BY <1>1, <1>3 DEF Fate, PublishedKept
<1>5. CASE op'[t].val = op[t].val
  BY <1>1, <1>4, <1>5 DEF Progress, PublishedKept, Pledged
<1>6. CASE op'[t].val # op[t].val
  BY <1>1, <1>4, <1>6 DEF Progress, PublishedKept, Pledged
<1> QED BY <1>5, <1>6

(* The ledger stays when the progress of the acting call does.              *)
LEMMA LedgerStays ==
  ASSUME SafeInv, AnswersHold, NEW t \in Threads, AnyStep(t), Progress(t)' = Progress(t)
  PROVE  Ledger' = Ledger
<1>1. \A u \in Threads : Progress(u)' = Progress(u)
  BY OthersProgress DEF AnswersHold
<1> QED BY <1>1 DEF Ledger

(* The ledger when the progress of the acting call changes.                 *)
LEMMA LedgerMoves ==
  ASSUME SafeInv, AnswersHold, NEW t \in Threads, AnyStep(t), NEW x, Progress(t)' = x
  PROVE  Ledger' = [Ledger EXCEPT ![t] = x]
<1>1. \A u \in Threads \ {t} : Progress(u)' = Progress(u)
  BY OthersProgress DEF AnswersHold
<1> QED BY <1>1 DEF Ledger

-----------------------------------------------------------------------------
(* An ArcShift that exists, in a handle or in a call, keeps a node.          *)

(* A call that changes its handle, or reads through it, keeps a reference.  *)
LEMMA ChangersKeep ==
  ASSUME SafeInv, NEW t \in Threads, op[t].f \in {"get", "reload", "tryGetMut", "update", "rcu"}
  PROVE  \E n \in Nodes : Keeps(t, n)
<1>1. Shape(t) /\ TypeOK /\ OrderInv
  BY SafeParts, NodesTyped
<1>2. /\ pc[t] \in Labels /\ av[t] \in AdvanceFrames /\ pd[t] \in PayloadFrames /\ jn[t] \in JanitorFrames
      /\ dr[t] \in DropFrames /\ op[t] \in CallFrames /\ item[t] \in Nodes /\ av[t].start \in Nodes
  BY <1>1, RegistersTyped, NodesTyped
<1>3. av[t].mode \in {"strong", "weak"} /\ pd[t].ret \in {"idle", "advs_a_decw", "dw_cas", "upd_decw"} /\ dr[t].ret \in {"idle", "ret", "sg_dec"}
  BY <1>2 DEF AdvanceFrames, PayloadFrames, DropFrames
<1>4. dr[t].ret = "idle"
  BY <1>1, <1>3 DEF Shape, DropShape
<1>5. pc[t] \notin {"idle", "advw_dec", "ds_dec"} \cup Dying \cup Upgrading \cup SharedGetting
  BY <1>1, <1>4 DEF Shape, Continues
<1>6. ~Undoing(t) \/ pc[t] \in SwappedIn
  BY <1>5 DEF Undoing, Upgrading
<1>7. ASSUME StrongOnItem(t), ~Undoing(t) PROVE \E n \in Nodes : Keeps(t, n)
  BY <1>2, <1>7 DEF Keeps
<1>8. CASE pc[t] \in Walking \cup Swapping \cup SwappedIn
  <2>1. pc[t] \in Walking => av[t].mode = "strong"
    BY <1>1, <1>4 DEF Shape, Continues
  <2>2. StrongOnStart(t)
    BY <1>8, <2>1 DEF StrongOnStart
  <2> QED BY <1>2, <1>4, <2>2 DEF Keeps
<1>9. CASE pc[t] \in Dropping
  <2>1. pd[t].ret \in {"advs_a_decw", "upd_decw"}
    <3>1. pd[t].ret # "idle"
      BY <1>1, <1>9 DEF Shape
    <3>2. pd[t].ret # "dw_cas"
      BY <1>1, <1>4 DEF Shape
    <3> QED BY <1>3, <3>1, <3>2
  <2>2. CASE pd[t].ret = "advs_a_decw"
    BY <1>6, <1>7, <1>9, <2>2 DEF StrongOnItem, At
  <2>3. CASE pd[t].ret = "upd_decw"
    <3>1. op[t].val \in Nodes
      BY <1>1, <2>3, RegistersTyped DEF Knows, NewNode, Linked, CallFrames, Ptrs
    <3> QED BY <1>9, <2>3, <3>1 DEF Keeps, StrongOnNew, At
  <2> QED BY <2>1, <2>2, <2>3
<1>10. CASE pc[t] = "upd_decw"
  <2>1. op[t].val \in Nodes
    BY <1>1, <1>10, RegistersTyped DEF Knows, NewNode, Linked, CallFrames, Ptrs
  <2> QED BY <1>10, <2>1 DEF Keeps, StrongOnNew, At
<1>11. CASE pc[t] \in Janitoring
  <2>1. jn[t].ret \in {"upd_done", "get_done"}
    BY <1>1, <1>4, <1>11 DEF Shape, Continues
  <2> QED BY <1>6, <1>7, <1>11, <2>1 DEF StrongOnItem, At, Janitoring
<1>12. CASE pc[t] = "reading"
  <2>1. op[t].guard # "raw"
    BY <1>1, <1>12 DEF Shape
  <2> QED BY <1>6, <1>7, <1>12, <2>1 DEF StrongOnItem
<1>13. CASE pc[t] = "ret"
  <2>1. op[t].f = "rcu" \/ op[t].ok
    BY <1>1 DEF Shape
  <2> QED BY <1>6, <1>7, <1>13, <2>1 DEF StrongOnItem, HoldsValue
<1>14. CASE pc[t] = "advs_a_decw"
  BY <1>6, <1>7, <1>14 DEF StrongOnItem, At
<1>15. CASE pc[t] \in {"upd_next", "upd_weak", "upd_cas", "upd_fail", "upd_mark", "upd_dec", "upd_done", "get_load", "get_done",
                       "tgm_weak", "tgm_strong", "tgm_again", "mutref"}
  BY <1>6, <1>7, <1>15 DEF StrongOnItem, At
<1> QED BY <1>2, <1>5, <1>8, <1>9, <1>10, <1>11, <1>12, <1>13, <1>14, <1>15 DEF Labels, Janitoring, Dying, Upgrading

(* An upgrade that has succeeded keeps what it will return.                 *)
LEMMA UpgradedKeeps ==
  ASSUME SafeInv, NEW t \in Threads, HasUpgraded(t)
  PROVE  Keeps(t, item[t])
BY DEF HasUpgraded, Keeps, StrongOnItem, At, Undoing, HoldsValue

(* Where the register has an ArcShift, some call or handle keeps a node.    *)
LEMMA ShiftsKeep ==
  ASSUME SafeInv, Register!ShiftExists
  PROVE  \E n \in Nodes : Kept(n)
<1>1. ASSUME NEW h \in Handles, View[h].kind = "strong" PROVE \E n \in Nodes : Kept(n)
  <2>1. handle[h].kind = "strong" /\ handle[h].node \in Nodes
    BY <1>1, SafeParts, HandleNode DEF View, Shown
  <2> QED BY <2>1 DEF Kept
<1>2. ASSUME NEW t \in Threads, Register!HasShift(t) PROVE \E n \in Nodes : Kept(n)
  <2>1. CASE op[t].f \in {"get", "reload", "tryGetMut", "update", "rcu"}
    BY <2>1, ChangersKeep DEF Kept
  <2>2. CASE Fate(t) = "upgraded"
    <3>1. HasUpgraded(t) /\ item[t] \in Nodes
      BY <2>2, SafeParts, NodesTyped DEF Fate
    <3> QED BY <3>1, UpgradedKeeps DEF Kept
  <2> QED BY <1>2, <2>1, <2>2 DEF Register!HasShift, Register!Readers, Register!Writers, Ledger, Progress
<1> QED BY <1>1, <1>2 DEF Register!ShiftExists

-----------------------------------------------------------------------------
(* What the mapping rests on is kept.                                       *)

(* A published node of a call does not get older than what it is on.        *)
LEMMA NotOlderStays ==
  ASSUME SafeInv, NEW t \in Threads, AnyStep(t), NEW m \in Nodes, NEW n \in Nodes, Published(m), Published(n)
  PROVE  stamp'[m] < stamp'[n] <=> Before(m, n)
BY StepFacts DEF Grows, Before

(* A step of t takes nothing from what another call relies on.              *)
LEMMA OthersAnswer ==
  ASSUME SafeInv, NEW t \in Threads, AnyStep(t), NEW u \in Threads \ {t}, Answers(u)
  PROVE  Answers(u)'
<1>1. PublishedKept(u) /\ Still(u)
  BY OthersPublished
<1>2. pc'[u] = pc[u] /\ item'[u] = item[u] /\ av'[u] = av[u] /\ pd'[u] = pd[u] /\ op'[u] = op[u]
  BY <1>1 DEF Still
<1>t. item[u] \in Nodes /\ op[u].val \in Ptrs /\ Published(item[u])
  BY SafeParts, NodesTyped, RegistersTyped DEF Knows, OnChain
<1>3. IF pc'[u] = "idle" THEN op'[u] = IdleOp ELSE op'[u].f \in Storing \cup {"sharedGet"}
  BY <1>2 DEF Answers
<1>4. op'[u].val # Null => /\ op'[u].f \in {"update", "rcu"}
                           /\ Linking(pc'[u], av'[u]) \/ stamp'[op'[u].val] > 0 \/ (op'[u].f = "rcu" /\ mem'[op'[u].val] = "freed")
  <2>1. SUFFICES ASSUME op[u].val # Null
                 PROVE  /\ op[u].f \in {"update", "rcu"}
                        /\ Linking(pc[u], av[u]) \/ stamp'[op[u].val] > 0 \/ (op[u].f = "rcu" /\ mem'[op[u].val] = "freed")
    BY <1>2
  <2>2. op[u].val \in Nodes
    BY <1>t, <2>1 DEF Ptrs
  <2>3. Published(op[u].val) => stamp'[op[u].val] > 0
    BY <1>1, <2>1 DEF PublishedKept, HasPublished, Published
  <2>4. mem[op[u].val] = "freed" => mem'[op[u].val] = "freed"
    BY <2>2, StepFacts DEF Moves, MemMoves, Live
  <2> QED BY <2>1, <2>3, <2>4 DEF Answers
<1>5. op'[u].f = "update" => op'[u].val # Null
  BY <1>2 DEF Answers
<1>6. HasPublished(u)' => Linked(pc'[u], pd'[u]) \/ ~(stamp'[item'[u]] < stamp'[op'[u].val])
  <2>1. HAVE HasPublished(u)'
  <2>2. HasPublished(u) /\ op[u].val \in Nodes /\ Published(op[u].val)
    BY <1>1, <1>t, <2>1 DEF PublishedKept, HasPublished, Ptrs
  <2>3. stamp'[item[u]] < stamp'[op[u].val] <=> Before(item[u], op[u].val)
    BY <1>t, <2>2, NotOlderStays
  <2> QED BY <1>2, <2>2, <2>3 DEF Answers
<1>7. op'[u].f = "upgrade" /\ ~op'[u].ok => Gone'
  <2>1. HAVE op'[u].f = "upgrade" /\ ~op'[u].ok
  <2>2. Gone
    BY <1>2, <2>1 DEF Answers
  <2> QED BY <2>2, GoneStays
<1>8. pc'[u] = "upg_next" /\ op'[u].cs = STRONG_DROPPED => strong'[item'[u]] = STRONG_DROPPED
  <2>1. HAVE pc'[u] = "upg_next" /\ op'[u].cs = STRONG_DROPPED
  <2>2. strong[item[u]] = STRONG_DROPPED
    BY <1>2, <2>1 DEF Answers
  <2> QED BY <1>2, <1>t, <2>2, SentinelKept
<1> QED BY <1>3, <1>4, <1>5, <1>6, <1>7, <1>8 DEF Answers, Published, Before

(* The step at which a call publishes.                                      *)
LEMMA LinkAnswers ==
  ASSUME SafeInv, NEW t \in Threads, UpdateCas(t), CanLink(item[t], op[t].nw), Answers(t)
  PROVE  Answers(t)'
<1>1. Links(t, item[t], op[t].val) /\ op[t].f \in {"update", "rcu"}
  BY LinkFacts
<1>2. op'[t] = op[t] /\ pc'[t] = "upd_mark" /\ op[t].val \in Nodes /\ op[t].val # Null
  BY <1>1, SafeParts, NodesTyped DEF Links, locals
<1>3. stamp'[op[t].val] = count + 1 /\ count \in Nat
  BY <1>1, SafeParts, NodesTyped DEF Links
<1>4. Linked(pc'[t], pd'[t])
  BY <1>2 DEF Linked
<1>5. op[t].f \in Storing
  BY <1>1 DEF Storing, Functions
<1> QED BY <1>1, <1>2, <1>3, <1>4, <1>5 DEF Answers, Published

(* An upgrade that finds the value gone.                                    *)
LEMMA UpgradeFindsGone ==
  ASSUME SafeInv, NEW t \in Threads, Answers(t), UpgradeLoadNext(t), ~HasNext(item[t]), ValueIsGone(item[t], op[t].cs)
  PROVE  Gone
<1>1. pc[t] = "upg_next"
  BY DEF UpgradeLoadNext
<1>2. item[t] \in Nodes /\ WeakOnItem(t)
  BY <1>1, SafeParts, NodesTyped DEF WeakOnItem, At
<1>3. Live(item[t])
  BY <1>2, SafeParts DEF HeldLive
<1>4. stamp[item[t]] = count
  BY <1>2, <1>3, NewestIsLast
<1>5. strong[item[t]] = STRONG_DROPPED \/ next[item[t]].dropped
  BY <1>1 DEF ValueIsGone, Answers
<1> QED BY <1>2, <1>4, <1>5 DEF Gone, GoneNode

(* A step in the middle of a call.                                          *)
LEMMA OwnAnswers ==
  ASSUME SafeInv, NEW t \in Threads, Step(t), ~Return(t), ~(UpdateCas(t) /\ CanLink(item[t], op[t].nw)), Answers(t)
  PROVE  Answers(t)'
<1>1. Pledged(t) /\ Proceeds(t) /\ PublishedKept(t) /\ AnyStep(t) /\ pc[t] # "idle"
      /\ (op'[t].val # op[t].val => ~HasPublished(t) /\ ~HasPublished(t)')
  BY StepTrail, OwnPublished, StepsContinue, SafeParts, NodesTyped DEF AnyStep
<1>t. item[t] \in Nodes /\ op[t].val \in Ptrs /\ Published(item[t]) /\ Shape(t) /\ item'[t] \in Nodes
  BY <1>1, SafeParts, NodesTyped, RegistersTyped, StepFacts DEF Knows, OnChain, TypeOK
<1>2. op'[t].f = op[t].f /\ pc'[t] # "idle"
  BY <1>1 DEF Pledged, Proceeds
<1>3. IF pc'[t] = "idle" THEN op'[t] = IdleOp ELSE op'[t].f \in Storing \cup {"sharedGet"}
  BY <1>1, <1>2 DEF Answers
<1>4. op'[t].val # Null => /\ op'[t].f \in {"update", "rcu"}
                           /\ Linking(pc'[t], av'[t]) \/ stamp'[op'[t].val] > 0 \/ (op'[t].f = "rcu" /\ mem'[op'[t].val] = "freed")
  <2>1. CASE op'[t].val = op[t].val /\ op[t].val # Null
    <3>1. op[t].val \in Nodes
      BY <1>t, <2>1 DEF Ptrs
    <3>2. Published(op[t].val) => stamp'[op[t].val] > 0
      BY <1>1, <2>1 DEF PublishedKept, HasPublished, Published
    <3>3. mem[op[t].val] = "freed" => mem'[op[t].val] = "freed"
      BY <1>1, <3>1, StepFacts DEF Moves, MemMoves, Live
    <3>4. CASE RcuCancel(t)
      <4>1. op[t].f = "rcu" /\ mem' = [mem EXCEPT ![op[t].val] = "freed"]
        BY <2>1, <3>4 DEF RcuCancel
      <4> QED BY <1>2, <2>1, <3>1, <4>1, SafeParts, NodesTyped
    <3>5. CASE ~RcuCancel(t)
      <4>1. Linking(pc[t], av[t]) => Linking(pc'[t], av'[t])
        BY <1>1, <3>5 DEF Proceeds
      <4> QED BY <1>2, <2>1, <3>2, <3>3, <4>1 DEF Answers
    <3> QED BY <3>4, <3>5
  <2>2. CASE UpdateNext(t) /\ op[t].val = Null /\ op'[t].val \in Nodes
    <3>1. pc'[t] = "upd_weak"
      <4>1. op'[t].val # op[t].val
        BY <2>2, NodesTyped, SafeParts
      <4> QED BY <2>2, <4>1, UpdateNextEffect, SafeParts, NodesTyped DEF TypeOK
    <3>2. pc[t] \in Updating
      BY <2>2 DEF UpdateNext, Updating
    <3> QED BY <1>2, <1>t, <3>1, <3>2 DEF Linking, Shape
  <2> QED BY <1>1, <2>1, <2>2 DEF Pledged
<1>5. op'[t].f = "update" => op'[t].val # Null
  BY <1>1, SafeParts, NodesTyped DEF Answers, Pledged
<1>6. HasPublished(t)' => Linked(pc'[t], pd'[t]) \/ ~(stamp'[item'[t]] < stamp'[op'[t].val])
  <2>1. HAVE HasPublished(t)'
  <2>2. HasPublished(t) /\ op'[t].val = op[t].val /\ op[t].val \in Nodes /\ Published(op[t].val)
    BY <1>1, <1>t, <2>1 DEF PublishedKept, HasPublished, Ptrs
  <2>3. op[t].f \in {"update", "rcu"}
    BY <2>2 DEF Answers, HasPublished
  <2>4. stamp \in [Nodes -> Nat] /\ stamp' \in [Nodes -> Nat]
    BY <1>1, SafeParts, NodesTyped, StepFacts DEF TypeOK
  <2>5. CASE Linked(pc[t], pd[t]) \/ item'[t] = op[t].val
    BY <1>1, <2>2, <2>4, <2>5 DEF Proceeds
  <2>6. CASE ~Linked(pc[t], pd[t]) /\ item'[t] # op[t].val
    <3>1. ~Before(item[t], op[t].val)
      BY <2>2, <2>6 DEF Answers
    <3>2. item'[t] = item[t] \/ Before(item[t], item'[t])
      BY <1>1, <2>3, <2>6 DEF Proceeds
    <3>3. Published(item'[t]) /\ ~Before(item'[t], op[t].val)
      BY <1>t, <2>2, <2>4, <3>1, <3>2 DEF Before, Published
    <3>4. stamp'[item'[t]] < stamp'[op[t].val] <=> Before(item'[t], op[t].val)
      BY <1>1, <1>t, <2>2, <3>3, NotOlderStays
    <3> QED BY <2>2, <3>3, <3>4
  <2> QED BY <2>5, <2>6
<1>7. op'[t].f = "upgrade" /\ ~op'[t].ok => Gone'
  <2>1. HAVE op'[t].f = "upgrade" /\ ~op'[t].ok
  <2>2. CASE ~op[t].ok
    <3>1. Gone
      BY <1>2, <2>1, <2>2 DEF Answers
    <3> QED BY <1>1, <3>1, GoneStays
  <2>3. CASE RcuCancel(t)
    BY <1>2, <2>1, <2>3 DEF RcuCancel
  <2>4. CASE UpgradeLoadNext(t) /\ ~HasNext(item[t]) /\ ValueIsGone(item[t], op[t].cs)
    <3>1. Gone
      BY <2>4, UpgradeFindsGone
    <3> QED BY <1>1, <3>1, GoneStays
  <2> QED BY <1>1, <2>1, <2>2, <2>3, <2>4 DEF Pledged
<1>8. pc'[t] = "upg_next" /\ op'[t].cs = STRONG_DROPPED => strong'[item'[t]] = STRONG_DROPPED
  BY <1>1 DEF Proceeds
<1> QED BY <1>3, <1>4, <1>5, <1>6, <1>7, <1>8 DEF Answers, Published, Before

(* A call that returns, and one that begins.                                *)
LEMMA IdleAnswers ==
  ASSUME NEW t \in Threads, pc[t] = "idle", op[t] = IdleOp
  PROVE  Answers(t)
BY DEF Answers, HasPublished, IdleOp

(* A call that returns has nothing left to answer for.                      *)
LEMMA ReturnAnswers ==
  ASSUME SafeInv, NEW t \in Threads, Return(t)
  PROVE  Answers(t)'
<1>1. pc'[t] = "idle" /\ op'[t] = IdleOp
  BY SafeParts, NodesTyped DEF Return, Goto, TypeOK
<1> QED BY <1>1 DEF Answers, HasPublished, IdleOp

-----------------------------------------------------------------------------
(* The beginning of a call.                                                 *)

(* A call is asked to be no older than the newest value at its start.       *)
LEMMA EnterSince ==
  ASSUME TypeOK, NEW t \in Threads, NEW f, NEW h, NEW o, NEW v, Enter(t, f, h, o, v)
  PROVE  op'[t].since = count
BY DEF TypeOK, Enter, IdleOp

\* a weak reference is made at once
MakesWeak(t, o) ==
  /\ pc[t] = "idle" /\ UNCHANGED <<stamp, count, pc, locals>>
  /\ \E h \in Handles : /\ handle[h].kind \in {"strong", "weak"}
                        /\ handle' = [handle EXCEPT ![o] = [kind |-> "weak", node |-> handle[h].node]]
  /\ handle[o].kind = "none"

\* call f of t begins
Begun(t, f, h, o) ==
  /\ pc[t] = "idle" /\ pc'[t] \in {"adv_load", "get_load", "sg_load"} /\ UNCHANGED <<stamp, count>>
  /\ op'[t].f = f /\ op'[t].hnd = h /\ op'[t].out = o /\ op'[t].since = count /\ op'[t].ok
  /\ handle[h].kind = IF f \in {"upgrade", "dropWeak"} THEN "weak" ELSE "strong"
  /\ IF f = "update" THEN op'[t].val \in Nodes /\ ~Published(op'[t].val) /\ Linking(pc'[t], av'[t]) ELSE op'[t].val = Null
  /\ \/ f \in {"get", "reload", "tryGetMut", "update", "rcu", "drop", "intoInner", "dropWeak"}
        /\ o = h /\ handle' = [handle EXCEPT ![h] = Busy]
     \/ f \in {"clone", "upgrade"} /\ handle[o].kind = "none" /\ handle' = [handle EXCEPT ![o] = Busy]
     \/ f = "sharedGet" /\ o = h /\ UNCHANGED handle

(* Every call is one of these.                                              *)
LEMMA CallBegins ==
  ASSUME SafeInv, NEW t \in Threads, Call(t)
  PROVE  (\E o \in Handles : MakesWeak(t, o)) \/ \E f \in Functions, h, o \in Handles : Begun(t, f, h, o)
<1>1. TypeOK
  BY SafeParts, NodesTyped
<1>2. PICK h \in Handles, o \in Handles :
        \/ Clone(t, h, o) \/ CloneWeak(t, "downgrade", h, o) \/ CloneWeak(t, "cloneWeak", h, o)
        \/ Upgrade(t, h, o) \/ Update(t, h) \/ Rcu(t, h)
        \/ DropShift(t, "drop", h) \/ DropShift(t, "intoInner", h) \/ DropShiftWeak(t, h)
        \/ Reload(t, "get", h) \/ Reload(t, "reload", h) \/ Reload(t, "tryGetMut", h)
        \/ SharedGet(t, h)
  BY DEF Call
<1>3. CASE Clone(t, h, o)
  <2>1. op'[t].since = count
    BY <1>1, <1>3, EnterSince DEF Clone
  <2>2. Begun(t, "clone", h, o)
    BY <1>1, <1>3, <2>1, CloneEffect DEF Begun, Entered, Starts
  <2> QED BY <2>2 DEF Functions
<1>4. CASE CloneWeak(t, "downgrade", h, o) \/ CloneWeak(t, "cloneWeak", h, o)
  <2>1. MakesWeak(t, o)
    BY <1>1, <1>4, CloneWeakEffect DEF MakesWeak
  <2> QED BY <2>1
<1>5. CASE Upgrade(t, h, o)
  <2>1. op'[t].since = count
    BY <1>1, <1>5, EnterSince DEF Upgrade
  <2>2. Begun(t, "upgrade", h, o)
    BY <1>1, <1>5, <2>1, UpgradeEffect DEF Begun, Entered, Starts
  <2> QED BY <2>2 DEF Functions
<1>6. CASE Update(t, h)
  <2>1. op'[t].since = count
    BY <1>1, <1>6, EnterSince DEF Update
  <2>2. FreshNode \in Nodes /\ ~Published(FreshNode)
    BY <1>6, FreshIsUnused, SafeParts DEF Update
  <2>3. Begun(t, "update", h, h)
    BY <1>1, <1>6, <2>1, <2>2, UpdateEffect DEF Begun, Entered, Starts, Linking
  <2> QED BY <2>3 DEF Functions
<1>7. CASE Rcu(t, h)
  <2>1. op'[t].since = count
    BY <1>1, <1>7, EnterSince DEF Rcu
  <2>2. Begun(t, "rcu", h, h)
    BY <1>1, <1>7, <2>1, RcuEffect DEF Begun, Entered, Starts
  <2> QED BY <2>2 DEF Functions
<1>8. ASSUME NEW f \in {"drop", "intoInner"}, DropShift(t, f, h) PROVE Begun(t, f, h, h)
  <2>1. op'[t].since = count
    BY <1>1, <1>8, EnterSince DEF DropShift
  <2> QED BY <1>1, <1>8, <2>1, DropShiftEffect DEF Begun, Entered, Starts
<1>9. CASE DropShiftWeak(t, h)
  <2>1. op'[t].since = count
    BY <1>1, <1>9, EnterSince DEF DropShiftWeak
  <2>2. Begun(t, "dropWeak", h, h)
    BY <1>1, <1>9, <2>1, DropShiftWeakEffect DEF Begun, Entered, Starts
  <2> QED BY <2>2 DEF Functions
<1>10. ASSUME NEW f \in {"get", "reload", "tryGetMut"}, Reload(t, f, h) PROVE Begun(t, f, h, h)
  <2>1. op'[t].since = count
    BY <1>1, <1>10, EnterSince DEF Reload
  <2> QED BY <1>1, <1>10, <2>1, ReloadEffect DEF Begun, Entered
<1>11. CASE SharedGet(t, h)
  <2>1. op'[t].since = count
    BY <1>1, <1>11, EnterSince DEF SharedGet
  <2>2. Begun(t, "sharedGet", h, h)
    BY <1>1, <1>11, <2>1, SharedGetEffect DEF Begun, Entered
  <2> QED BY <2>2 DEF Functions
<1> QED BY <1>2, <1>3, <1>4, <1>5, <1>6, <1>7, <1>8, <1>9, <1>10, <1>11 DEF Functions

\* what the register knows of a call that has begun
Asked(f, h, o) == [f |-> f, hnd |-> h, out |-> o, since |-> count, fate |-> "open"]

(* A call that has begun has decided nothing.                               *)
LEMMA BegunOpen ==
  ASSUME SafeInv, NEW t \in Threads, NEW f \in Functions, NEW h \in Handles, NEW o \in Handles, Begun(t, f, h, o)
  PROVE  Progress(t)' = Asked(f, h, o) /\ Answers(t)'
<1>1. ~HasPublished(t)'
  BY DEF Begun, HasPublished, Published
<1>2. ~HasUpgraded(t)'
  BY DEF Begun, HasUpgraded
<1>3. Progress(t)' = Asked(f, h, o)
  BY <1>1, <1>2 DEF Begun, Progress, Fate, Asked
<1>4. op'[t].f \in Storing \cup {"sharedGet"}
  BY DEF Begun, Storing
<1>5. Answers(t)'
  BY <1>1, <1>4, SafeParts, NodesTyped DEF Begun, Answers
<1> QED BY <1>3, <1>5

(* Before that it asks for nothing.                                         *)
LEMMA NoneAsked ==
  ASSUME NEW t \in Threads, pc[t] = "idle", Answers(t)
  PROVE  Ledger[t] = Register!NoCall
<1>1. op[t] = IdleOp
  BY DEF Answers
<1>2. ~HasPublished(t) /\ ~HasUpgraded(t)
  BY <1>1 DEF HasPublished, HasUpgraded, IdleOp
<1>3. IdleOp.f = "none" /\ IdleOp.since = 0
  BY DEF IdleOp
<1>4. Register!NoCall = [f |-> "none", hnd |-> IdleOp.hnd, out |-> IdleOp.out, since |-> 0, fate |-> "open"]
  <2>1. IdleOp.hnd = (CHOOSE h \in Handles : TRUE) /\ IdleOp.out = (CHOOSE h \in Handles : TRUE)
    BY DEF IdleOp
  <2> QED BY <2>1 DEF Register!NoCall
<1> QED BY <1>1, <1>2, <1>3, <1>4 DEF Ledger, Progress, Fate

(* A call that begins has decided nothing.                                  *)
LEMMA CallAnswers ==
  ASSUME SafeInv, NEW t \in Threads, Call(t), Answers(t)
  PROVE  Answers(t)'
<1>1. CASE \E o \in Handles : MakesWeak(t, o)
  <2>1. pc'[t] = "idle" /\ op'[t] = IdleOp
    BY <1>1 DEF MakesWeak, Answers, locals
  <2> QED BY <2>1 DEF Answers, HasPublished, IdleOp
<1>2. CASE \E f \in Functions, h, o \in Handles : Begun(t, f, h, o)
  BY <1>2, BegunOpen
<1> QED BY <1>1, <1>2, CallBegins

(* The promises are kept by every step.                                     *)
LEMMA AnswersKept ==
  ASSUME SafeInv, AnswersHold, NEW t \in Threads, AnyStep(t)
  PROVE  AnswersHold'
<1>1. ASSUME NEW u \in Threads \ {t} PROVE Answers(u)'
  BY OthersAnswer DEF AnswersHold
<1>2. Answers(t)'
  <2>1. CASE Call(t)
    BY <2>1, CallAnswers DEF AnswersHold
  <2>2. CASE Return(t)
    BY <2>2, ReturnAnswers
  <2>3. CASE UpdateCas(t) /\ CanLink(item[t], op[t].nw)
    BY <2>3, LinkAnswers DEF AnswersHold
  <2>4. CASE Step(t) /\ ~Return(t) /\ ~(UpdateCas(t) /\ CanLink(item[t], op[t].nw))
    BY <2>4, OwnAnswers DEF AnswersHold
  <2> QED BY <2>1, <2>2, <2>3, <2>4 DEF AnyStep
<1> QED BY <1>1, <1>2 DEF AnswersHold

(* What the mapping rests on is kept by Next.                               *)
LEMMA NextAnswers ==
  ASSUME SafeInv, AnswersHold, [Next]_vars
  PROVE  AnswersHold'
<1>1. CASE \E t \in Threads : AnyStep(t)
  BY <1>1, AnswersKept
<1>2. CASE UNCHANGED vars
  <2>1. ASSUME NEW t \in Threads PROVE Answers(t)'
    <3>1. Answers(t)
      BY DEF AnswersHold
    <3>2. Gone => Gone'
      BY <1>2 DEF vars, heap, client, Gone, GoneNode
    <3> QED BY <1>2, <3>1, <3>2 DEF vars, heap, client, locals, Answers, HasPublished, Published, Before
  <2> QED BY <2>1 DEF AnswersHold
<1>3. (\E t \in Threads : AnyStep(t)) \/ UNCHANGED vars
  BY DEF Next, Rest, AnyStep
<1> QED BY <1>1, <1>2, <1>3

-----------------------------------------------------------------------------
(* Every step is a step of the register, or changes nothing that it shows.  *)

\* nothing that the register shows changes
Hidden == UNCHANGED <<count, Gone, Destroyed, View, Ledger>>

(* Whether the newest value is gone changes with a claim and with the last  *)
(* node only.                                                               *)
LEMMA GoneSame ==
  ASSUME SafeInv, NEW t \in Threads, AnyStep(t), ~DropWeakFree(t), ~Claimed(t)
  PROVE  Gone' = Gone
<1>1. Gone' => Gone
  BY GoneFrom
<1>2. Gone => Gone'
  BY GoneStays
<1>3. Gone' <=> Gone
  BY <1>1, <1>2
<1> QED BY <1>3 DEF Gone

(* The beginning of a call publishes, destroys and gives up nothing.        *)
LEMMA CallsElsewhere ==
  ASSUME SafeInv, NEW t \in Threads, AnyStep(t), pc[t] = "idle"
  PROVE  UNCHANGED <<stamp, count, Gone, Destroyed>>
<1>1. /\ ~DropWeakFree(t) /\ ~Claimed(t) /\ ~PayloadDrop(t) /\ ~JanitorFree(t)
      /\ ~(UpdateCas(t) /\ CanLink(item[t], op[t].nw))
  BY DEF DropWeakFree, Claimed, ClaimTeardown, PayloadDrop, JanitorFree, Janitor, UpdateCas
<1>2. UNCHANGED <<stamp, count>>
  BY <1>1, AgesStay
<1>3. Destroyed' = Destroyed
  BY <1>1, DestroyedStays
<1> QED BY <1>1, <1>2, <1>3, GoneSame

(* A call begins.                                                           *)
LEMMA CallSimulated ==
  ASSUME SafeInv, AnswersHold, NEW t \in Threads, Call(t)
  PROVE  Register!Next
<1>1. AnyStep(t) /\ handle \in [Handles -> HandleStates]
  BY SafeParts, NodesTyped DEF AnyStep
<1>2. CASE \E o \in Handles : MakesWeak(t, o)
  <2>1. PICK o \in Handles : MakesWeak(t, o)
    BY <1>2
  <2>2. PICK h \in Handles : /\ handle[h].kind \in {"strong", "weak"}
                             /\ handle' = [handle EXCEPT ![o] = [kind |-> "weak", node |-> handle[h].node]]
    BY <2>1 DEF MakesWeak
  <2>3. View' = [View EXCEPT ![o] = Register!WeakView]
    <3>1. View' = [View EXCEPT ![o] = Showing([kind |-> "weak", node |-> handle[h].node])]
      BY <1>1, <2>2, ViewMoves
    <3> QED BY <3>1 DEF Showing, Register!WeakView
  <2>4. View[o] = Register!NoView /\ View[h].kind \in {"strong", "weak"}
    BY <2>1, <2>2 DEF MakesWeak, View, Shown, Register!NoView
  <2>5. Progress(t)' = Progress(t)
    BY <2>1 DEF MakesWeak, locals, Progress, Fate, HasPublished, HasUpgraded, Published
  <2>6. Ledger' = Ledger
    BY <1>1, <2>5, LedgerStays
  <2>7. UNCHANGED <<count, Gone, Destroyed>>
    BY <1>1, <2>1, CallsElsewhere DEF MakesWeak
  <2>8. Register!MakeWeak(o)
    BY <2>3, <2>4, <2>6, <2>7 DEF Register!MakeWeak
  <2> QED BY <2>8 DEF Register!Next
<1>3. CASE \E f \in Functions, h, o \in Handles : Begun(t, f, h, o)
  <2>1. PICK f \in Functions, h \in Handles, o \in Handles : Begun(t, f, h, o)
    BY <1>3
  <2>2. Ledger[t] = Register!NoCall
    BY <2>1, NoneAsked DEF Begun, AnswersHold
  <2>3. Ledger' = [Ledger EXCEPT ![t] = Asked(f, h, o)]
    <3>1. Progress(t)' = Asked(f, h, o)
      BY <2>1, BegunOpen
    <3> QED BY <1>1, <3>1, LedgerMoves
  <2>4. UNCHANGED <<count, Gone, Destroyed>>
    BY <1>1, <2>1, CallsElsewhere DEF Begun
  <2>5. View[h].kind = IF f \in {"upgrade", "dropWeak"} THEN "weak" ELSE "strong"
    BY <2>1 DEF Begun, View, Shown
  <2>6. Register!Begin(t, f, h, o)
    BY <2>3, <2>4, <2>5 DEF Register!Begin, Asked
  <2>7. ASSUME NEW g \in Handles, handle' = [handle EXCEPT ![g] = Busy]
        PROVE  View' = [View EXCEPT ![g] = Register!BusyView]
    <3>1. View' = [View EXCEPT ![g] = Showing(Busy)]
      BY <1>1, <2>7, ViewMoves
    <3> QED BY <3>1 DEF Showing, Busy, Register!BusyView
  <2>8. CASE f \in {"get", "reload", "tryGetMut", "update", "rcu", "drop", "intoInner", "dropWeak"}
    <3>1. o = h /\ View' = [View EXCEPT ![h] = Register!BusyView]
      BY <2>1, <2>7, <2>8 DEF Begun
    <3>2. Register!BeginOwning(t)
      BY <2>2, <2>6, <2>8, <3>1 DEF Register!BeginOwning, Register!Readers, Register!Writers, Register!Droppers
    <3> QED BY <3>2 DEF Register!Next
  <2>9. CASE f \in {"clone", "upgrade"}
    <3>1. handle[o].kind = "none" /\ View' = [View EXCEPT ![o] = Register!BusyView]
      BY <2>1, <2>7, <2>9 DEF Begun
    <3>2. View[o] = Register!NoView
      BY <3>1 DEF View, Shown, Register!NoView
    <3>3. Register!BeginMaking(t)
      BY <2>2, <2>6, <2>9, <3>1, <3>2 DEF Register!BeginMaking, Register!Makers
    <3> QED BY <3>3 DEF Register!Next
  <2>10. CASE f = "sharedGet"
    <3>1. o = h /\ View' = View
      BY <1>1, <2>1, <2>10, ViewStays DEF Begun
    <3>2. Register!BeginSharedGet(t)
      BY <2>2, <2>6, <2>10, <3>1 DEF Register!BeginSharedGet
    <3> QED BY <3>2 DEF Register!Next
  <2> QED BY <2>1, <2>8, <2>9, <2>10 DEF Begun
<1> QED BY <1>2, <1>3, CallBegins

(* A call returns: what it leaves behind is new enough, and not destroyed.  *)
LEMMA ResultIsNew ==
  ASSUME SafeInv, AnswersHold, NEW t \in Threads, pc[t] = "ret", StrongOnItem(t)
  PROVE  /\ stamp[item[t]] \in Ledger[t].since..count /\ stamp[item[t]] \notin Destroyed
<1>1. item[t] \in Nodes /\ Knows(pc[t], item[t], av[t], pd[t], jn[t], op[t]) /\ Answers(t) /\ op[t] \in CallFrames
      /\ op[t].val \in Ptrs
  BY SafeParts, NodesTyped, RegistersTyped DEF AnswersHold
<1>2. Kept(item[t])
  BY <1>1 DEF Kept, Keeps, Undoing
<1>3. stamp[item[t]] \notin Destroyed
  BY <1>1, <1>2, KeptIntact, KeptLive, NotDestroyed
<1>4. stamp[item[t]] \in Nat /\ stamp[item[t]] <= count /\ count \in Nat
  BY <1>1, StampsCount
<1>5. CASE HasPublished(t)
  <2>1. op[t].val \in Nodes /\ stamp[op[t].val] \in Nat
    BY <1>1, <1>5, StampsCount DEF HasPublished, Ptrs
  <2>2. ~Linked(pc[t], pd[t])
    BY <1>1 DEF Linked, Knows, Frames
  <2>3. ~Before(item[t], op[t].val)
    BY <1>1, <1>5, <2>2 DEF Answers
  <2> QED BY <1>3, <1>4, <1>5, <2>1, <2>3 DEF Before, Ledger, Progress
<1>6. CASE ~HasPublished(t)
  <2>1. op[t].since \in Nat /\ stamp[item[t]] >= op[t].since
    BY <1>1 DEF Knows, UpToDate, CallFrames
  <2> QED BY <1>3, <1>4, <1>6, <2>1 DEF Ledger, Progress
<1> QED BY <1>5, <1>6

(* A return is the end of the call in the register.                         *)
LEMMA ReturnSimulated ==
  ASSUME SafeInv, AnswersHold, NEW t \in Threads, Return(t)
  PROVE  Register!Next
<1>1. AnyStep(t) /\ handle \in [Handles -> HandleStates] /\ TypeOK /\ pc[t] = "ret" /\ Shape(t)
      /\ Knows(pc[t], item[t], av[t], pd[t], jn[t], op[t]) /\ Answers(t) /\ op[t] \in CallFrames /\ item[t] \in Nodes
  BY SafeParts, NodesTyped, RegistersTyped DEF AnyStep, Step, ApiStep, Return, AnswersHold
<1>2. op[t].hnd \in Handles /\ op[t].out \in Handles /\ op[t].f \in Storing \cup {"sharedGet"}
  BY <1>1 DEF CallFrames, Answers
<1>3. UNCHANGED <<stamp, count, Destroyed>>
  <2>1. /\ ~PayloadDrop(t) /\ ~JanitorFree(t) /\ ~DropWeakFree(t) /\ ~(UpdateCas(t) /\ CanLink(item[t], op[t].nw))
    BY <1>1 DEF DropWeakFree, PayloadDrop, JanitorFree, Janitor, UpdateCas
  <2> QED BY <1>1, <2>1, AgesStay, DestroyedStays
<1>4. Gone' = Gone
  <2>1. ~DropWeakFree(t) /\ ~Claimed(t)
    BY <1>1 DEF DropWeakFree, Claimed, ClaimTeardown
  <2> QED BY <1>1, <2>1, GoneSame
<1>5. Ledger' = [Ledger EXCEPT ![t] = Register!NoCall]
  <2>1. pc'[t] = "idle" /\ op'[t] = IdleOp
    BY <1>1 DEF Return, Goto, TypeOK
  <2>2. Answers(t)'
    BY ReturnAnswers
  <2>3. Progress(t)' = Register!NoCall
    <3>1. ~HasPublished(t)' /\ ~HasUpgraded(t)'
      BY <2>1 DEF HasPublished, HasUpgraded, IdleOp
    <3>2. IdleOp.f = "none" /\ IdleOp.since = 0
      BY DEF IdleOp
    <3>3. Register!NoCall = [f |-> "none", hnd |-> IdleOp.hnd, out |-> IdleOp.out, since |-> 0, fate |-> "open"]
      <4>1. IdleOp.hnd = (CHOOSE h \in Handles : TRUE) /\ IdleOp.out = (CHOOSE h \in Handles : TRUE)
        BY DEF IdleOp
      <4> QED BY <4>1 DEF Register!NoCall
    <3> QED BY <2>1, <3>1, <3>2, <3>3 DEF Progress, Fate
  <2> QED BY <1>1, <2>3, LedgerMoves
<1>6. Ledger[t] # Register!NoCall
  BY <1>2 DEF Ledger, Progress, Register!NoCall, Storing, Functions
<1>7. ASSUME NEW g \in Handles, handle' = [handle EXCEPT ![g] = [kind |-> "strong", node |-> item[t]]], StrongOnItem(t)
      PROVE  \E r \in Register!Results(t) : View' = [View EXCEPT ![g] = r]
  <2>1. View' = [View EXCEPT ![g] = Showing([kind |-> "strong", node |-> item[t]])]
    BY <1>1, <1>7, ViewMoves
  <2>2. View' = [View EXCEPT ![g] = Register!StrongView(stamp[item[t]])]
    BY <1>3, <2>1 DEF Showing, Register!StrongView
  <2>3. stamp[item[t]] \in Ledger[t].since..count /\ stamp[item[t]] \notin Destroyed
    BY <1>1, <1>7, ResultIsNew
  <2> QED BY <2>2, <2>3 DEF Register!Results
<1>8. ASSUME NEW g \in Handles, handle' = [handle EXCEPT ![g] = NoHandle]
      PROVE  View' = [View EXCEPT ![g] = Register!NoView]
  <2>1. View' = [View EXCEPT ![g] = Showing(NoHandle)]
    BY <1>1, <1>8, ViewMoves
  <2> QED BY <2>1 DEF Showing, NoHandle, Register!NoView
<1>9. Ledger[t].f = op[t].f /\ Ledger[t].hnd = op[t].hnd /\ Ledger[t].out = op[t].out /\ Ledger[t].fate = Fate(t)
  BY DEF Ledger, Progress
<1>10. CASE op[t].f \in {"get", "reload", "tryGetMut", "update", "rcu"}
  <2>1. handle' = [handle EXCEPT ![op[t].hnd] = [kind |-> "strong", node |-> item[t]]]
    BY <1>10 DEF Return, Result
  <2>2. StrongOnItem(t)
    BY <1>1, <1>10 DEF StrongOnItem, HoldsValue, Shape
  <2>3. op[t].f = "update" => Fate(t) = "published"
    <3>1. ~Linking(pc[t], av[t])
      BY <1>1 DEF Linking, Knows, Frames, Advancing, Dropping
    <3>2. op[t].f = "update" => op[t].val # Null /\ Published(op[t].val)
      BY <1>1, <3>1 DEF Answers
    <3>3. op[t].f = "update" => HasPublished(t)
      BY <3>2 DEF HasPublished
    <3> QED BY <3>3 DEF Fate, HasUpgraded
  <2>4. \E r \in Register!Results(t) : View' = [View EXCEPT ![op[t].hnd] = r]
    BY <1>2, <1>7, <2>1, <2>2
  <2>5. Register!End(t)
    BY <1>3, <1>4, <1>5, <1>6, <1>9, <1>10, <2>3, <2>4 DEF Register!End, Register!Readers
  <2> QED BY <2>5 DEF Register!Next
<1>11. CASE op[t].f \in {"clone", "upgrade"} /\ (op[t].f = "clone" \/ op[t].ok)
  <2>1. op[t].f \in {"clone", "upgrade"} /\ pc[t] = "ret"
    BY <1>1, <1>11
  <2>2. IF op[t].ok THEN handle' = [handle EXCEPT ![op[t].out] = [kind |-> "strong", node |-> item[t]]] ELSE op[t].f = "upgrade"
    BY <1>1, <1>11 DEF Return, Result, Shape
  <2>3. StrongOnItem(t) /\ handle' = [handle EXCEPT ![op[t].out] = [kind |-> "strong", node |-> item[t]]]
    BY <1>1, <1>11, <2>2 DEF StrongOnItem, HoldsValue, Shape
  <2>4. op[t].f = "upgrade" => Fate(t) = "upgraded"
    BY <1>1, <1>11 DEF Answers, Fate, HasPublished, HasUpgraded
  <2>5. \E r \in Register!Results(t) : View' = [View EXCEPT ![op[t].out] = r]
    BY <1>2, <1>7, <2>3
  <2>6. Register!End(t)
    BY <1>3, <1>4, <1>5, <1>6, <1>9, <2>1, <2>4, <2>5 DEF Register!End
  <2> QED BY <2>6 DEF Register!Next
<1>12. CASE op[t].f = "upgrade" /\ ~op[t].ok
  <2>1. handle' = [handle EXCEPT ![op[t].out] = NoHandle]
    BY <1>12 DEF Return, Result
  <2>2. Fate(t) = "open" /\ Gone
    BY <1>1, <1>12 DEF Answers, Fate, HasPublished, HasUpgraded
  <2>3. View' = [View EXCEPT ![op[t].out] = Register!NoView]
    BY <1>2, <1>8, <2>1
  <2>4. Register!End(t)
    BY <1>3, <1>4, <1>5, <1>6, <1>9, <1>12, <2>2, <2>3 DEF Register!End
  <2> QED BY <2>4 DEF Register!Next
<1>13. CASE op[t].f \in {"drop", "dropWeak", "intoInner"}
  <2>1. handle' = [handle EXCEPT ![op[t].hnd] = NoHandle]
    BY <1>13 DEF Return, Result
  <2>2. View' = [View EXCEPT ![op[t].hnd] = Register!NoView]
    BY <1>2, <1>8, <2>1
  <2>3. Register!End(t)
    BY <1>3, <1>4, <1>5, <1>6, <1>9, <1>13, <2>2 DEF Register!End, Register!Droppers
  <2> QED BY <2>3 DEF Register!Next
<1>14. CASE op[t].f = "sharedGet"
  <2>1. UNCHANGED handle
    BY <1>14 DEF Return, Result
  <2>2. View' = View
    BY <1>1, <2>1, ViewStays
  <2>3. Register!End(t)
    BY <1>3, <1>4, <1>5, <1>6, <1>9, <1>14, <2>2 DEF Register!End
  <2> QED BY <2>3 DEF Register!Next
<1>15. op[t].f \in {"get", "reload", "tryGetMut", "update", "rcu", "clone", "upgrade", "drop", "dropWeak", "intoInner", "sharedGet"}
  BY <1>2 DEF Storing, Functions
<1> QED BY <1>10, <1>11, <1>12, <1>13, <1>14, <1>15

(* What a step does not show if it neither starts, links, upgrades nor      *)
(* returns.                                                                 *)
LEMMA MidStep ==
  ASSUME SafeInv, AnswersHold, NEW t \in Threads, Step(t), ~Return(t), ~(UpdateCas(t) /\ CanLink(item[t], op[t].nw)),
         ~(UpgradeCheck(t) /\ ~HasNext(item[t]))
  PROVE  AnyStep(t) /\ UNCHANGED <<stamp, count, View, Ledger>>
<1>1. AnyStep(t) /\ TypeOK
  BY SafeParts, NodesTyped DEF AnyStep
<1>2. UNCHANGED <<stamp, count>>
  BY <1>1, AgesStay
<1>3. View' = View
  BY <1>1, HandlesStay, ViewStays
<1>4. Ledger' = Ledger
  BY <1>1, OwnProgress, LedgerStays
<1> QED BY <1>1, <1>2, <1>3, <1>4

(* A value that is destroyed is not the newest, or that one is gone.        *)
LEMMA Destroys ==
  ASSUME SafeInv, NEW n \in Nodes, Live(n), drops[n] = 0, stamp[n] < count \/ Gone, ~Kept(n),
         UNCHANGED <<count, Gone, View, Ledger>>, Destroyed' = Destroyed \cup {stamp[n]}
  PROVE  Register!Next
<1>1. Published(n) /\ stamp[n] \in Nat /\ stamp[n] <= count /\ count \in Nat
  BY SafeParts, StampsCount DEF Listed
<1>2. stamp[n] \in 1..count /\ stamp[n] \notin Destroyed
  BY <1>1, NotDestroyed DEF Published
<1>3. ASSUME NEW h \in Handles, View[h] = Register!StrongView(stamp[n]) PROVE FALSE
  <2>1. handle[h].kind = "strong" /\ stamp[handle[h].node] = stamp[n]
    BY <1>3 DEF View, Shown, Register!StrongView
  <2>2. handle[h].node = n
    BY <1>1, <2>1, SafeParts, HandleNode, StampsApart
  <2> QED BY <2>1, <2>2 DEF Kept
<1>4. Register!Destroy(stamp[n])
  BY <1>2, <1>3 DEF Register!Destroy
<1> QED BY <1>2, <1>4 DEF Register!Next

(* drop_payload destroys what nobody can ask for.                           *)
LEMMA DropSimulated ==
  ASSUME SafeInv, AnswersHold, NEW t \in Threads, Step(t), PayloadDrop(t)
  PROVE  Register!Next
<1>1. pc[t] = "pay_drop"
  BY DEF PayloadDrop
<1>2. AnyStep(t) /\ UNCHANGED <<stamp, count, View, Ledger>>
  BY <1>1, MidStep DEF Return, UpdateCas, UpgradeCheck
<1>3. Gone' = Gone
  BY <1>1, <1>2, GoneSame DEF DropWeakFree, Claimed, ClaimTeardown
<1>4. pd[t].tgt \in Nodes /\ Live(pd[t].tgt)
  BY <1>1, DroppingHeld DEF Dropping
<1>5. DEFINE n == pd[t].tgt
<1>6. Beyond(n)
  BY <1>1, <1>4, SafeParts DEF PayloadsSafe, Released, Dropping
<1>7. drops[n] = 0
  BY <1>1, <1>4, SafeParts DEF PayloadsSafe
<1>8. Destroyed' = Destroyed \cup {stamp[n]}
  <2>1. drops' = [drops EXCEPT ![n] = @ + 1] /\ drops \in [Nodes -> Nat]
    BY SafeParts, NodesTyped DEF PayloadDrop, DropPayload
  <2>2. Published(n)
    BY <1>4, SafeParts DEF Listed
  <2>3. drops'[n] = drops[n] + 1 /\ \A m \in Nodes \ {n} : drops'[m] = drops[m]
    BY <1>4, <2>1
  <2> QED BY <1>2, <1>4, <2>2, <2>3, DestroyedGrows
<1>9. stamp[n] < count \/ Gone
  <2>1. CASE HasNext(n)
    <3>1. next[n].ptr \in Nodes /\ stamp[next[n].ptr] > stamp[n]
      BY <1>4, <2>1, SafeParts, NodesTyped DEF OrderInv, ChainOrdered, HasNext, NextWords, Ptrs
    <3> QED BY <1>4, <3>1, StampsCount
  <2>2. CASE ~HasNext(n)
    <3>1. stamp[n] = count
      BY <1>4, <2>2, NewestIsLast
    <3> QED BY <1>4, <1>6, <2>2, <3>1 DEF Beyond, Gone, GoneNode
  <2> QED BY <2>1, <2>2
<1>10. ~Kept(n)
  BY <1>6 DEF Beyond
<1> HIDE DEF n
<1> QED BY <1>2, <1>3, <1>4, <1>7, <1>8, <1>9, <1>10, Destroys DEF n

(* A janitor frees what is out of reach, with the value that is still in it. *)
LEMMA FreeSimulated ==
  ASSUME SafeInv, AnswersHold, NEW t \in Threads, Step(t), JanitorFree(t), ~next[jn[t].del].dropped
  PROVE  Register!Next
<1>1. pc[t] = "jan_free"
  BY DEF JanitorFree, Janitor
<1>2. AnyStep(t) /\ UNCHANGED <<stamp, count, View, Ledger>>
  BY <1>1, MidStep DEF Return, UpdateCas, UpgradeCheck
<1>3. Gone' = Gone
  BY <1>1, <1>2, GoneSame DEF DropWeakFree, Claimed, ClaimTeardown
<1>4. DEFINE n == jn[t].del
<1>5. /\ n \in Nodes /\ Live(n) /\ jn[t].right \in Nodes /\ Before(n, jn[t].right) /\ StrongHolders(n) = {}
  BY <1>1, OnlyLink
<1>6. drops[n] = 0
  BY <1>5, SafeParts DEF PayloadsSafe
<1>7. Destroyed' = Destroyed \cup {stamp[n]}
  <2>1. drops' = [drops EXCEPT ![n] = @ + 1] /\ drops \in [Nodes -> Nat]
    BY SafeParts, NodesTyped DEF JanitorFree, Deallocate, DropPayload
  <2>2. Published(n)
    BY <1>5, SafeParts DEF Listed
  <2>3. drops'[n] = drops[n] + 1 /\ \A m \in Nodes \ {n} : drops'[m] = drops[m]
    BY <1>5, <2>1
  <2> QED BY <1>2, <1>5, <2>2, <2>3, DestroyedGrows
<1>8. stamp[n] < count
  BY <1>5, StampsCount DEF Before
<1>9. ~Kept(n)
  BY <1>5, SafeParts, NodesTyped, KeptIsHeld
<1> HIDE DEF n
<1> QED BY <1>2, <1>3, <1>5, <1>6, <1>7, <1>8, <1>9, Destroys DEF n

(* The claim gives the newest value up.                                     *)
LEMMA ClaimSimulated ==
  ASSUME SafeInv, AnswersHold, NEW t \in Threads, Step(t), Claimed(t)
  PROVE  Register!Next \/ Hidden
<1>1. pc[t] = "dw_claim" /\ strong[item[t]] = 0 /\ item[t] \in Nodes /\ Live(item[t]) /\ stamp[item[t]] = count
      /\ strong'[item[t]] = STRONG_DROPPED
  BY DEF Claimed, ClaimTeardown
<1>2. AnyStep(t) /\ UNCHANGED <<stamp, count, View, Ledger>>
  BY <1>1, MidStep DEF Return, UpdateCas, UpgradeCheck
<1>3. Destroyed' = Destroyed
  BY <1>1, <1>2, DestroyedStays DEF PayloadDrop, JanitorFree, Janitor, DropWeakFree
<1>4. Gone' = TRUE
  BY <1>1, <1>2 DEF Gone, GoneNode
<1>5. CASE Gone
  <2>1. Gone' = Gone
    BY <1>4, <1>5 DEF Gone
  <2> QED BY <1>2, <1>3, <2>1 DEF Hidden
<1>6. CASE ~Gone
  <2>1. ~Register!ShiftExists
    <3>1. ASSUME NEW m \in Nodes, Kept(m) PROVE FALSE
      <4>1. ~Before(m, item[t])
        BY <1>1, <3>1, Concludes DEF Concluded, NoneBefore
      <4>2. m = item[t]
        BY <1>1, <3>1, <4>1, StampsCount, StampsApart, KeptLive DEF Before
      <4>3. \E x : x \in StrongHolders(m)
        BY <3>1, SafeParts, NodesTyped, KeptIsHeld
      <4> QED BY <1>1, <4>2, <4>3, StrongKnown
    <3> QED BY <3>1, ShiftsKeep
  <2>2. Register!GiveUp
    BY <1>2, <1>3, <1>4, <1>6, <2>1 DEF Register!GiveUp
  <2> QED BY <2>2 DEF Register!Next
<1> QED BY <1>5, <1>6

(* The last node goes.                                                      *)
LEMMA LastSimulated ==
  ASSUME SafeInv, AnswersHold, NEW t \in Threads, Step(t), DropWeakFree(t)
  PROVE  Register!Next \/ Hidden
<1>1. pc[t] = "dw_free"
  BY DEF DropWeakFree
<1>2. AnyStep(t) /\ UNCHANGED <<stamp, count, View, Ledger>>
  BY <1>1, MidStep DEF Return, UpdateCas, UpgradeCheck
<1>3. DEFINE n == item[t]
<1>4. n \in Nodes /\ Live(n) /\ StrongHolders(n) = {} /\ ~HasNext(n) /\ \A m \in Nodes : Live(m) => m = n
  BY <1>1, Alone, SafeParts DEF WordKnown
<1>5. stamp[n] = count /\ Published(n)
  BY <1>4, NewestIsLast, SafeParts DEF Listed
<1>6. ASSUME NEW m \in Nodes, Kept(m) PROVE FALSE
  <2>1. Live(m) /\ m = n
    BY <1>4, <1>6, KeptLive
  <2> QED BY <1>4, <1>6, <2>1, SafeParts, NodesTyped, KeptIsHeld
<1>7. mem \in [Nodes -> {"unused", "private", "live", "freed"}] /\ drops \in [Nodes -> Nat]
  BY SafeParts, NodesTyped
<1>8. Gone' = TRUE
  <2>1. mem'[n] = "freed" /\ stamp'[n] = count'
    BY <1>2, <1>4, <1>5, <1>7 DEF DropWeakFree
  <2> QED BY <1>4, <2>1 DEF Gone, GoneNode
<1>9. CASE next[n].dropped
  <2>1. Destroyed' = Destroyed
    BY <1>1, <1>2, <1>9, DestroyedStays DEF PayloadDrop, JanitorFree, Janitor
  <2>2. Gone
    BY <1>4, <1>5, <1>9 DEF Gone, GoneNode
  <2>3. Gone' = Gone
    BY <1>8, <2>2 DEF Gone
  <2> QED BY <1>2, <2>1, <2>3 DEF Hidden
<1>10. CASE ~next[n].dropped
  <2>1. drops[n] = 0
    BY <1>4, <1>10, SafeParts DEF PayloadsSafe
  <2>2. Destroyed' = Destroyed \cup {stamp[n]}
    <3>1. drops' = [drops EXCEPT ![n] = @ + 1]
      BY <1>10 DEF DropWeakFree
    <3>2. drops'[n] = drops[n] + 1 /\ \A m \in Nodes \ {n} : drops'[m] = drops[m]
      BY <1>4, <1>7, <3>1
    <3> QED BY <1>2, <1>4, <1>5, <3>2, DestroyedGrows
  <2>3. CASE Gone
    <3>1. Gone' = Gone
      BY <1>8, <2>3 DEF Gone
    <3> HIDE DEF n
    <3> QED BY <1>2, <1>4, <1>6, <2>1, <2>2, <2>3, <3>1, Destroys
  <2>4. CASE ~Gone
    <3>1. ~Register!ShiftExists
      BY <1>6, ShiftsKeep
    <3>2. Register!GiveUp
      BY <1>2, <1>5, <1>8, <2>2, <2>4, <3>1 DEF Register!GiveUp
    <3> QED BY <3>2 DEF Register!Next
  <2> QED BY <2>3, <2>4
<1> QED BY <1>9, <1>10

(* The compare-and-swap of an update publishes.                             *)
LEMMA LinkSimulated ==
  ASSUME SafeInv, AnswersHold, NEW t \in Threads, UpdateCas(t), CanLink(item[t], op[t].nw), AnyStep(t)
  PROVE  Register!Next
<1>1. Links(t, item[t], op[t].val) /\ op[t].f \in {"update", "rcu"} /\ Kept(item[t]) /\ ~HasNext(item[t])
  BY LinkFacts
<1>2. /\ op[t].val \in Nodes /\ ~Published(op[t].val) /\ item[t] \in Nodes
      /\ stamp' = [stamp EXCEPT ![op[t].val] = count + 1] /\ count' = count + 1
      /\ pc[t] = "upd_cas" /\ UNCHANGED <<handle, op>> /\ op[t].val # Null
  BY <1>1, SafeParts, NodesTyped DEF Links, locals
<1>3. ~Gone
  BY <1>1, <1>2, KeptNotGone
<1>4. Gone' = Gone
  BY <1>2, GoneSame DEF DropWeakFree, Claimed, ClaimTeardown
<1>5. Destroyed' = Destroyed
  BY <1>2, DestroyedStays DEF PayloadDrop, JanitorFree, Janitor, DropWeakFree
<1>6. View' = View
  BY <1>2, ViewStays
<1>7. ~HasPublished(t) /\ ~HasUpgraded(t) /\ ~HasUpgraded(t)'
  BY <1>1, <1>2 DEF HasPublished, HasUpgraded
<1>8. HasPublished(t)' /\ stamp'[op'[t].val] = count + 1
  BY <1>2, SafeParts, NodesTyped DEF HasPublished, Published
<1>9. Ledger[t] = [f |-> op[t].f, hnd |-> op[t].hnd, out |-> op[t].out, since |-> op[t].since, fate |-> "open"]
  BY <1>7 DEF Ledger, Progress, Fate
<1>10. Progress(t)' = [Ledger[t] EXCEPT !.fate = "published", !.since = count + 1]
  <2>1. Fate(t)' = "published"
    BY <1>7, <1>8 DEF Fate
  <2>2. Progress(t)' = [f |-> op[t].f, hnd |-> op[t].hnd, out |-> op[t].out, since |-> count + 1, fate |-> "published"]
    BY <1>2, <1>8, <2>1 DEF Progress
  <2> DEFINE q == [Ledger[t] EXCEPT !.fate = "published"]
  <2>3. q = [f |-> op[t].f, hnd |-> op[t].hnd, out |-> op[t].out, since |-> op[t].since, fate |-> "published"]
    BY <1>9
  <2>4. [Ledger[t] EXCEPT !.fate = "published", !.since = count + 1] = [q EXCEPT !.since = count + 1]
    OBVIOUS
  <2> HIDE DEF q
  <2>5. [q EXCEPT !.since = count + 1]
        = [f |-> op[t].f, hnd |-> op[t].hnd, out |-> op[t].out, since |-> count + 1, fate |-> "published"]
    BY <2>3
  <2> QED BY <2>2, <2>4, <2>5
<1>11. Ledger' = [Ledger EXCEPT ![t] = [Ledger[t] EXCEPT !.fate = "published", !.since = count + 1]]
  BY <1>10, LedgerMoves
<1>12. Ledger' = [Ledger EXCEPT ![t].fate = "published", ![t].since = count + 1]
  BY <1>9, <1>11 DEF Ledger
<1>13. Register!Publish(t)
  BY <1>1, <1>2, <1>3, <1>4, <1>5, <1>6, <1>9, <1>12 DEF Register!Publish, Register!Writers
<1> QED BY <1>13 DEF Register!Next

(* An upgrade that finds itself on the newest node has succeeded.           *)
LEMMA UpgradeSimulated ==
  ASSUME SafeInv, AnswersHold, NEW t \in Threads, UpgradeCheck(t), ~HasNext(item[t]), AnyStep(t)
  PROVE  Register!Next
<1>1. pc[t] = "upg_check" /\ UNCHANGED <<handle, op, stamp, count>> /\ pc'[t] = "upg_done" /\ item[t] \in Nodes
  BY SafeParts, NodesTyped DEF UpgradeCheck, Goto, ReadOnly, client, locals, TypeOK
<1>2. op[t].f = "upgrade" /\ op[t].val = Null
  BY <1>1, SafeParts DEF Shape, Upgrading, AnswersHold, Answers
<1>3. ~Gone
  <2>1. Kept(item[t])
    BY <1>1 DEF Kept, Keeps, StrongOnItem, At, Undoing
  <2> QED BY <1>1, <2>1, KeptNotGone
<1>4. Gone' = Gone
  BY <1>1, GoneSame DEF DropWeakFree, Claimed, ClaimTeardown
<1>5. Destroyed' = Destroyed
  BY <1>1, DestroyedStays DEF PayloadDrop, JanitorFree, Janitor, DropWeakFree
<1>6. View' = View
  BY <1>1, ViewStays
<1>7. ~HasPublished(t) /\ ~HasPublished(t)' /\ ~HasUpgraded(t) /\ HasUpgraded(t)'
  BY <1>1, <1>2 DEF HasPublished, HasUpgraded
<1>8. Ledger[t] = [f |-> "upgrade", hnd |-> op[t].hnd, out |-> op[t].out, since |-> op[t].since, fate |-> "open"]
  BY <1>2, <1>7 DEF Ledger, Progress, Fate
<1>9. Progress(t)' = [Ledger[t] EXCEPT !.fate = "upgraded"]
  BY <1>1, <1>2, <1>7, <1>8 DEF Progress, Fate
<1>10. Ledger' = [Ledger EXCEPT ![t] = [Ledger[t] EXCEPT !.fate = "upgraded"]]
  BY <1>9, LedgerMoves
<1>11. Ledger' = [Ledger EXCEPT ![t].fate = "upgraded"]
  BY <1>8, <1>10 DEF Ledger
<1>12. Register!Upgraded(t)
  BY <1>1, <1>3, <1>4, <1>5, <1>6, <1>8, <1>11 DEF Register!Upgraded
<1> QED BY <1>12 DEF Register!Next

(* Every step of every call.                                                *)
LEMMA StepSimulated ==
  ASSUME SafeInv, AnswersHold, NEW t \in Threads, AnyStep(t)
  PROVE  Register!Next \/ Hidden
<1>1. CASE Call(t)
  BY <1>1, CallSimulated
<1>2. CASE Return(t)
  BY <1>2, ReturnSimulated
<1>3. CASE UpdateCas(t) /\ CanLink(item[t], op[t].nw)
  BY <1>3, LinkSimulated
<1>4. CASE UpgradeCheck(t) /\ ~HasNext(item[t])
  BY <1>4, UpgradeSimulated
<1>5. CASE Step(t) /\ PayloadDrop(t)
  BY <1>5, DropSimulated
<1>6. CASE Step(t) /\ JanitorFree(t) /\ ~next[jn[t].del].dropped
  BY <1>6, FreeSimulated
<1>7. CASE Step(t) /\ Claimed(t)
  BY <1>7, ClaimSimulated
<1>8. CASE Step(t) /\ DropWeakFree(t)
  BY <1>8, LastSimulated
<1>9. CASE /\ Step(t) /\ ~Return(t) /\ ~(UpdateCas(t) /\ CanLink(item[t], op[t].nw))
           /\ ~(UpgradeCheck(t) /\ ~HasNext(item[t])) /\ ~PayloadDrop(t)
           /\ ~(JanitorFree(t) /\ ~next[jn[t].del].dropped) /\ ~Claimed(t) /\ ~DropWeakFree(t)
  <2>1. UNCHANGED <<count, View, Ledger>>
    BY <1>9, MidStep
  <2>2. Destroyed' = Destroyed
    BY <1>9, DestroyedStays
  <2>3. Gone' = Gone
    BY <1>9, GoneSame
  <2> QED BY <2>1, <2>2, <2>3 DEF Hidden
<1> QED BY <1>1, <1>2, <1>3, <1>4, <1>5, <1>6, <1>7, <1>8, <1>9 DEF AnyStep

(* The program starts where the register may start.                         *)
LEMMA InitSimulated ==
  ASSUME Init
  PROVE  Register!Init /\ AnswersHold
<1>1. SafeInv
  BY InitSafe
<1>2. /\ InitLen \in Nodes /\ count = InitLen /\ handle = InitHandle
      /\ \A n \in Nodes : stamp[n] = (IF n <= InitLen THEN n ELSE 0) /\ drops[n] = 0 /\ next[n].ptr = (IF n < InitLen THEN n + 1 ELSE 0)
      /\ \A t \in Threads : pc[t] = "idle" /\ op[t] = IdleOp
  <2>1. \A n \in Nodes : stamp[n] = (IF n <= InitLen THEN n ELSE 0) /\ drops[n] = 0 /\ next[n].ptr = (IF n < InitLen THEN n + 1 ELSE 0)
    BY InitChain
  <2>2. InitLen \in Nodes
    BY ProgramAssumption
  <2>3. count = InitLen /\ handle = InitHandle /\ \A t \in Threads : pc[t] = "idle" /\ op[t] = IdleOp
    BY DEF Init
  <2> QED BY <2>1, <2>2, <2>3
<1>3. AnswersHold
  BY <1>2, IdleAnswers DEF AnswersHold
<1>4. count \in Nat \ {0}
  BY <1>1, StampsCount
<1>5. Gone = FALSE
  <2>1. ~HasNext(InitLen)
    BY <1>2, <1>4 DEF HasNext, Null
  <2>2. PICK h \in Handles : InitHandle[h] = [kind |-> "strong", node |-> InitLen]
    <3>1. InitLen \in 1..InitLen
      BY <1>2, <1>4
    <3> QED BY <3>1, ProgramAssumption
  <2>3. Kept(InitLen)
    BY <1>2, <2>2 DEF Kept
  <2> QED BY <1>1, <1>2, <2>1, <2>3, KeptNotGone DEF Gone
<1>6. Destroyed = {}
  BY <1>2 DEF Destroyed
<1>7. View \in [Handles -> {Register!NoView, Register!WeakView} \cup {Register!StrongView(v) : v \in 1..count}]
  <2>1. ASSUME NEW h \in Handles PROVE Shown(h) \in {Register!NoView, Register!WeakView} \cup {Register!StrongView(v) : v \in 1..count}
    <3>1. handle[h].kind \in {"none", "strong", "weak"} /\ handle[h].node \in Nodes
      BY <1>2, ProgramAssumption DEF HandleStates
    <3>2. stamp[handle[h].node] \in 1..count
      BY <1>1, <3>1, StampsCount, SafeParts, HandleNode DEF Published
    <3> QED BY <3>1, <3>2 DEF Shown, Register!NoView, Register!WeakView, Register!StrongView
  <2> QED BY <2>1 DEF View
<1>8. Ledger = [t \in Threads |-> Register!NoCall]
  <2>1. \A t \in Threads : Ledger[t] = Register!NoCall
    BY <1>2, <1>3, NoneAsked DEF AnswersHold
  <2> QED BY <2>1 DEF Ledger
<1> QED BY <1>3, <1>4, <1>5, <1>6, <1>7, <1>8 DEF Register!Init

-----------------------------------------------------------------------------

(* ArcShift promises no more than the register and keeps all of it: every  *)
(* update, upgrade, get and drop of any number of threads takes effect in  *)
(* one step between its start and its return, updates line up, results are *)
(* no older than the newest value at the start, and values are destroyed   *)
(* once, when nobody has or can get them.                                  *)
THEOREM ChainImplementsRegister == Spec => ImplementsRegister
<1>1. Init => Register!Init /\ AnswersHold
  BY InitSimulated
<1>2. SafeInv /\ AnswersHold /\ [Next]_vars => AnswersHold'
  BY NextAnswers
<1>3. ASSUME SafeInv, AnswersHold, [Next]_vars PROVE [Register!Next]_(Register!registerVars)
  <2>1. CASE \E t \in Threads : AnyStep(t)
    BY <1>3, <2>1, StepSimulated DEF Hidden, Register!registerVars
  <2>2. CASE UNCHANGED vars
    <3>1. Gone' = Gone /\ Destroyed' = Destroyed
      BY <2>2 DEF vars, heap, client, Gone, GoneNode, Destroyed, Published
    <3>2. View' = View
      BY <2>2 DEF vars, client, View, Shown
    <3>3. Ledger' = Ledger
      BY <2>2 DEF vars, client, locals, Ledger, Progress, Fate, HasPublished, HasUpgraded, Published
    <3> QED BY <2>2, <3>1, <3>2, <3>3 DEF vars, client, Register!registerVars
  <2>3. (\E t \in Threads : AnyStep(t)) \/ UNCHANGED vars
    BY <1>3 DEF Next, Rest, AnyStep
  <2> QED BY <2>1, <2>2, <2>3
<1> QED BY <1>1, <1>2, <1>3, ChainStaysSafe, PTL DEF Spec, ImplementsRegister, Register!Spec
===============================================================================
