-------------------------- MODULE ArcShiftRestProofs --------------------------
(***************************************************************************)
(* What the calls leave behind: at rest nothing is locked or announced;    *)
(* who was told to be the sole user has freed the last node; a mutable     *)
(* reference is the only reference, where no ArcShiftWeak is upgraded; and *)
(* a destructor that panics leaves the chain in order, and no reference    *)
(* without an owner. When the last handle is gone, so are all nodes.       *)
(***************************************************************************)
EXTENDS ArcShiftPanicInv, ArcShiftRest, ArcShiftSafeProofs, WellFoundedInduction

USE DEF Advancing, Dropping, Walking, Swapping, SwappedIn, SharedGetting

------------------------------------------------------------------------------

(* Locks: a janitor does not lose a lock that it has, and has the locks    *)
(* that it takes.                                                          *)
KeepsOwned(t) ==
  \A n \in Nodes : Live(n)' =>
    /\ Live(n)
    /\ next'[n].locked =>
         /\ next[n].locked /\ HasLocked(t, n) => HasLocked(t, n)'
         /\ ~next[n].locked => HasLocked(t, n)'

(* What a janitor has locked it keeps until it unlocks it.                 *)
LEMMA JanitorOwned ==
  ASSUME ListInv, TypeOK', NEW t \in Threads, JanitorStep(t)
  PROVE  KeepsOwned(t)
<1>k. /\ TypeOK /\ jn[t] \in JanitorFrames /\ item[t] \in Nodes /\ next \in [Nodes -> NextWords]
      /\ prev \in [Nodes -> Ptrs] /\ stamp \in [Nodes -> Nat]
      /\ \A n \in Nodes : n # Null
      /\ \A m, n \in Nodes : Live(m) /\ Live(n) => Before(m, n) \/ Before(n, m) \/ m = n
      /\ jn[t].cur \in Ptrs /\ jn[t].cand \in Ptrs /\ jn[t].prv \in Ptrs /\ jn[t].fail \in Ptrs
      /\ jn[t].rdel \in Ptrs /\ jn[t].right \in Ptrs /\ jn[t].carry \in Ptrs /\ jn[t].del \in Ptrs
      /\ JanitorKnows(t) /\ LocksHeld /\ Listed /\ Shape(t) /\ (pc[t] \in Janitoring => Live(item[t]))
      /\ pc[t] \in Janitoring => jn[t].ret \in {"dw_weak", "upd_done", "get_done"}
      /\ JanitorOrdered(pc[t], item[t], jn[t])
  BY JanitorFacts
<1>p. \A n \in Nodes : Live(n) /\ HasLocked(t, n) /\ ~(Gap(t) /\ jn[t].right = n) => Adjacent(n, prev[n])
  BY PrevAdjacent
<1>q. \A n \in Nodes : Live(n) /\ ~next[n].locked => Adjacent(n, prev[n])
  BY UnlockedAdjacent
<1>t. \A n \in Nodes : next[n].locked \in BOOLEAN /\ next'[n].locked \in BOOLEAN
  BY DEF ListInv, OrderInv, TypeOK, NextWords
<1>n. ASSUME KeepsLocks,
             \A n \in Nodes : Live(n)' => Live(n),
             \A n \in Nodes : Live(n)' /\ HasLocked(t, n) => HasLocked(t, n)'
      PROVE  KeepsOwned(t)
  BY <1>n DEF KeepsOwned, KeepsLocks
<1>u. ASSUME NEW m \in Nodes, Unlocks(m),
             \A n \in Nodes : Live(n)' => Live(n),
             \A n \in Nodes : Live(n)' /\ HasLocked(t, n) /\ n # m => HasLocked(t, n)'
      PROVE  KeepsOwned(t)
  BY <1>u, <1>t DEF KeepsOwned, Unlocks
<1>a. ASSUME NEW m \in Nodes, Locks(m), 
             \A n \in Nodes : Live(n)' => Live(n),
             \A n \in Nodes : Live(n)' /\ (HasLocked(t, n) \/ n = m) => HasLocked(t, n)'
      PROVE  KeepsOwned(t)
  BY <1>a, <1>t DEF KeepsOwned, Locks
<1> USE DEF Janitoring, Redirecting, Freeing, Live, Before
<1>1. CASE JanitorLockStart(t)
  <2>0. pc[t] = "jan_lock"
    BY <1>1 DEF JanitorLockStart, Janitor
  <2>1. CASE next[item[t]].locked
    <3>1. KeepsLocks /\ mem' = mem
      BY <1>1, <2>1, <1>k, JanitorLockStartMoves DEF KeepsNext
    <3> QED BY <2>0, <3>1, <1>n DEF HasLocked
  <2>2. CASE ~next[item[t]].locked
    <3>1. /\ pc'[t] \in {"jan_unlock", "jan_sweep"} /\ Locks(item[t]) /\ UNCHANGED <<mem, prev, stamp, item>>
      BY <1>1, <2>2, <1>k, JanitorLockStartMoves
    <3>2. \A n \in Nodes : Live(n)' /\ (HasLocked(t, n) \/ n = item[t]) => HasLocked(t, n)'
      BY <2>0, <3>1, <1>k DEF HasLocked
    <3> QED BY <3>1, <3>2, <1>k, <1>a
  <2> QED BY <2>1, <2>2
<1>2. CASE JanitorSweep(t)
  <2>0. pc[t] = "jan_sweep" /\ jn[t].cur \in Nodes /\ Live(jn[t].cur)
    BY <1>2, <1>k DEF JanitorSweep, Janitor, JanitorKnows, Ptrs
  <2>4. Before(jn[t].cand, item[t]) /\ jn[t].cand \in Nodes /\ Live(jn[t].cand) /\ ~Before(jn[t].cand, jn[t].cur)
        /\ prev[item[t]] = jn[t].cand /\ Adjacent(item[t], jn[t].cand) /\ jn[t].carry = Null
    <3>1. HasLocked(t, item[t])
      BY <2>0 DEF HasLocked
    <3>2. Adjacent(item[t], prev[item[t]])
      BY <2>0, <3>1, <1>p, <1>k DEF Gap
    <3> QED BY <1>k, <2>0, <3>2 DEF JanitorKnows, JanitorOrdered, Older, Ptrs
  <2>1. CASE next[jn[t].cur].locked
    <3>1. /\ pc'[t] = "jan_clean" /\ KeepsLocks /\ UNCHANGED <<mem, prev, stamp, item>>
          /\ jn'[t].cur = jn[t].cand /\ jn'[t].fail = jn[t].cur
      BY <1>2, <2>0, <2>1, <1>k, JanitorSweepMoves DEF KeepsNext
    <3>3. \A n \in Nodes : Live(n)' /\ HasLocked(t, n) => HasLocked(t, n)'
      BY <3>1, <2>4, <2>0, <1>k DEF HasLocked, Adjacent
    <3> QED BY <3>1, <3>3, <1>n
  <2>2. CASE ~next[jn[t].cur].locked /\ prev[jn[t].cur] = Null
    <3>1. /\ pc'[t] = "jan_strong" /\ Locks(jn[t].cur) /\ UNCHANGED <<mem, prev, stamp, item>>
          /\ jn'[t].cur = jn[t].cand
      BY <1>2, <2>0, <2>2, <1>k, JanitorSweepMoves
    <3>3. \A n \in Nodes : Live(n)' /\ (HasLocked(t, n) \/ n = jn[t].cur) => HasLocked(t, n)'
      BY <3>1, <2>4, <2>0, <1>k DEF HasLocked
    <3> QED BY <2>0, <2>2, <3>1, <3>3, <1>a
  <2>3. CASE ~next[jn[t].cur].locked /\ prev[jn[t].cur] # Null
    <3>1. /\ pc'[t] = "jan_sweep" /\ Locks(jn[t].cur) /\ UNCHANGED <<mem, prev, stamp, item>>
          /\ jn'[t].cur = prev[jn[t].cur]
      BY <1>2, <2>0, <2>3, <1>k, JanitorSweepMoves
    <3>2. Adjacent(jn[t].cur, prev[jn[t].cur])
      BY <2>0, <2>3, <1>q
    <3>3. \A n \in Nodes : Live(n)' /\ (HasLocked(t, n) \/ n = jn[t].cur) => HasLocked(t, n)'
      BY <3>1, <3>2, <2>0, <2>3, <2>4, <1>k DEF HasLocked, Adjacent, Ptrs
    <3> QED BY <2>0, <2>3, <3>1, <3>3, <1>a
  <2> QED BY <2>1, <2>2, <2>3
<1>3. CASE JanitorCleanup(t)
  <2>0. pc[t] = "jan_clean" /\ jn[t].cur \in Nodes /\ jn[t].fail \in Nodes
    BY <1>3, <1>k DEF JanitorCleanup, Janitor, JanitorKnows, Ptrs
  <2>1. CASE jn[t].cur # jn[t].fail
    <3>1. /\ pc'[t] = "jan_clean" /\ Unlocks(jn[t].cur) /\ UNCHANGED <<mem, prev, stamp, item>>
          /\ jn'[t].cur = prev[jn[t].cur] /\ jn'[t].fail = jn[t].fail
      BY <1>3, <2>0, <2>1, <1>k, JanitorCleanupMoves
    <3>2. HasLocked(t, jn[t].cur) /\ Live(jn[t].cur) /\ Before(jn[t].cur, item[t])
      BY <2>0, <2>1, <1>k DEF HasLocked, JanitorKnows
    <3>3. Adjacent(jn[t].cur, prev[jn[t].cur])
      BY <2>0, <3>2, <1>p DEF Gap
    <3>4. prev[jn[t].cur] # Null /\ prev[jn[t].cur] \in Nodes
      BY <2>0, <2>1, <3>3, <1>k DEF JanitorKnows, Adjacent, Ptrs
    <3>5. \A n \in Nodes : Live(n)' /\ HasLocked(t, n) /\ n # jn[t].cur => HasLocked(t, n)'
      BY <3>1, <3>2, <3>3, <3>4, <2>0, <1>k DEF HasLocked, Adjacent
    <3> QED BY <2>0, <3>1, <3>5, <1>u
  <2>2. CASE jn[t].cur = jn[t].fail
    <3>1. /\ pc'[t] = "jan_unlock" /\ KeepsLocks /\ UNCHANGED <<mem, prev, stamp, item>>
      BY <1>3, <2>0, <2>2, <1>k, JanitorCleanupMoves DEF KeepsNext
    <3>2. \A n \in Nodes : Live(n)' /\ HasLocked(t, n) => HasLocked(t, n)'
      BY <2>0, <2>2, <3>1, <1>k DEF HasLocked
    <3> QED BY <3>1, <3>2, <1>n
  <2> QED BY <2>1, <2>2
<1>4. CASE JanitorUnlockStart(t)
  <2>1. /\ pc[t] = "jan_unlock" /\ Unlocks(item[t]) /\ mem' = mem
    BY <1>4, <1>k, JanitorUnlockStartMoves
  <2> QED BY <2>1, <1>k, <1>u DEF HasLocked
<1>5. CASE JanitorStrong(t)
  <2>0. pc[t] = "jan_strong" /\ jn[t].cur \in Nodes /\ Live(jn[t].cur)
    BY <1>5, <1>k DEF JanitorStrong, Janitor, JanitorKnows, Ptrs
  <2>1. CASE prev[jn[t].cur] # Null
    <3>1. /\ pc'[t] = "jan_setnext" /\ KeepsLocks /\ UNCHANGED <<mem, prev, stamp, item>>
      BY <1>5, <2>1, <1>k, JanitorStrongMoves DEF KeepsNext
    <3> QED BY <2>0, <3>1, <1>n, <1>k DEF HasLocked
  <2>2. CASE prev[jn[t].cur] = Null
    <3>1. /\ pc'[t] = "jan_final" /\ KeepsLocks /\ UNCHANGED <<mem, prev, stamp, item>>
          /\ jn'[t].cur = jn[t].cand
      BY <1>5, <2>0, <2>2, <1>k, JanitorStrongMoves DEF KeepsNext, JanitorKnows
    <3>2. Before(jn[t].cand, item[t]) /\ jn[t].cand \in Nodes /\ prev[item[t]] = jn[t].cand /\ Adjacent(item[t], jn[t].cand)
      <4>1. HasLocked(t, item[t])
        BY <2>0 DEF HasLocked
      <4>2. Adjacent(item[t], prev[item[t]])
        BY <2>0, <4>1, <1>p, <1>k DEF Gap
      <4> QED BY <1>k, <2>0, <4>2 DEF JanitorKnows, JanitorOrdered, Older, Ptrs
    <3>3. \A n \in Nodes : Live(n)' /\ HasLocked(t, n) => HasLocked(t, n)'
      BY <2>0, <3>1, <3>2, <1>k DEF HasLocked, Adjacent
    <3> QED BY <3>1, <3>3, <1>n
  <2> QED BY <2>1, <2>2
<1>6. CASE JanitorSetNext(t)
  <2>1. /\ pc[t] = "jan_setnext" /\ pc'[t] = "jan_adv" /\ KeepsLocks /\ UNCHANGED <<mem, prev, stamp, item>>
    BY <1>6, <1>k, JanitorSetNextMoves
  <2> QED BY <2>1, <1>n, <1>k DEF HasLocked
<1>7. CASE JanitorCheckAdvance(t)
  <2>1. /\ pc[t] = "jan_adv" /\ pc'[t] = "jan_strong" /\ KeepsLocks /\ UNCHANGED <<mem, prev, stamp, item>>
    BY <1>7, <1>k, JanitorCheckAdvanceMoves DEF KeepsNext
  <2> QED BY <2>1, <1>n, <1>k DEF HasLocked
<1>8. CASE JanitorFinal(t)
  <2>0. pc[t] = "jan_final" /\ jn[t].cur \in Nodes /\ Live(jn[t].cur) /\ jn[t].carry = jn'[t].carry /\ jn'[t].cur = jn[t].cur
        /\ KeepsLocks /\ UNCHANGED <<mem, prev, stamp, item>>
    BY <1>8, <1>k, JanitorFinalMoves DEF KeepsNext, JanitorKnows, Ptrs
  <2>1. CASE pc'[t] = "jan_del"
    BY <2>0, <2>1, <1>n, <1>k DEF HasLocked
  <2>2. CASE pc'[t] = "jan_carry" /\ jn'[t].right = jn[t].cur
    BY <2>0, <2>2, <1>n, <1>k DEF HasLocked
  <2> QED BY <1>8, <2>1, <2>2, <1>k, JanitorFinalMoves
<1>9. CASE JanitorDelete(t)
  <2>0. pc[t] = "jan_del" /\ jn[t].del \in Nodes /\ Live(jn[t].del) /\ jn[t].carry = jn'[t].carry /\ jn'[t].cur = jn[t].cur
        /\ KeepsLocks /\ UNCHANGED <<mem, prev, stamp, item>> /\ jn'[t].del = jn[t].del
    BY <1>9, <1>k, JanitorDeleteMoves DEF KeepsNext, JanitorKnows, Ptrs
  <2>1. CASE pc'[t] = "jan_free"
    BY <2>0, <2>1, <1>n, <1>k DEF HasLocked
  <2>2. CASE pc'[t] = "jan_unlink" /\ jn[t].del # jn[t].cur
    <3>1. jn[t].cur \in Nodes /\ mem[jn[t].cur] = "freed" /\ Adjacent(jn[t].right, jn[t].del) /\ Before(jn[t].del, jn[t].right)
          /\ jn[t].right \in Nodes /\ Live(jn[t].right) /\ jn[t].carry = (IF jn[t].right = item[t] THEN Null ELSE jn[t].right)
          /\ ~Before(item[t], jn[t].right) /\ Before(jn[t].cur, jn[t].right)
      BY <2>0, <2>2, <1>k DEF JanitorKnows, JanitorOrdered, Older, Ptrs
    <3>2. \A n \in Nodes : Live(n)' /\ HasLocked(t, n) => HasLocked(t, n)'
      BY <2>0, <2>2, <3>1, <1>k DEF HasLocked, Adjacent
    <3> QED BY <2>0, <3>2, <1>n
  <2>3. CASE pc'[t] = "jan_carry" /\ jn'[t].right = jn[t].del /\ jn[t].del = jn[t].cur
    BY <2>0, <2>3, <1>n, <1>k DEF HasLocked
  <2> QED BY <1>9, <2>1, <2>2, <2>3, <1>k, JanitorDeleteMoves
<1>10. CASE JanitorFree(t)
  <2>0. pc[t] = "jan_free" /\ jn[t].del \in Nodes /\ jn[t].carry = jn'[t].carry /\ jn'[t].cur = jn[t].cur
        /\ KeepsLocks /\ UNCHANGED <<prev, stamp, item>> /\ mem' = [mem EXCEPT ![jn[t].del] = "freed"]
        /\ jn'[t].del = prev[jn[t].del]
    BY <1>10, <1>k, JanitorFreeMoves DEF KeepsNext, JanitorKnows, Ptrs
  <2>3. \A n \in Nodes : Live(n)' => Live(n) /\ n # jn[t].del
    BY <2>0, <1>k DEF TypeOK
  <2>1. CASE pc'[t] = "jan_clearprev" /\ prev[jn[t].del] = Null
    <3>1. HasLocked(t, jn[t].del) /\ Live(jn[t].del)
      BY <2>0, <1>k DEF HasLocked, JanitorKnows, Ptrs
    <3>2. Adjacent(jn[t].del, Null)
      BY <2>0, <2>1, <3>1, <1>p, <1>k DEF Gap, JanitorKnows
    <3>3. jn[t].cur \in Nodes /\ Live(jn[t].right) /\ jn[t].right \in Nodes
          /\ jn[t].carry = (IF jn[t].right = item[t] THEN Null ELSE jn[t].right)
          /\ (jn[t].del # jn[t].cur => Adjacent(jn[t].right, jn[t].del))
      BY <2>0, <1>k DEF JanitorKnows, Ptrs
    <3>5. \A n \in Nodes : Live(n)' /\ HasLocked(t, n) => n = item[t] \/ n = jn[t].carry
      <4>1. CASE jn[t].del = jn[t].cur
        <5>1. ASSUME NEW n \in Nodes, Live(n)', ~Before(jn[t].cur, n) PROVE FALSE
          <6>1. Live(n) /\ n # jn[t].cur /\ Live(jn[t].cur) /\ ~Before(n, jn[t].cur)
            BY <2>3, <3>1, <3>2, <4>1, <5>1 DEF Adjacent
          <6> QED BY <3>3, <5>1, <6>1, <1>k
        <5> QED BY <2>0, <5>1 DEF HasLocked
      <4>2. CASE jn[t].del # jn[t].cur
        <5>1. mem[jn[t].cur] = "freed" /\ Before(jn[t].cur, jn[t].right)
          BY <2>0, <4>2, <1>k DEF JanitorKnows, JanitorOrdered, Older
        <5> QED BY <2>0, <2>1, <2>3, <3>2, <3>3, <4>2, <5>1, <1>k DEF HasLocked, Adjacent
      <4> QED BY <4>1, <4>2
    <3> QED BY <2>0, <2>1, <2>3, <3>5, <1>n, <1>k DEF HasLocked
  <2>2. CASE pc'[t] = "jan_del"
    BY <2>0, <2>2, <2>3, <1>n, <1>k DEF HasLocked
  <2> QED BY <1>10, <2>1, <2>2, <1>k, JanitorFreeMoves
<1>11. CASE JanitorClearPrev(t)
  <2>1. /\ pc[t] = "jan_clearprev" /\ pc'[t] = "jan_unlink" /\ KeepsLocks /\ UNCHANGED <<mem, prev, stamp, item>>
        /\ jn'[t].carry = jn[t].carry /\ jn'[t].del = Null
    BY <1>11, <1>k, JanitorClearPrevMoves DEF KeepsNext, ListInv, OrderInv, Local, Knows, JanitorOrdered
  <2> QED BY <2>1, <1>n, <1>k DEF HasLocked
<1>12. CASE JanitorUnlink(t)
  <2>0. pc[t] = "jan_unlink" /\ KeepsLocks /\ UNCHANGED <<mem, stamp, item>> /\ jn'[t].carry = jn[t].carry
    BY <1>12, <1>k, JanitorUnlinkMoves DEF KeepsNext
  <2>1. CASE pc'[t] = "jan_uncarry" /\ jn[t].del = Null
    BY <2>0, <2>1, <1>n, <1>k DEF HasLocked
  <2>2. CASE pc'[t] = "jan_carry" /\ jn'[t].right = jn[t].del /\ jn[t].del # Null
    BY <2>0, <2>2, <1>n, <1>k DEF HasLocked
  <2> QED BY <1>12, <2>1, <2>2, <1>k, JanitorUnlinkMoves
<1>13. CASE JanitorCarry(t)
  <2>0. /\ pc[t] = "jan_carry" /\ UNCHANGED <<mem, prev, stamp, item>> /\ jn'[t].carry = jn[t].right
        /\ jn'[t].cur = prev[jn[t].right] /\ jn[t].right \in Nodes /\ Live(jn[t].right)
        /\ IF jn[t].carry = Null THEN KeepsNext ELSE Unlocks(jn[t].carry)
        /\ pc'[t] = IF prev[jn[t].right] = Null THEN "jan_uncarry" ELSE "jan_final"
    BY <1>13, <1>k, JanitorCarryMoves DEF JanitorKnows, Ptrs
  <2>1. HasLocked(t, jn[t].right) /\ Adjacent(jn[t].right, prev[jn[t].right])
    <3>1. HasLocked(t, jn[t].right)
      BY <2>0, <1>k DEF HasLocked
    <3> QED BY <2>0, <3>1, <1>p DEF Gap
  <2>2. \A n \in Nodes : Live(n)' /\ HasLocked(t, n) /\ n # jn[t].carry => n = item[t] \/ n = jn[t].right \/ Before(n, jn[t].right)
    BY <2>0, <1>k DEF HasLocked
  <2>3. \A n \in Nodes : Live(n)' /\ HasLocked(t, n) /\ n # jn[t].carry => HasLocked(t, n)'
    BY <2>0, <2>1, <2>2, <1>k DEF HasLocked, Adjacent, Ptrs
  <2>5. CASE jn[t].carry = Null
    BY <2>0, <2>3, <2>5, <1>k, <1>n DEF KeepsNext
  <2>6. CASE jn[t].carry # Null
    <3>1. jn[t].carry \in Nodes
      BY <2>6, <1>k DEF Ptrs
    <3> QED BY <2>0, <2>3, <2>6, <3>1, <1>u
  <2> QED BY <2>5, <2>6
<1>14. CASE JanitorUncarry(t)
  <2>0. /\ pc[t] = "jan_uncarry" /\ UNCHANGED <<mem, prev, stamp, item>>
        /\ IF jn[t].carry = Null THEN KeepsNext ELSE Unlocks(jn[t].carry)
        /\ pc'[t] = "jan_unlock"
    BY <1>14, <1>k, JanitorUncarryMoves
  <2>3. \A n \in Nodes : Live(n)' /\ HasLocked(t, n) /\ n # jn[t].carry => HasLocked(t, n)'
    BY <2>0, <1>k DEF HasLocked
  <2>5. CASE jn[t].carry = Null
    BY <2>0, <2>3, <2>5, <1>k, <1>n DEF KeepsNext
  <2>6. CASE jn[t].carry # Null
    <3>1. jn[t].carry \in Nodes
      BY <2>6, <1>k DEF Ptrs
    <3> QED BY <2>0, <2>3, <2>6, <3>1, <1>u
  <2> QED BY <2>5, <2>6
<1> QED BY <1>1, <1>2, <1>3, <1>4, <1>5, <1>6, <1>7, <1>8, <1>9, <1>10, <1>11, <1>12, <1>13, <1>14 DEF JanitorStep

(* The words next are written by janitors, by a destruction of a payload   *)
(* and by the publication of a node.                                       *)
LEMMA WordsWritten ==
  ASSUME NEW t \in Threads, AnyStep(t), ~JanitorStep(t), ~PayloadMark(t), ~UpdateCas(t)
  PROVE  UNCHANGED next
<1> USE DEF OnlyNext, OnlyPrev, OnlyStrong, OnlyWeak, OnlyAdv, ReadOnly, heap
<1>1. ASSUME AdvanceStep(t) PROVE UNCHANGED next
  BY <1>1 DEF AdvanceStep, AdvanceLoad, AdvanceInc, AdvanceReload, AdvanceWeakInc, AdvanceDec, AdvanceWeakDec,
     WeakLeaveStart, PayloadDrop, StrongLoad, StrongIncWeak, StrongCas, StrongRaceDecWeak, StrongRecheck, StrongUndo,
     StrongUndoDecWeak, StrongDecWeakB, StrongLeaveStart, StrongDecWeakA
<1>2. ASSUME DropStep(t) PROVE UNCHANGED next
  BY <1>2 DEF DropStep, DropStrongDec, DropWeakLoad, DropWeakNext, ClaimTeardown, DropWeakCas, DropWeakFree
<1>3. ASSUME UpdateStep(t) PROVE UNCHANGED next
  BY <1>3 DEF UpdateStep, UpdateNext, RcuCancel, UpdateWeakInc, UpdateFail, UpdateMark, UpdateDec, UpdateDecWeak, UpdateDone
<1>4. ASSUME UpgradeStep(t) PROVE UNCHANGED next
  BY <1>4 DEF UpgradeStep, UpgradeLoadStrong, UpgradeLoadNext, UpgradeIncWeak, UpgradeCas, UpgradeRaceDecWeak, UpgradeCheck,
     UpgradeUndo, UpgradeUndoDecWeak, UpgradeDone
<1>5. ASSUME ApiStep(t) PROVE UNCHANGED next
  BY <1>5 DEF ApiStep, GetLoad, GetDone, TryGetMutWeak, TryGetMutStrong, TryGetMutAgain, SharedGetLoad, SharedGetInc,
     SharedGetNext, SharedGetStrong, SharedGetCas, SharedGetRecheck, SharedGetLight, SharedGetDec, SharedGetClone,
     FinishReading, Return
<1>6. ASSUME Call(t) PROVE UNCHANGED next
  BY <1>6 DEF Call, Clone, CloneWeak, Upgrade, Update, Rcu, DropShift, DropShiftWeak, Reload, SharedGet
<1> QED BY <1>1, <1>2, <1>3, <1>4, <1>5, <1>6 DEF AnyStep, Step

\* only a locked node is disturbed
DisturbedLocked == \A n \in Nodes : next[n].disturbed => next[n].locked

(* A flag that a janitor leaves it leaves on a locked node.                *)
LEMMA FlagsMatch ==
  ASSUME next \in [Nodes -> NextWords], DisturbedLocked, NEW m \in Nodes
  PROVE  /\ Lock(m) => DisturbedLocked'
         /\ Unlock(m) => DisturbedLocked'
         /\ Disturb(m) /\ next[m].locked => DisturbedLocked'
         /\ (\E p : SetNext(m, p)) => DisturbedLocked'
         /\ next' = [next EXCEPT ![m].dropped = TRUE] => DisturbedLocked'
         /\ UNCHANGED next => DisturbedLocked'
<1>1. \A n \in Nodes : next[n] \in NextWords
  OBVIOUS
<1>2. ASSUME NEW n \in Nodes, next'[n].disturbed
      PROVE  /\ Lock(m) => next'[n].locked
             /\ Unlock(m) => next'[n].locked
             /\ Disturb(m) /\ next[m].locked => next'[n].locked
             /\ (\E p : SetNext(m, p)) => next'[n].locked
             /\ next' = [next EXCEPT ![m].dropped = TRUE] => next'[n].locked
             /\ UNCHANGED next => next'[n].locked
  <2>1. CASE n = m
    BY <1>1, <1>2, <2>1 DEF DisturbedLocked, Lock, Unlock, Disturb, SetNext, NextWords
  <2>2. CASE n # m
    BY <1>1, <1>2, <2>2 DEF DisturbedLocked, Lock, Unlock, Disturb, SetNext, NextWords
  <2> QED BY <2>1, <2>2
<1> QED BY <1>2 DEF DisturbedLocked

(* A janitor that meets a lock marks it, one that unlocks clears the mark. *)
LEMMA JanitorFlags ==
  ASSUME SafeInv, DisturbedLocked, NEW t \in Threads, JanitorStep(t)
  PROVE  DisturbedLocked'
<1>1. /\ TypeOK /\ ListInv /\ item[t] \in Nodes /\ next \in [Nodes -> NextWords] /\ JanitorKnows(t)
      /\ jn[t].cur \in Ptrs /\ jn[t].prv \in Ptrs /\ jn[t].carry \in Ptrs
  BY ListParts, JanitorFacts
<1>2. UNCHANGED next => DisturbedLocked'
  BY <1>1, FlagsMatch
<1>3. CASE JanitorLockStart(t)
  BY <1>1, <1>3, FlagsMatch DEF JanitorLockStart
<1>4. CASE JanitorSweep(t)
  <2>1. jn[t].cur \in Nodes
    BY <1>1, <1>4 DEF JanitorSweep, Janitor, JanitorKnows, Ptrs
  <2> QED BY <1>1, <2>1, <1>4, FlagsMatch DEF JanitorSweep
<1>5. CASE JanitorCleanup(t)
  <2>1. jn[t].cur \in Nodes
    BY <1>1, <1>5 DEF JanitorCleanup, Janitor, JanitorKnows, Ptrs
  <2> QED BY <1>1, <1>2, <2>1, <1>5, FlagsMatch DEF JanitorCleanup
<1>6. CASE JanitorUnlockStart(t)
  BY <1>1, <1>6, FlagsMatch DEF JanitorUnlockStart
<1>7. CASE JanitorSetNext(t)
  <2>1. jn[t].prv \in Nodes
    BY <1>1, <1>7 DEF JanitorSetNext, Janitor, JanitorKnows, Ptrs
  <2> QED BY <1>1, <2>1, <1>7, FlagsMatch DEF JanitorSetNext
<1>8. CASE JanitorCarry(t) \/ JanitorUncarry(t)
  <2>1. ReleaseCarry(t)
    BY <1>8 DEF JanitorCarry, JanitorUncarry
  <2>2. CASE jn[t].carry = Null
    BY <1>2, <2>1, <2>2 DEF ReleaseCarry
  <2>3. CASE jn[t].carry # Null
    BY <1>1, <2>1, <2>3, FlagsMatch DEF ReleaseCarry, Ptrs
  <2> QED BY <2>2, <2>3
<1>9. CASE JanitorStrong(t) \/ JanitorCheckAdvance(t) \/ JanitorFinal(t) \/ JanitorDelete(t) \/ JanitorFree(t)
           \/ JanitorClearPrev(t) \/ JanitorUnlink(t)
  <2>1. UNCHANGED next
    BY <1>9 DEF JanitorStrong, JanitorCheckAdvance, JanitorFinal, JanitorDelete, JanitorFree, JanitorClearPrev,
       JanitorUnlink, ReadOnly, OnlyWeak, OnlyPrev, heap
  <2> QED BY <1>2, <2>1
<1> QED BY <1>3, <1>4, <1>5, <1>6, <1>7, <1>8, <1>9 DEF JanitorStep

(* Only a locked node is disturbed, after every step.                      *)
LEMMA DisturbedLockedKept ==
  ASSUME SafeInv, DisturbedLocked, NEW t \in Threads, AnyStep(t)
  PROVE  DisturbedLocked'
<1>1. TypeOK /\ next \in [Nodes -> NextWords] /\ item[t] \in Nodes /\ pd[t] \in PayloadFrames
  BY SafeParts, NodesTyped DEF TypeOK
<1>2. CASE JanitorStep(t)
  BY <1>2, JanitorFlags
<1>3. CASE PayloadMark(t)
  BY <1>1, <1>3, FlagsMatch DEF PayloadMark, PayloadFrames
<1>4. CASE UpdateCas(t)
  BY <1>1, <1>4, FlagsMatch DEF UpdateCas
<1>5. CASE ~JanitorStep(t) /\ ~PayloadMark(t) /\ ~UpdateCas(t)
  BY <1>1, <1>5, WordsWritten, FlagsMatch
<1> QED BY <1>2, <1>3, <1>4, <1>5

(* What another call has locked it keeps.                                  *)
LEMMA StillLocked ==
  ASSUME ListInv, Grows, NEW u \in Threads, Still(u), NEW n \in Nodes, Live(n)
  PROVE  HasLocked(u, n)' <=> HasLocked(u, n)
<1>1. /\ TypeOK /\ item[u] \in Nodes /\ jn[u].cur \in Ptrs /\ jn[u].fail \in Ptrs /\ jn[u].right \in Ptrs /\ jn[u].del \in Ptrs
      /\ JanitorKnows(u) /\ JanitorOrdered(pc[u], item[u], jn[u]) /\ (pc[u] \in Janitoring => Live(item[u]))
      /\ stamp \in [Nodes -> Nat]
  BY JanitorFacts
<1>2. \A m \in Nodes : Published(m) => stamp'[m] = stamp[m]
  BY DEF Grows
<1>3. \A m \in Nodes : Live(m) => Published(m)
  BY DEF ListInv, Listed
<1>4. /\ pc[u] = "jan_sweep" => jn[u].cur \in Nodes /\ Published(jn[u].cur)
      /\ pc[u] = "jan_clean" /\ jn[u].cur # jn[u].fail =>
           jn[u].cur \in Nodes /\ Published(jn[u].cur) /\ jn[u].fail \in Nodes /\ Published(jn[u].fail)
      /\ pc[u] \in {"jan_final", "jan_del", "jan_free"} => jn[u].cur \in Nodes /\ Published(jn[u].cur)
      /\ pc[u] = "jan_unlink" /\ jn[u].del # Null => jn[u].del \in Nodes /\ Published(jn[u].del)
      /\ pc[u] = "jan_carry" => jn[u].right \in Nodes /\ Published(jn[u].right)
  <2>1. ASSUME pc[u] = "jan_clean", jn[u].cur # jn[u].fail
        PROVE  jn[u].cur \in Nodes /\ Published(jn[u].cur) /\ jn[u].fail \in Nodes /\ Published(jn[u].fail)
    <3>1. jn[u].cur \in Nodes /\ Live(jn[u].cur) /\ jn[u].fail \in Nodes /\ Live(jn[u].fail)
      BY <1>1, <2>1 DEF JanitorKnows, Ptrs
    <3> QED BY <1>3, <3>1
  <2>2. pc[u] \in {"jan_sweep", "jan_final", "jan_del", "jan_free"} => jn[u].cur \in Nodes /\ Published(jn[u].cur)
    BY <1>1 DEF JanitorOrdered, Older, Ptrs
  <2>3. pc[u] = "jan_unlink" /\ jn[u].del # Null => jn[u].del \in Nodes /\ Published(jn[u].del)
    BY <1>1 DEF JanitorOrdered, Older, Ptrs
  <2>4. pc[u] = "jan_carry" => jn[u].right \in Nodes /\ Published(jn[u].right)
    BY <1>1 DEF JanitorOrdered, Older, Ptrs
  <2> QED BY <2>1, <2>2, <2>3, <2>4
<1>5. pc[u] \in Janitoring => stamp'[item[u]] = stamp[item[u]]
  BY <1>1, <1>2, <1>3
<1>6. /\ pc[u] \in {"jan_sweep", "jan_final", "jan_del", "jan_free"} => stamp'[jn[u].cur] = stamp[jn[u].cur]
      /\ pc[u] = "jan_unlink" /\ jn[u].del # Null => stamp'[jn[u].del] = stamp[jn[u].del]
      /\ pc[u] = "jan_carry" => stamp'[jn[u].right] = stamp[jn[u].right]
      /\ pc[u] = "jan_clean" /\ jn[u].cur # jn[u].fail =>
           stamp'[jn[u].cur] = stamp[jn[u].cur] /\ stamp'[jn[u].fail] = stamp[jn[u].fail]
  BY <1>2, <1>4
<1>7. stamp'[n] = stamp[n] /\ stamp[n] \in Nat
  BY <1>1, <1>2, <1>3
<1>8. /\ pc'[u] = pc[u] /\ item'[u] = item[u] /\ jn'[u] = jn[u]
  BY DEF Still
<1>9. CASE pc[u] = "jan_clean" /\ jn[u].cur = jn[u].fail
  BY <1>5, <1>7, <1>8, <1>9 DEF HasLocked, Before, Janitoring, Redirecting, Freeing
<1>10. CASE ~(pc[u] = "jan_clean" /\ jn[u].cur = jn[u].fail)
  BY <1>5, <1>6, <1>7, <1>8, <1>10 DEF HasLocked, Before, Janitoring, Redirecting, Freeing
<1> QED BY <1>9, <1>10

\* a call that is not in its janitor has locked nothing
LEMMA NotMine ==
  ASSUME NEW t \in Threads, AnyStep(t), ~JanitorStep(t), NEW n
  PROVE  ~HasLocked(t, n)
<1>1. ASSUME pc[t] \in Janitoring PROVE JanitorStep(t)
  BY <1>1, StepAt DEF Janitoring, JanitorStep
<1> QED BY <1>1 DEF HasLocked, Redirecting, Freeing, Janitoring

(* Every lock has an owner, after every step: what was locked by another   *)
(* call is its own, and what a janitor unlocks it gives up.                *)
LEMMA OwnersKept ==
  ASSUME SafeInv, LocksOwned, NEW t \in Threads, AnyStep(t), NEW n \in Nodes, mem'[n] = "live", next'[n].locked
  PROVE  \E u \in Threads : HasLocked(u, n)'
<1>1. /\ TypeOK /\ TypeOK' /\ ListInv /\ Grows /\ \A u \in Threads \ {t} : Still(u)
  BY StepFacts, ListParts, SafeParts, NodesTyped
<1>2. \A m \in Nodes : next[m].locked \in BOOLEAN
  BY <1>1 DEF TypeOK, NextWords
<1>3. ASSUME Live(n), NEW u \in Threads \ {t}, HasLocked(u, n) PROVE HasLocked(u, n)'
  BY <1>1, <1>3, StillLocked
<1>4. CASE JanitorStep(t)
  <2>1. KeepsOwned(t)
    BY <1>1, <1>4, JanitorOwned
  <2>2. CASE next[n].locked
    <3>1. PICK u \in Threads : HasLocked(u, n)
      BY <2>1, <2>2 DEF LocksOwned, KeepsOwned, Live
    <3>2. CASE u = t
      BY <2>1, <2>2, <3>1, <3>2 DEF KeepsOwned, Live
    <3>3. CASE u # t
      BY <1>3, <2>1, <3>1, <3>3 DEF KeepsOwned, Live
    <3> QED BY <3>2, <3>3
  <2>3. CASE ~next[n].locked
    BY <2>1, <2>3 DEF KeepsOwned, Live
  <2> QED BY <2>2, <2>3
<1>5. ASSUME Live(n), next[n].locked, ~JanitorStep(t) PROVE \E u \in Threads : HasLocked(u, n)'
  <2>1. PICK u \in Threads : HasLocked(u, n)
    BY <1>5 DEF LocksOwned
  <2>2. u # t
    BY <1>5, <2>1, NotMine
  <2> QED BY <1>3, <1>5, <2>1, <2>2
<1>6. CASE Quiet(t) /\ ~JanitorStep(t)
  BY <1>5, <1>6 DEF Quiet, KeepsNext, KeepsLocks, Live
<1>7. CASE DropWeakFree(t) /\ ~JanitorStep(t)
  <2>1. item[t] \in Nodes /\ UNCHANGED next /\ mem' = [mem EXCEPT ![item[t]] = "freed"]
    BY <1>1, <1>7 DEF TypeOK, DropWeakFree
  <2> QED BY <1>1, <1>5, <1>7, <2>1 DEF Live, TypeOK
<1>8. CASE Links(t, item[t], op[t].val) /\ ~JanitorStep(t)
  <2>1. mem' = [mem EXCEPT ![op[t].val] = "live"] /\ next'[n].locked = next[n].locked
    BY <1>8 DEF Links
  <2>2. CASE n = op[t].val
    <3>1. mem[op[t].val] = "private"
      BY <1>8 DEF Links
    <3>2. mem[n] = "private"
      BY <2>2, <3>1
    <3>3. PrivateFresh
      BY SafeParts
    <3>4. next[n] = NullNext
      BY <3>2, <3>3 DEF PrivateFresh
    <3>5. next[n].locked = FALSE
      BY <3>4 DEF NullNext
    <3> QED BY <2>1, <3>5
  <2>3. CASE n # op[t].val
    BY <1>1, <1>5, <1>8, <2>1, <2>3 DEF Live, TypeOK
  <2> QED BY <2>2, <2>3
<1> QED BY <1>4, <1>6, <1>7, <1>8, StepCases

(* Only the call that frees the last node is told to be the sole user.     *)
LEMMA SoleFrom ==
  ASSUME TypeOK, NEW t \in Threads, AnyStep(t), op'[t].sole
  PROVE  op[t].sole \/ DropWeakFree(t)
<1>k. op \in [Threads -> CallFrames]
  BY DEF TypeOK
<1>i. ~IdleOp.sole
  BY DEF IdleOp
<1> USE DEF CallFrames, locals
<1>1. CASE AdvanceStep(t)
  <2>1. PayloadDrop(t) => op'[t].sole = op[t].sole
    BY <1>k DEF PayloadDrop, DropPayload
  <2> QED BY <1>1, <1>k, <2>1
     DEF AdvanceStep, AdvanceLoad, AdvanceInc, AdvanceReload, AdvanceWeakInc, AdvanceDec, AdvanceWeakDec,
     WeakLeaveStart, PayloadMark, StrongLoad, StrongIncWeak, StrongCas, StrongRaceDecWeak, StrongRecheck, StrongUndo,
     StrongUndoDecWeak, StrongDecWeakB, StrongLeaveStart, StrongDecWeakA
<1>2. CASE JanitorStep(t)
  <2>1. ASSUME JanitorFree(t) PROVE op'[t].sole = op[t].sole
    BY <2>1, <1>k DEF JanitorFree, Deallocate, DropPayload
  <2> QED BY <1>2, <2>1 DEF JanitorStep, JanitorLockStart, JanitorSweep, JanitorCleanup, JanitorUnlockStart, JanitorStrong,
     JanitorSetNext, JanitorCheckAdvance, JanitorFinal, JanitorDelete, JanitorClearPrev,
     JanitorUnlink, JanitorCarry, JanitorUncarry
<1>3. CASE DropStep(t)
  BY <1>3, <1>k DEF DropStep, DropStrongDec, DropWeakLoad, DropWeakNext, ClaimTeardown, DropWeakCas
<1>4. CASE UpdateStep(t)
  BY <1>4, <1>k DEF UpdateStep, UpdateNext, PrepareLink, RcuCancel, UpdateWeakInc, UpdateCas, UpdateFail, UpdateMark,
     UpdateDec, UpdateDecWeak, UpdateDone
<1>5. CASE UpgradeStep(t)
  BY <1>5, <1>k DEF UpgradeStep, UpgradeLoadStrong, UpgradeLoadNext, UpgradeIncWeak, UpgradeCas, UpgradeRaceDecWeak,
     UpgradeCheck, UpgradeUndo, UpgradeUndoDecWeak, UpgradeDone
<1>6. CASE ApiStep(t)
  BY <1>6, <1>k, <1>i DEF ApiStep, GetLoad, GetDone, TryGetMutWeak, TryGetMutStrong, TryGetMutAgain, SharedGetLoad,
     SharedGetInc, SharedGetNext, SharedGetStrong, SharedGetCas, SharedGetRecheck, SharedGetLight, SharedGetDec,
     SharedGetClone, FinishReading, Return
<1>7. CASE Call(t)
  <2>1. ASSUME NEW f, NEW h, NEW o, NEW v, Enter(t, f, h, o, v) PROVE ~op'[t].sole
    <3>1. op'[t] = [IdleOp EXCEPT !.f = f, !.hnd = h, !.out = o, !.val = v, !.since = count]
      BY <2>1, <1>k DEF Enter
    <3>2. ~[IdleOp EXCEPT !.f = f, !.hnd = h, !.out = o, !.val = v, !.since = count].sole
      BY DEF IdleOp
    <3> QED BY <3>1, <3>2
  <2>2. ASSUME NEW f, NEW h, NEW o, CloneWeak(t, f, h, o) PROVE op[t].sole
    BY <2>2 DEF CloneWeak
  <2> QED BY <1>7, <2>1, <2>2 DEF Call, Clone, Upgrade, Update, Rcu, DropShift, DropShiftWeak, Reload, SharedGet
<1> QED BY <1>1, <1>2, <1>3, <1>4, <1>5, <1>6, <1>7 DEF AnyStep, Step

(* When no node is left none appears: an update would need the node that   *)
(* it appends to.                                                          *)
LEMMA EmptyStays ==
  ASSUME SafeInv, NEW t \in Threads, AnyStep(t), \A n \in Nodes : ~Live(n), NEW n \in Nodes
  PROVE  mem'[n] # "live"
<1>1. ASSUME UpdateCas(t) PROVE FALSE
  <2>1. pc[t] = "upd_cas"
    BY <1>1 DEF UpdateCas
  <2>2. StrongOnItem(t)
    BY <2>1 DEF StrongOnItem, At
  <2>3. Live(item[t]) /\ item[t] \in Nodes
    BY <2>2, SafeParts, NodesTyped DEF HeldLive
  <2> QED BY <2>3
<1> QED BY <1>1, LiveFrom

(* Who was told to be the sole user has freed the last node.               *)
LEMMA SoleEmptyKept ==
  ASSUME SafeInv, SoleEmpty, NEW t \in Threads, AnyStep(t)
  PROVE  SoleEmpty'
<1>1. TypeOK /\ \A u \in Threads \ {t} : Still(u)
  BY StepFacts, SafeParts, NodesTyped
<1>2. CASE \E u \in Threads : op[u].sole
  BY <1>2, EmptyStays DEF SoleEmpty, Live
<1>3. CASE DropWeakFree(t)
  <2>1. pc[t] = "dw_free" /\ mem' = [mem EXCEPT ![item[t]] = "freed"] /\ mem \in [Nodes -> {"unused", "private", "live", "freed"}]
    BY <1>1, <1>3 DEF DropWeakFree, TypeOK
  <2>2. item[t] \in Nodes /\ \A n \in Nodes : Live(n) => n = item[t]
    BY <2>1, Alone
  <2> QED BY <2>1, <2>2 DEF SoleEmpty, Live
<1>4. CASE ~DropWeakFree(t) /\ ~\E u \in Threads : op[u].sole
  <2>1. \A u \in Threads : ~op'[u].sole
    <3>1. \A u \in Threads \ {t} : op'[u] = op[u]
      BY <1>1 DEF Still
    <3> QED BY <1>1, <1>4, <3>1, SoleFrom
  <2> QED BY <2>1 DEF SoleEmpty
<1> QED BY <1>2, <1>3, <1>4

\* what the theorems below need of the words that calls leave behind
RestInv == SafeInv /\ LocksOwned /\ SoleEmpty

(* The program starts with nothing locked. *)
LEMMA InitRest ==
  ASSUME Init
  PROVE  RestInv
<1>1. SafeInv /\ \A n \in Nodes : next[n] = [NullNext EXCEPT !.ptr = IF n < InitLen THEN n + 1 ELSE 0]
  BY InitSafe, InitChain
<1>2. \A n \in Nodes : ~next[n].locked /\ ~next[n].disturbed
  BY <1>1 DEF NullNext
<1>3. \A t \in Threads : ~op[t].sole
  BY DEF Init, IdleOp
<1> QED BY <1>1, <1>2, <1>3 DEF RestInv, LocksOwned, SoleEmpty

(* Every step keeps it. *)
LEMMA NextRest ==
  ASSUME RestInv, [Next]_vars
  PROVE  RestInv'
<1>1. SafeInv'
  BY NextSafe DEF RestInv
<1>2. (\E t \in Threads : AnyStep(t)) \/ UNCHANGED vars
  BY DEF Next, Rest, AnyStep
<1>3. CASE UNCHANGED vars
  BY <1>1, <1>3 DEF RestInv, LocksOwned, SoleEmpty, vars, heap, client, locals, Live, HasLocked, Before
<1>4. ASSUME NEW t \in Threads, AnyStep(t) PROVE RestInv'
  <2>1. SafeInv /\ LocksOwned /\ SoleEmpty /\ DisturbedLocked
    BY DEF RestInv, LocksOwned, DisturbedLocked
  <2>2. SoleEmpty'
    BY <1>4, <2>1, SoleEmptyKept
  <2>3. DisturbedLocked'
    BY <1>4, <2>1, DisturbedLockedKept
  <2>4. \A n \in Nodes : Live(n)' /\ next'[n].locked => \E u \in Threads : HasLocked(u, n)'
    BY <1>4, <2>1, OwnersKept DEF Live
  <2>5. LocksOwned'
    BY <2>3, <2>4 DEF LocksOwned, DisturbedLocked
  <2> QED BY <1>1, <2>2, <2>5 DEF RestInv
<1> QED BY <1>2, <1>3, <1>4

(* RestInv holds in every state. *)
LEMMA RestHolds == Spec => []RestInv
<1>1. Init => RestInv
  BY InitRest
<1>2. RestInv /\ [Next]_vars => RestInv'
  BY NextRest
<1> QED BY <1>1, <1>2, PTL DEF Spec

(* When no call is in progress, nothing is locked or marked and no advance *)
(* is announced (unlock_node, advance_count).                              *)
THEOREM NothingLeftLocked == Spec => []QuietAtRest
<1>1. RestInv => QuietAtRest
  <2>1. SUFFICES ASSUME RestInv, AtRest, NEW n \in Nodes, Live(n)
                 PROVE  ~next[n].locked /\ ~next[n].disturbed /\ adv[n] = 0
    BY DEF QuietAtRest
  <2>2. \A t \in Threads : ~HasLocked(t, n)
    BY <2>1 DEF AtRest, HasLocked, Redirecting, Freeing, Janitoring
  <2>3. ~next[n].locked /\ ~next[n].disturbed
    BY <2>1, <2>2 DEF RestInv, LocksOwned
  <2>4. \A t \in Threads : ~Walks(t, n) /\ ~Shares(t, n)
    <3>1. \A t \in Threads : pc[t] = "idle" /\ Shape(t)
      BY <2>1, SafeParts DEF AtRest, RestInv
    <3>2. \A t \in Threads : dr[t].ret = "idle"
      BY <3>1 DEF Shape, Dying, Janitoring
    <3> QED BY <3>1, <3>2 DEF Walks, Shares
  <2>5. Announcers(n) = {}
    BY <2>4 DEF Announcers
  <2>6. AdvanceExact
    BY <2>1, SafeParts DEF RestInv
  <2>7. Cardinality({}) = 0
    BY FS_EmptySet
  <2> QED BY <2>3, <2>5, <2>6, <2>7 DEF AdvanceExact
<1> QED BY <1>1, RestHolds, PTL

(* try_into_inner that reports the sole user took the chain down           *)
(* (report_sole_user in do_drop_weak).                                     *)
THEOREM SoleUserTakesAll == Spec => []SoleUserIsLast
<1>1. RestInv => SoleUserIsLast
  BY DEF RestInv, SoleEmpty, SoleUserIsLast
<1> QED BY <1>1, RestHolds, PTL

------------------------------------------------------------------------------

(* try_get_mut.                                                            *)

(* A set of natural numbers that is not empty has a least element.         *)
LEMMA LeastNat ==
  ASSUME NEW S, S \subseteq Nat, S # {}
  PROVE  \E m \in S : \A n \in S : m <= n
<1> DEFINE R == OpToRel(<, Nat)
<1>1. IsWellFoundedOn(R, Nat)
  BY NatLessThanWellFounded
<1>2. \A a, b \in Nat : a < b => <<a, b>> \in R
  BY DEF OpToRel
<1> HIDE DEF R
<1>3. PICK x \in S : \A y \in S : ~(<<y, x>> \in R)
  BY <1>1, WFMin
<1>4. \A y \in S : y \in Nat /\ x \in Nat /\ ~(y < x)
  BY <1>2, <1>3
<1>5. \A y \in S : x <= y
  BY <1>4
<1> QED BY <1>3, <1>5

(* A node that is not the last one has a neighbour on its right.           *)
LEMMA RightNeighbour ==
  ASSUME SafeInv, NEW n \in Nodes, Live(n), NEW k \in Nodes, Live(k), Before(n, k)
  PROVE  \E m \in Nodes : Live(m) /\ Before(n, m) /\ Adjacent(m, n)
<1> DEFINE S == {i \in Nat : \E m \in Nodes : Live(m) /\ Before(n, m) /\ i = stamp[m]}
<1>1. stamp \in [Nodes -> Nat] /\ n # Null
  BY SafeParts, NodesTyped, HeapAssumption DEF Nodes, Null
<1>2. S \subseteq Nat /\ stamp[k] \in S
  BY <1>1
<1>3. PICK i \in S : \A j \in S : i <= j
  BY <1>2, LeastNat
<1>4. PICK m \in Nodes : Live(m) /\ Before(n, m) /\ i = stamp[m]
  BY <1>3
<1>5. ASSUME NEW l \in Nodes, Live(l), Before(l, m) PROVE ~Before(n, l)
  <2>1. ASSUME Before(n, l) PROVE FALSE
    <3>1. stamp[l] \in S
      BY <1>1, <1>5, <2>1
    <3>2. i <= stamp[l] /\ stamp[l] < i /\ i \in Nat /\ stamp[l] \in Nat
      BY <1>1, <1>3, <1>4, <1>5, <3>1 DEF Before
    <3> QED BY <3>2
  <2> QED BY <2>1
<1>6. Adjacent(m, n)
  BY <1>1, <1>4, <1>5 DEF Adjacent
<1> QED BY <1>4, <1>6

(* A node with a neighbour on its right is linked from there, or from a    *)
(* janitor that is about to link it.                                       *)
LEMMA LinkedFrom ==
  ASSUME SafeInv, NEW n \in Nodes, NEW m \in Nodes, Live(m), Adjacent(m, n)
  PROVE  \/ <<"link", m>> \in WeakHolders(n)
         \/ \E t \in Threads : <<"gap", t>> \in WeakHolders(n)
<1>1. Listed /\ n # Null /\ \A t \in Threads : JanitorKnows(t) /\ jn[t] \in JanitorFrames
  BY SafeParts, NodesTyped, HeapAssumption DEF Nodes, Null, TypeOK
<1>2. /\ Live(n) /\ Before(n, m)
      /\ \A k \in Nodes : Live(k) /\ Before(k, m) => ~Before(n, k)
  BY <1>1 DEF Adjacent
<1>s. stamp \in [Nodes -> Nat] /\ ListInv
  BY SafeParts, NodesTyped, ListParts
<1>u. \A i, j \in Nodes : Live(i) /\ Live(j) => Before(i, j) \/ Before(j, i) \/ i = j
  BY <1>s, Line DEF ListInv
<1>3. ASSUME NEW p \in Nodes, Adjacent(m, p) PROVE p = n
  <2>1. Live(p) /\ Before(p, m) /\ ~Before(p, n) /\ ~Before(n, p)
    BY <1>1, <1>2, <1>3, HeapAssumption DEF Adjacent, Nodes, Null
  <2> QED BY <1>2, <1>u, <2>1
<1>4. ~Adjacent(m, Null)
  BY <1>2 DEF Adjacent
<1>5. CASE \A t \in Threads : ~(Gap(t) /\ jn[t].right = m)
  <2>1. Adjacent(m, prev[m])
    BY <1>1, <1>5 DEF Listed
  <2>2. prev[m] \in Nodes
    <3>1. prev[m] \in Ptrs
      BY SafeParts, NodesTyped
    <3> QED BY <1>4, <2>1, <3>1 DEF Ptrs
  <2>3. prev[m] = n
    BY <1>3, <2>1, <2>2
  <2> QED BY <2>3 DEF WeakHolders, Live
<1>6. CASE \E t \in Threads : Gap(t) /\ jn[t].right = m
  <2>1. PICK t \in Threads : Gap(t) /\ jn[t].right = m
    BY <1>6
  <2>2. Adjacent(m, jn[t].del) /\ jn[t].del \in Ptrs
    BY <1>1, <2>1 DEF Gap, JanitorKnows, JanitorFrames
  <2>3. jn[t].del \in Nodes
    BY <1>4, <2>2 DEF Ptrs
  <2>4. jn[t].del = n
    BY <1>3, <2>2, <2>3
  <2>5. CASE pc[t] # "jan_clearprev"
    <3>1. WeakOnGap(t)
      BY <2>1, <2>5 DEF Gap, WeakOnGap
    <3> QED BY <2>4, <3>1 DEF WeakHolders
  <2>6. CASE pc[t] = "jan_clearprev"
    <3>1. jn[t].del = Null
      BY <2>6, SafeParts DEF OrderInv, Local, Knows, JanitorOrdered
    <3> QED BY <2>3, <3>1, HeapAssumption DEF Nodes, Null
  <2> QED BY <2>5, <2>6
<1> QED BY <1>5, <1>6

\* what a step of t can be that brings it closer to a mutable reference
Trying == {"tgm_strong", "tgm_again", "mutref"}
MutFrom(t) ==
  /\ pc'[t] \in Trying => TryGetMutWeak(t) \/ TryGetMutStrong(t) \/ TryGetMutAgain(t)
  /\ op'[t].f = "upgrade" => op[t].f = "upgrade" \/ \E c \in Calls : c[2] = "upgrade"

(* Only try_get_mut comes to its loads, and only upgrade begins an upgrade. *)
LEMMA MutSteps ==
  ASSUME TypeOK, NEW t \in Threads, AnyStep(t)
  PROVE  MutFrom(t)
<1>k. /\ op \in [Threads -> CallFrames] /\ pc \in [Threads -> Labels] /\ av[t] \in AdvanceFrames
      /\ pd[t] \in PayloadFrames /\ jn[t] \in JanitorFrames /\ dr[t] \in DropFrames
  BY DEF TypeOK
<1>i. IdleOp.f = "none"
  BY DEF IdleOp
<1>o. op' = op => (op'[t].f = "upgrade" => op[t].f = "upgrade")
  OBVIOUS
<1>n. ASSUME pc'[t] \notin Trying, op'[t].f = "upgrade" => op[t].f = "upgrade" \/ \E c \in Calls : c[2] = "upgrade"
      PROVE  MutFrom(t)
  BY <1>n DEF MutFrom
<1>f. \A v : op' = [op EXCEPT ![t] = v] => op'[t] = v
  BY <1>k
<1> USE DEF locals
<1>1. CASE AdvanceStep(t)
  <2>1. pc'[t] \notin Trying
    BY <1>1, <1>k
     DEF AdvanceStep, AdvanceLoad, AdvanceInc, AdvanceReload, AdvanceWeakInc, AdvanceDec, AdvanceWeakDec,
     WeakLeaveStart, PayloadMark, StrongLoad, StrongIncWeak, StrongCas, StrongRaceDecWeak, StrongRecheck, StrongUndo,
     StrongUndoDecWeak, StrongDecWeakB, StrongLeaveStart, StrongDecWeakA, PayloadDrop, Goto, ReturnAdvance, TryStrong,
     RetryAdvance, StartPayloadDrop, AdvanceFrames, PayloadFrames, Trying
  <2>2. op'[t].f = op[t].f
    <3>1. PayloadDrop(t) => op'[t].f = op[t].f
      BY <1>k DEF PayloadDrop, DropPayload, CallFrames
    <3> QED BY <1>1, <1>k, <3>1
     DEF AdvanceStep, AdvanceLoad, AdvanceInc, AdvanceReload, AdvanceWeakInc, AdvanceDec, AdvanceWeakDec,
     WeakLeaveStart, PayloadMark, StrongLoad, StrongIncWeak, StrongCas, StrongRaceDecWeak, StrongRecheck, StrongUndo,
     StrongUndoDecWeak, StrongDecWeakB, StrongLeaveStart, StrongDecWeakA
  <2> QED BY <1>n, <2>1, <2>2
<1>2. CASE JanitorStep(t)
  <2>1. pc'[t] \notin Trying
    BY <1>2, <1>k DEF JanitorStep, JanitorLockStart, JanitorSweep, JanitorCleanup, JanitorUnlockStart, JanitorStrong,
     JanitorSetNext, JanitorCheckAdvance, JanitorFinal, JanitorDelete, JanitorFree, JanitorClearPrev,
     JanitorUnlink, JanitorCarry, JanitorUncarry, Janitor, Goto, ReturnJanitor, JanitorFrames, Trying
  <2>2. op'[t].f = op[t].f
    <3>1. ASSUME JanitorFree(t) PROVE op'[t].f = op[t].f
      BY <3>1, <1>k DEF JanitorFree, Deallocate, DropPayload, CallFrames
    <3> QED BY <1>2, <3>1 DEF JanitorStep, JanitorLockStart, JanitorSweep, JanitorCleanup, JanitorUnlockStart, JanitorStrong,
     JanitorSetNext, JanitorCheckAdvance, JanitorFinal, JanitorDelete, JanitorClearPrev,
     JanitorUnlink, JanitorCarry, JanitorUncarry
  <2> QED BY <1>n, <2>1, <2>2
<1>3. CASE DropStep(t)
  <2>1. pc'[t] \notin Trying
    BY <1>3, <1>k DEF DropStep, DropStrongDec, DropWeakLoad, DropWeakNext, ClaimTeardown, DropWeakCas, DropWeakFree,
     StartDropWeak, DropWeakRound, StartAdvance, ReturnDrop, StartPayloadDrop, Goto, DropFrames, Trying
  <2>2. op'[t].f = op[t].f
    <3>1. DropWeakFree(t) => op'[t].f = op[t].f
      <4>1. ASSUME NEW s PROVE op' = [op EXCEPT ![t].sole = TRUE, ![t].stolen = s] => op'[t].f = op[t].f
        BY <1>k DEF CallFrames
      <4> QED BY <4>1 DEF DropWeakFree
    <3> QED BY <1>3, <1>k, <3>1 DEF DropStep, DropStrongDec, DropWeakLoad, DropWeakNext, ClaimTeardown, DropWeakCas
  <2> QED BY <1>n, <2>1, <2>2
<1>4. CASE UpdateStep(t)
  <2>1. pc'[t] \notin Trying
    BY <1>4, <1>k DEF UpdateStep, UpdateNext, PrepareLink, RcuCancel, UpdateWeakInc, UpdateCas, UpdateFail, UpdateMark,
     UpdateDec, UpdateDecWeak, UpdateDone, UpdateAgain, StartAdvance, StartPayloadDrop, Goto, Trying
  <2>2. op'[t].f = op[t].f
    BY <1>4, <1>k DEF UpdateStep, UpdateNext, PrepareLink, RcuCancel, UpdateWeakInc, UpdateCas, UpdateFail, UpdateMark,
     UpdateDec, UpdateDecWeak, UpdateDone, CallFrames
  <2> QED BY <1>n, <2>1, <2>2
<1>5. CASE UpgradeStep(t)
  <2>1. pc'[t] \notin Trying
    BY <1>5, <1>k DEF UpgradeStep, UpgradeLoadStrong, UpgradeLoadNext, UpgradeIncWeak, UpgradeCas, UpgradeRaceDecWeak,
     UpgradeCheck, UpgradeUndo, UpgradeUndoDecWeak, UpgradeDone, UpgradeAgain, StartAdvance, StartDropWeak, DropWeakRound,
     Goto, Trying
  <2>2. op'[t].f = op[t].f
    BY <1>5, <1>k DEF UpgradeStep, UpgradeLoadStrong, UpgradeLoadNext, UpgradeIncWeak, UpgradeCas, UpgradeRaceDecWeak,
     UpgradeCheck, UpgradeUndo, UpgradeUndoDecWeak, UpgradeDone, CallFrames
  <2> QED BY <1>n, <2>1, <2>2
<1>6. CASE ApiStep(t)
  <2>1. pc'[t] \in Trying => TryGetMutWeak(t) \/ TryGetMutStrong(t) \/ TryGetMutAgain(t)
    BY <1>6, <1>k DEF ApiStep, GetLoad, GetDone, AfterReload, ReloadAgain, SharedGetLoad,
     SharedGetInc, SharedGetNext, SharedGetStrong, SharedGetCas, SharedGetRecheck, SharedGetLight, SharedGetDec,
     SharedGetClone, FinishReading, Return, StartAdvance, StartDropStrong, Goto, Trying
  <2>2. op'[t].f = op[t].f \/ op'[t].f = "none"
    BY <1>6, <1>k, <1>i DEF ApiStep, GetLoad, GetDone, TryGetMutWeak, TryGetMutStrong, TryGetMutAgain, SharedGetLoad,
     SharedGetInc, SharedGetNext, SharedGetStrong, SharedGetCas, SharedGetRecheck, SharedGetLight, SharedGetDec,
     SharedGetClone, FinishReading, Return, CallFrames
  <2> QED BY <2>1, <2>2 DEF MutFrom
<1>7. CASE Call(t)
  <2>1. pc'[t] \notin Trying
    BY <1>7, <1>k DEF Call, Clone, CloneWeak, Upgrade, Update, Rcu, DropShift, DropShiftWeak, Reload, SharedGet,
     StartAdvance, StartDropStrong, StartDropWeak, DropWeakRound, Goto, Trying, Enter, Admitted
  <2>2. ASSUME NEW f, NEW h, NEW o, NEW v, Enter(t, f, h, o, v) PROVE op'[t].f = f /\ <<t, f, h, o>> \in Calls
    <3>1. op'[t] = [IdleOp EXCEPT !.f = f, !.hnd = h, !.out = o, !.val = v, !.since = count]
      BY <2>2, <1>k DEF Enter
    <3>2. [IdleOp EXCEPT !.f = f, !.hnd = h, !.out = o, !.val = v, !.since = count].f = f
      BY DEF IdleOp
    <3> QED BY <2>2, <3>1, <3>2 DEF Enter, Admitted
  <2>3. ASSUME NEW f, NEW h, NEW o, CloneWeak(t, f, h, o) PROVE op'[t].f = op[t].f
    BY <2>3 DEF CloneWeak
  <2>4. ASSUME NEW h, NEW o, Upgrade(t, h, o) PROVE \E c \in Calls : c[2] = "upgrade"
    <3>1. <<t, "upgrade", h, o>> \in Calls
      BY <2>2, <2>4 DEF Upgrade
    <3> QED BY <3>1
  <2>5. ASSUME NEW h, NEW o, op'[t].f = "upgrade" 
        PROVE  ~Clone(t, h, o) /\ ~Update(t, h) /\ ~Rcu(t, h) /\ ~DropShiftWeak(t, h) /\ ~SharedGet(t, h)
    <3>1. ASSUME Clone(t, h, o) PROVE op'[t].f = "clone"
      BY <2>2, <3>1 DEF Clone
    <3>2. ASSUME Update(t, h) PROVE op'[t].f = "update"
      BY <2>2, <3>2 DEF Update
    <3>3. ASSUME Rcu(t, h) PROVE op'[t].f = "rcu"
      BY <2>2, <3>3 DEF Rcu
    <3>4. ASSUME DropShiftWeak(t, h) PROVE op'[t].f = "dropWeak"
      BY <2>2, <3>4 DEF DropShiftWeak
    <3>5. ASSUME SharedGet(t, h) PROVE op'[t].f = "sharedGet"
      BY <2>2, <3>5 DEF SharedGet
    <3> QED BY <2>5, <3>1, <3>2, <3>3, <3>4, <3>5
  <2>6. ASSUME NEW h, NEW f, op'[t].f = "upgrade" PROVE ~DropShift(t, f, h) /\ ~Reload(t, f, h)
    BY <2>2, <2>6 DEF DropShift, Reload
  <2>7. op'[t].f = "upgrade" => op[t].f = "upgrade" \/ \E c \in Calls : c[2] = "upgrade"
    BY <1>7, <2>3, <2>4, <2>5, <2>6 DEF Call
  <2> QED BY <1>n, <2>1, <2>7
<1> QED BY <1>1, <1>2, <1>3, <1>4, <1>5, <1>6, <1>7 DEF AnyStep, Step

(* Nothing appears on the left of a node.                                  *)
LEMMA LeftmostStays ==
  ASSUME SafeInv, NEW u \in Threads, AnyStep(u), NEW n \in Nodes, Live(n), Leftmost(n)
  PROVE  \A m \in Nodes : mem'[m] = "live" => ~(stamp'[m] < stamp'[n])
<1>1. /\ Grows /\ Listed /\ stamp \in [Nodes -> Nat] /\ count \in Nat /\ OrderInv
  BY StepFacts, SafeParts, NodesTyped
<1>2. \A m \in Nodes : Live(m) => stamp'[m] = stamp[m]
  BY <1>1 DEF Listed, Grows
<1>3. stamp[n] <= count
  BY <1>1 DEF OrderInv, ChainOrdered
<1>4. ASSUME NEW m \in Nodes, mem'[m] = "live", ~Live(m) PROVE ~(stamp'[m] < stamp'[n])
  <2>1. UpdateCas(u) /\ CanLink(item[u], op[u].nw) /\ m = op[u].val
    BY <1>4, LiveFrom
  <2>2. Links(u, item[u], op[u].val)
    BY <1>1, <2>1, UpdateLinks
  <2>3. stamp'[m] = count + 1
    BY <1>1, <1>4, <2>1, <2>2 DEF Links
  <2> QED BY <1>1, <1>2, <1>3, <2>3
<1> QED BY <1>2, <1>4 DEF Leftmost, Before

(* The flag havePrev of a live node is down only where nothing is left of  *)
(* it.                                                                     *)
LEMMA NoPrevLeftmost ==
  ASSUME SafeInv, NEW n \in Nodes, Live(n), ~weak[n].havePrev
  PROVE  Leftmost(n)
<1>1. Listed /\ Flagged /\ \A t \in Threads : JanitorKnows(t)
  BY SafeParts
<1>2. ASSUME Adjacent(n, Null) PROVE Leftmost(n)
  BY <1>2 DEF Adjacent, Leftmost
<1>3. CASE \E t \in Threads : pc[t] = "jan_unlink" /\ jn[t].right = n /\ jn[t].del = Null
  BY <1>1, <1>2, <1>3 DEF JanitorKnows
<1>4. CASE prev[n] = Null /\ \A t \in Threads : ~(Gap(t) /\ jn[t].right = n)
  BY <1>1, <1>2, <1>4 DEF Listed
<1>5. CASE prev[n] = Null /\ \E t \in Threads : Gap(t) /\ jn[t].right = n
  BY <1>1, <1>5 DEF Gap, JanitorKnows, Freeing
<1> QED BY <1>1, <1>3, <1>4, <1>5 DEF Flagged

(* A count of one is the count of the reference that try_get_mut has.      *)
LEMMA OneStrong ==
  ASSUME SafeInv, NEW t \in Threads, pc[t] = "tgm_strong", strong[item[t]] = 1
  PROVE  OnlyKeeper(t, item[t])
<1>1. item[t] \in Nodes /\ HeldLive(t) /\ handle \in [Handles -> HandleStates]
  BY SafeParts, NodesTyped
<1>2. StrongOnItem(t) /\ Live(item[t])
  BY <1>1 DEF StrongOnItem, At, HeldLive
<1>3. <<"item", t>> \in StrongHolders(item[t])
  BY <1>1, <1>2, StrongHolderOf
<1>4. IsFiniteSet(StrongHolders(item[t])) /\ Cardinality(StrongHolders(item[t])) <= 1
  <2>1. LiveStrong(strong[item[t]]) = Cardinality(StrongHolders(item[t])) /\ strong[item[t]] # STRONG_DROPPED
    BY <1>1, <1>2, <1>3, StrongKnown
  <2>2. Cardinality(StrongHolders(item[t])) = 1
    BY <2>1 DEF LiveStrong
  <2> QED BY <1>1, <2>2, HoldersOf
<1>5. \A x \in StrongHolders(item[t]) : x = <<"item", t>>
  BY <1>3, <1>4, OnlyOne
<1>6. ASSUME NEW h \in Handles, handle[h].kind = "strong", handle[h].node = item[t] PROVE FALSE
  <2>1. <<"handle", h>> \in StrongHolders(item[t])
    BY <1>1, <1>6, StrongHolderOf
  <2> QED BY <1>5, <2>1
<1>7. ASSUME NEW u \in Threads \ {t}, Keeps(u, item[t]) \/ Tries(u, item[t]) PROVE FALSE
  <2>1. \E x \in {"start", "item", "new", "nxt"} : <<x, u>> \in StrongHolders(item[t])
    BY <1>1, <1>7, StrongHolderOf DEF Keeps, Tries
  <2> QED BY <1>5, <2>1
<1> QED BY <1>6, <1>7 DEF OnlyKeeper

(* On the leftmost node every strong reference is kept or on trial, where  *)
(* nothing is upgraded: who advances comes from the left.                  *)
LEMMA KeepersAll ==
  ASSUME SafeInv, NEW t \in Threads, NEW n \in Nodes, Leftmost(n), OnlyKeeper(t, n), pc[t] \in {"tgm_again", "mutref"},
         \A u \in Threads : op[u].f # "upgrade"
  PROVE  StrongHolders(n) \subseteq {<<"item", t>>}
<1>1. /\ handle \in [Handles -> HandleStates] /\ \A u \in Threads : HeldLive(u) /\ Shape(u) /\ Places(u) /\ av[u].start \in Nodes
  BY SafeParts, NodesTyped
<1>2. \A h \in Handles : handle[h] # [kind |-> "strong", node |-> n]
  BY DEF OnlyKeeper
<1>3. ASSUME NEW u \in Threads, u # t 
      PROVE  /\ ~(StrongOnStart(u) /\ av[u].start = n) /\ ~(StrongOnNew(u) /\ op[u].val = n)
             /\ ~(pc[u] \in {"sg_recheck", "sg_light"} /\ op[u].nxt = n)
  BY <1>3 DEF OnlyKeeper, Keeps, Tries
<1>4. ASSUME NEW u \in Threads, u # t, StrongOnItem(u), item[u] = n PROVE FALSE
  <2>1. Undoing(u)
    BY <1>4 DEF OnlyKeeper, Keeps
  <2>2. pc[u] \in {"advs_recheck", "advs_undo"}
    BY <1>1, <2>1 DEF Undoing, Shape, Upgrading
  <2>3. StrongOnStart(u) /\ Before(av[u].start, item[u])
    BY <1>1, <2>2 DEF StrongOnStart, Places
  <2> QED BY <1>1, <1>4, <2>3 DEF HeldLive, Leftmost
<1>5. ~StrongOnStart(t) /\ ~StrongOnNew(t) /\ pc[t] \notin {"sg_recheck", "sg_light"}
  BY DEF StrongOnStart, StrongOnNew, At, Janitoring
<1> QED BY <1>2, <1>3, <1>4, <1>5 DEF StrongHolders

(* A reference that comes to a node is copied from one, comes from the     *)
(* left, is upgraded, or is the node's first.                              *)
LEMMA KeeperStays ==
  ASSUME SafeInv, NEW t \in Threads, pc[t] \in {"tgm_again", "mutref"}, Leftmost(item[t]), OnlyKeeper(t, item[t]),
         \A v \in Threads : op[v].f # "upgrade",
         NEW u \in Threads, u # t, AnyStep(u)
  PROVE  /\ \A h \in Handles : ~(handle'[h].kind = "strong" /\ handle'[h].node = item[t])
         /\ \A v \in Threads \ {t} : ~Keeps(v, item[t])' /\ ~Tries(v, item[t])'
<1>n. PICK n \in Nodes : n = item[t]
  BY SafeParts, NodesTyped
<1>1. /\ TypeOK /\ OrderInv /\ Grows /\ \A v \in Threads \ {u} : Still(v)
      /\ HeldLive(t) /\ item'[t] = n /\ handle \in [Handles -> HandleStates]
      /\ \A v \in Threads : Shape(v) /\ Places(v) /\ HeldLive(v) /\ av[v].start \in Nodes
  BY <1>n, StepFacts, SafeParts, NodesTyped DEF Still
<1>2. StrongOnItem(t) /\ Live(n)
  BY <1>n, <1>1 DEF StrongOnItem, At, HeldLive
<1>3. ~DropWeakFree(u)
  <2>1. ASSUME DropWeakFree(u) PROVE FALSE
    <3>1. pc[u] = "dw_free"
      BY <2>1 DEF DropWeakFree
    <3> QED BY <1>2, <3>1, Alone DEF Bare
  <2> QED BY <2>1
<1>4. \A v \in Threads \ {t} : ~Keeps(v, n) /\ ~Tries(v, n)
  BY <1>n DEF OnlyKeeper
<1>5. \A h \in Handles : ~(handle[h].kind = "strong" /\ handle[h].node = n)
  BY <1>n DEF OnlyKeeper
<1>6. Traced(u, n)
  BY <1>1, <1>3, AllTraced
<1>7. \A m \in Nodes : Live(m) => ~Before(m, n)
  BY <1>n DEF Leftmost
<1>8. ~Gained(u, n)
  <2>1. ~Keeps(u, n) /\ ~HandleOn(n) /\ ~Tries(u, n)
    BY <1>4, <1>5 DEF HandleOn
  <2>2. ~(pc[u] = "advs_cas" /\ n = item[u])
    <3>1. ASSUME pc[u] = "advs_cas" PROVE StrongOnStart(u) /\ Before(av[u].start, item[u])
      BY <1>1, <3>1 DEF StrongOnStart, Places
    <3> QED BY <1>1, <1>7, <3>1 DEF HeldLive
  <2>3. pc[u] # "upg_cas"
    BY <1>1 DEF Shape, Upgrading
  <2>4. ~(UpdateCas(u) /\ CanLink(item[u], op[u].nw) /\ n = op[u].val)
    <3>1. ASSUME UpdateCas(u), CanLink(item[u], op[u].nw) PROVE mem[op[u].val] = "private"
      BY <1>1, <3>1, UpdateLinks DEF Links
    <3> QED BY <1>2, <3>1 DEF Live
  <2> QED BY <2>1, <2>2, <2>3, <2>4 DEF Gained
<1>9. ~(pc[u] = "sg_cas" /\ n = op[u].nxt)
  <2>1. ASSUME pc[u] = "sg_cas", n = op[u].nxt PROVE FALSE
    <3>1. Base(u) \in Nodes /\ Kept(Base(u)) /\ Before(Base(u), n)
      BY <1>1, <2>1, TriedRight
    <3>2. Live(Base(u))
      BY <3>1, KeptLive
    <3> QED BY <1>7, <3>1, <3>2
  <2> QED BY <2>1
<1>10. ~Keeps(u, n)' /\ ~Tries(u, n)'
  BY <1>4, <1>6, <1>8, <1>9 DEF Traced
<1>11. ASSUME NEW v \in Threads, v # t, v # u PROVE ~Keeps(v, n)' /\ ~Tries(v, n)'
  BY <1>1, <1>4, <1>11, OthersKeep
<1>12. ASSUME NEW h \in Handles, handle'[h].kind = "strong", handle'[h].node = n PROVE FALSE
  <2>1. CASE handle'[h] = handle[h]
    BY <1>5, <1>12, <2>1
  <2>2. CASE handle'[h] # handle[h]
    <3>1. ~Call(u)
      BY <1>1, <1>12, <2>2, CallHandles
    <3>2. ~Return(u)
      BY <1>1, <1>4, <1>12, <2>2, ReturnHandles
    <3>3. Step(u)
      BY <3>1 DEF AnyStep
    <3>4. handle' = handle
      BY <1>1, <3>2, <3>3, HandlesStay
    <3> QED BY <2>2, <3>4
  <2> QED BY <2>1, <2>2
<1>13. \A v \in Threads \ {t} : ~Keeps(v, n)' /\ ~Tries(v, n)'
  BY <1>10, <1>11
<1> QED BY <1>n, <1>1, <1>12, <1>13 DEF Keeps, Tries

(* A thread whose call refers to nothing, where another one has a mutable  *)
(* reference.                                                              *)
LEMMA OnlyBare ==
  ASSUME SafeInv, NEW t \in Threads, pc[t] = "mutref", OnlyReference(t)
  PROVE  /\ item[t] \in Nodes /\ Live(item[t])
         /\ \A u \in Threads \ {t} : Bare(u) /\ pc[u] \in {"idle", "ret"}
         /\ \A h \in Handles : handle[h].kind \notin {"strong", "weak"}
<1>t. /\ \A u \in Threads : item[u] \in Nodes /\ av[u].start \in Nodes /\ av[u].nxt \in Nodes /\ op[u].nxt \in Nodes /\ op[u].val \in Ptrs
      /\ handle \in [Handles -> HandleStates]
  BY SafeParts, NodesTyped
<1>1. StrongOnItem(t) /\ Live(item[t])
  <2>1. StrongOnItem(t)
    BY DEF StrongOnItem, At
  <2> QED BY <2>1, SafeParts DEF HeldLive
<1>2. ASSUME NEW n \in Nodes, Live(n)
      PROVE  StrongHolders(n) \subseteq {<<"item", t>>} /\ WeakHolders(n) \subseteq {<<"group", n>>}
  BY <1>2 DEF OnlyReference
<1>3. ASSUME NEW u \in Threads \ {t} PROVE Bare(u)
  <2>1. HeldLive(u)
    BY SafeParts
  <2>2. ~StrongOnStart(u)
    <3>1. ASSUME StrongOnStart(u) PROVE FALSE
      <4>1. <<"start", u>> \in StrongHolders(av[u].start)
        BY <1>t, <3>1, StrongHolderOf
      <4>2. Live(av[u].start)
        BY <2>1, <3>1 DEF HeldLive
      <4> QED BY <1>2, <1>t, <4>1, <4>2
    <3> QED BY <3>1
  <2>3. ~StrongOnItem(u)
    <3>1. ASSUME StrongOnItem(u) PROVE FALSE
      <4>1. <<"item", u>> \in StrongHolders(item[u])
        BY <1>t, <3>1, StrongHolderOf
      <4>2. Live(item[u])
        BY <2>1, <3>1 DEF HeldLive
      <4> QED BY <1>2, <1>t, <4>1, <4>2
    <3> QED BY <3>1
  <2>4. ~StrongOnNew(u)
    <3>1. StrongOnNew(u) => op[u].val # Null
      <4>1. NewNode(pc[u], item[u], av[u], pd[u], op[u]) /\ Shape(u) /\ Frames(pc[u], av[u], pd[u])
        BY SafeParts DEF OrderInv, Local, Knows
      <4>2. jn[u].ret \in {"idle", "dw_weak", "upd_done", "get_done"} /\ pd[u].ret \in {"idle", "advs_a_decw", "dw_cas", "upd_decw"}
        BY SafeParts, NodesTyped DEF TypeOK, JanitorFrames, PayloadFrames
      <4>3. StrongOnNew(u) => pc[u] \in {"upd_mark", "upd_dec", "upd_decw"} \/ pd[u].ret = "upd_decw"
        BY <4>2 DEF StrongOnNew, At
      <4>4. StrongOnNew(u) => Linked(pc[u], pd[u])
        BY <4>3 DEF Linked
      <4> QED BY <4>1, <4>4 DEF NewNode
    <3>2. StrongOnNew(u) => op[u].val \in Nodes
      BY <1>t, <3>1 DEF Ptrs
    <3>3. ASSUME StrongOnNew(u) PROVE FALSE
      <4>1. <<"new", u>> \in StrongHolders(op[u].val)
        BY <3>2, <3>3, StrongHolderOf
      <4>2. Live(op[u].val)
        BY <2>1, <3>3 DEF HeldLive
      <4> QED BY <1>2, <3>2, <3>3, <4>1, <4>2
    <3> QED BY <3>3
  <2>5. pc[u] \notin {"sg_recheck", "sg_light"}
    <3>1. ASSUME pc[u] \in {"sg_recheck", "sg_light"} PROVE FALSE
      <4>1. <<"nxt", u>> \in StrongHolders(op[u].nxt)
        BY <1>t, <3>1, StrongHolderOf
      <4>2. Live(op[u].nxt)
        BY <2>1, <3>1 DEF HeldLive
      <4> QED BY <1>2, <1>t, <4>1, <4>2
    <3> QED BY <3>1
  <2>6. ~WeakOnStart(u)
    <3>1. WeakOnStart(u) => <<"start", u>> \in WeakHolders(av[u].start)
      BY DEF WeakHolders
    <3> QED BY <1>2, <1>t, <2>1, <3>1 DEF HeldLive
  <2>7. ~WeakOnItem(u)
    <3>1. WeakOnItem(u) => <<"item", u>> \in WeakHolders(item[u])
      BY DEF WeakHolders
    <3> QED BY <1>2, <1>t, <2>1, <3>1 DEF HeldLive
  <2>8. ~WeakForGroup(u)
    <3>1. WeakForGroup(u) => <<"extra", u>> \in WeakHolders(item[u])
      BY DEF WeakHolders
    <3> QED BY <1>2, <1>t, <2>1, <3>1 DEF HeldLive
  <2>9. pc[u] \notin {"adv_dec", "adv_unweak"}
    <3>1. pc[u] \in {"adv_dec", "adv_unweak"} => <<"nxt", u>> \in WeakHolders(av[u].nxt)
      BY DEF WeakHolders
    <3> QED BY <1>2, <1>t, <2>1, <3>1 DEF HeldLive
  <2> QED BY <2>2, <2>3, <2>4, <2>5, <2>6, <2>7, <2>8, <2>9 DEF Bare
<1>4. ASSUME NEW h \in Handles PROVE handle[h].kind \notin {"strong", "weak"}
  <2>1. handle[h].kind \in {"strong", "weak"} => handle[h].node \in Nodes /\ Live(handle[h].node)
    BY <1>t, SafeParts DEF HandlesLive, HandleStates
  <2>2. handle[h].kind # "strong"
    BY <1>2, <1>t, <2>1, StrongHolderOf
  <2>3. handle[h].kind # "weak"
    <3>1. ASSUME handle[h].kind = "weak" PROVE <<"handle", h>> \in WeakHolders(handle[h].node)
      <4>1. handle[h] = [kind |-> "weak", node |-> handle[h].node]
        BY <1>t, <3>1 DEF HandleStates
      <4> QED BY <4>1 DEF WeakHolders
    <3> QED BY <1>2, <2>1, <3>1
  <2> QED BY <2>2, <2>3
<1>5. ASSUME NEW u \in Threads \ {t} PROVE pc[u] \in {"idle", "ret"}
  <2>1. pc[u] \in {"idle", "ret", "dw_free"}
    BY <1>3, <1>4, BareIsDone
  <2>2. pc[u] # "dw_free"
    <3>1. pc[u] = "dw_free" => Bare(t)
      BY Alone
    <3> QED BY <1>1, <3>1 DEF Bare
  <2> QED BY <2>1, <2>2
<1> QED BY <1>t, <1>1, <1>3, <1>4, <1>5

(* What the holders of a node are after a step, with the threads that have *)
(* none apart from t.                                                      *)
LEMMA OnlyRefers ==
  ASSUME NEW t \in Threads, NEW n \in Nodes,
         pc'[t] = "mutref",
         \A u \in Threads \ {t} : ~StrongOnStart(u)' /\ ~StrongOnItem(u)' /\ ~StrongOnNew(u)' /\ ~WeakOnStart(u)'
                                  /\ ~WeakOnItem(u)' /\ ~WeakForGroup(u)' /\ ~WeakOnGap(u)'
                                  /\ pc'[u] \notin {"sg_recheck", "sg_light", "adv_dec", "adv_unweak"},
         \A h \in Handles : handle'[h].kind \notin {"strong", "weak"},
         \A m \in Nodes : mem'[m] = "live" => prev'[m] # n
  PROVE  StrongHolders(n)' \subseteq {<<"item", t>>} /\ WeakHolders(n)' \subseteq {<<"group", n>>}
<1>1. /\ ~StrongOnStart(t)' /\ ~StrongOnNew(t)' /\ ~WeakOnStart(t)' /\ ~WeakOnItem(t)' /\ ~WeakForGroup(t)' /\ ~WeakOnGap(t)'
      /\ pc'[t] \notin {"sg_recheck", "sg_light", "adv_dec", "adv_unweak"}
  BY DEF StrongOnStart, StrongOnNew, WeakOnStart, WeakOnItem, WeakForGroup, WeakOnGap, At, Janitoring
<1>2. \A h \in Handles : handle'[h] # [kind |-> "strong", node |-> n] /\ handle'[h] # [kind |-> "weak", node |-> n]
  OBVIOUS
<1>3. StrongHolders(n)' \subseteq {<<"item", t>>}
  BY <1>1, <1>2 DEF StrongHolders
<1>4. WeakHolders(n)' \subseteq {<<"group", n>>}
  BY <1>1, <1>2 DEF WeakHolders
<1> QED BY <1>3, <1>4

(* A call that refers to nothing gives no handle.                          *)
LEMMA BareReturns ==
  ASSUME TypeOK, NEW u \in Threads, Shape(u), Bare(u), Return(u), \A h \in Handles : handle[h].kind \notin {"strong", "weak"}
  PROVE  \A h \in Handles : handle'[h].kind \notin {"strong", "weak"}
<1>1. ASSUME NEW h \in Handles, handle'[h].kind = "strong" PROVE FALSE
  <2>1. Keeps(u, handle'[h].node)
    BY <1>1, ReturnHandles
  <2> QED BY <2>1 DEF Keeps, Bare
<1>2. ASSUME NEW h \in Handles, handle'[h].kind = "weak" PROVE FALSE
  <2>1. handle' = Result(u) /\ handle \in [Handles -> HandleStates] /\ NoHandle.kind # "weak"
    BY DEF Return, TypeOK, NoHandle
  <2>2. CASE op[u].f \in {"clone", "upgrade"}
    <3>1. handle' = [handle EXCEPT ![op[u].out] = IF op[u].ok THEN [kind |-> "strong", node |-> item[u]] ELSE NoHandle]
      BY <2>1, <2>2 DEF Result
    <3> QED BY <1>2, <2>1, <3>1
  <2>3. CASE op[u].f \in {"get", "reload", "tryGetMut", "update", "rcu"}
    <3>1. handle' = [handle EXCEPT ![op[u].hnd] = [kind |-> "strong", node |-> item[u]]]
      BY <2>1, <2>3 DEF Result
    <3> QED BY <1>2, <2>1, <3>1
  <2>4. CASE op[u].f \in {"drop", "dropWeak", "intoInner"}
    <3>1. handle' = [handle EXCEPT ![op[u].hnd] = NoHandle]
      BY <2>1, <2>4 DEF Result
    <3> QED BY <1>2, <2>1, <3>1
  <2>5. CASE op[u].f \notin {"clone", "upgrade", "get", "reload", "tryGetMut", "update", "rcu", "drop", "dropWeak", "intoInner"}
    BY <1>2, <2>1, <2>5 DEF Result
  <2> QED BY <2>2, <2>3, <2>4, <2>5
<1> QED BY <1>1, <1>2

(* The only reference stays the only one: the other threads can at most    *)
(* return.                                                                 *)
LEMMA OnlyStays ==
  ASSUME SafeInv, NEW t \in Threads, pc[t] = "mutref", OnlyReference(t), NEW u \in Threads, u # t, AnyStep(u)
  PROVE  OnlyReference(t)'
<1>1. /\ item[t] \in Nodes
      /\ \A v \in Threads \ {t} : Bare(v) /\ pc[v] \in {"idle", "ret"}
      /\ \A h \in Handles : handle[h].kind \notin {"strong", "weak"}
  BY OnlyBare
<1>2. Return(u)
  <2>1. ~Call(u)
    BY <1>1 DEF Call, Clone, CloneWeak, Upgrade, Update, Rcu, DropShift, DropShiftWeak, Reload, SharedGet, Borrow, Take
  <2>2. pc[u] # "idle"
    BY <2>1, StepAt
  <2> QED BY <1>1, <2>2, StepAt
<1>3. TypeOK /\ Shape(u) /\ \A v \in Threads \ {u} : Still(v)
  BY StepFacts, SafeParts, NodesTyped
<1>4. UNCHANGED <<next, prev, strong, weak, mem, stamp, count>> /\ pc'[u] = "idle"
  BY <1>2, <1>3 DEF Return, Goto, heap, TypeOK
<1>5. \A h \in Handles : handle'[h].kind \notin {"strong", "weak"}
  BY <1>1, <1>2, <1>3, BareReturns
<1>6. ASSUME NEW v \in Threads \ {t}
      PROVE  /\ ~StrongOnStart(v)' /\ ~StrongOnItem(v)' /\ ~StrongOnNew(v)' /\ ~WeakOnStart(v)'
             /\ ~WeakOnItem(v)' /\ ~WeakForGroup(v)' /\ ~WeakOnGap(v)'
             /\ pc'[v] \notin {"sg_recheck", "sg_light", "adv_dec", "adv_unweak"}
  <2>1. pc'[v] = "idle" \/ (pc'[v] = "ret" /\ Still(v))
    BY <1>1, <1>3, <1>4 DEF Still
  <2>2. CASE pc'[v] = "idle"
    <3>1. pd'[v].ret = "idle"
      <4>1. OrderInv'
        BY StepFacts
      <4>2. Frames(pc'[v], av'[v], pd'[v])
        BY <4>1 DEF OrderInv, Local, Knows
      <4> QED BY <2>2, <4>2 DEF Frames
    <3> QED BY <2>2, <3>1 DEF StrongOnStart, StrongOnItem, StrongOnNew, WeakOnStart, WeakOnItem, WeakForGroup, WeakOnGap, At, Janitoring
  <2>3. CASE pc'[v] = "ret" /\ Still(v)
    <3>1. pd'[v].ret = "idle"
      <4>1. OrderInv'
        BY StepFacts
      <4>2. Frames(pc'[v], av'[v], pd'[v])
        BY <4>1 DEF OrderInv, Local, Knows
      <4> QED BY <2>3, <4>2 DEF Frames
    <3>2. ~StrongOnItem(v)
      BY <1>1 DEF Bare
    <3>3. ~StrongOnItem(v)'
      BY <2>3, <3>1, <3>2 DEF StrongOnItem, At, Janitoring, Still
    <3> QED BY <2>3, <3>1, <3>3 DEF StrongOnStart, StrongOnNew, WeakOnStart, WeakOnItem, WeakForGroup, WeakOnGap, At, Janitoring
  <2> QED BY <2>1, <2>2, <2>3
<1>7. pc'[t] = "mutref" /\ item'[t] = item[t]
  BY <1>3 DEF Still
<1>8. stamp'[item'[t]] = count'
  BY <1>4, <1>7 DEF OnlyReference
<1>9. ASSUME NEW n \in Nodes, Live(n)'
      PROVE  StrongHolders(n)' \subseteq {<<"item", t>>} /\ WeakHolders(n)' \subseteq {<<"group", n>>}
  <2>1. Live(n)
    BY <1>4, <1>9 DEF Live
  <2>2. WeakHolders(n) \subseteq {<<"group", n>>}
    BY <2>1 DEF OnlyReference
  <2>3. ASSUME NEW m \in Nodes, mem[m] = "live", prev[m] = n PROVE FALSE
    <3>1. <<"link", m>> \in WeakHolders(n)
      BY <2>3 DEF WeakHolders
    <3> QED BY <2>2, <3>1
  <2>4. \A m \in Nodes : mem'[m] = "live" => prev'[m] # n
    BY <1>4, <2>3
  <2> QED BY <1>5, <1>6, <1>7, <2>4, OnlyRefers
<1> QED BY <1>8, <1>9 DEF OnlyReference

(* What the three loads of try_get_mut have found out makes its reference  *)
(* the only one.                                                           *)
LEMMA BecomesOnly ==
  ASSUME SafeInv, NEW t \in Threads, TryGetMutAgain(t), pc'[t] = "mutref", Leftmost(item[t]), OnlyKeeper(t, item[t]),
         \A u \in Threads : op[u].f # "upgrade"
  PROVE  OnlyReference(t)'
<1>i. PICK i \in Nodes : i = item[t]
  BY SafeParts, NodesTyped
<1>1. /\ TypeOK /\ Listed /\ OrderInv /\ i \in Nodes /\ HeldLive(t) /\ pc \in [Threads -> Labels]
      /\ handle \in [Handles -> HandleStates] /\ UsizeMax \in Nat /\ strong \in [Nodes -> 0..UsizeMax]
  BY <1>i, SafeParts, NodesTyped, HeapAssumption DEF TypeOK
<1>2. /\ pc[t] = "tgm_again" /\ weak[i].count = 1 /\ pc' = [pc EXCEPT ![t] = "mutref"]
      /\ UNCHANGED <<next, prev, strong, weak, mem, stamp, count, handle, item, av, pd, jn, dr, op>>
  BY <1>i, <1>1 DEF TryGetMutAgain, Goto, ReadOnly, heap, client, locals
<1>3. StrongOnItem(t) /\ Live(i)
  BY <1>i, <1>1, <1>2 DEF StrongOnItem, At, HeldLive
<1>4. WeakHolders(i) \subseteq {<<"group", i>>} /\ <<"group", i>> \in WeakHolders(i)
  <2>1. <<"item", t>> \in StrongHolders(i)
    BY <1>i, <1>1, <1>3, StrongHolderOf
  <2>2. LiveStrong(strong[i]) > 0
    <3>1. strong[i] \in 1..(UsizeMax - 2) /\ strong[i] # STRONG_DROPPED
      BY <1>1, <1>3, <2>1, StrongKnown
    <3> QED BY <1>1, <3>1 DEF LiveStrong
  <2>3. <<"group", i>> \in WeakHolders(i)
    BY <2>2 DEF WeakHolders
  <2>4. Cardinality(WeakHolders(i)) = 1
    BY <1>1, <1>2, <1>3, SafeParts DEF WeakExact
  <2>5. IsFiniteSet(WeakHolders(i)) /\ Cardinality(WeakHolders(i)) <= 1
    BY <1>1, <2>4, HoldersOf
  <2>6. \A x \in WeakHolders(i) : x = <<"group", i>>
    BY <2>3, <2>5, OnlyOne
  <2> QED BY <2>3, <2>6
<1>5. ASSUME NEW k \in Nodes, Live(k), Before(i, k) PROVE FALSE
  <2>1. PICK m \in Nodes : Live(m) /\ Adjacent(m, i)
    BY <1>1, <1>3, <1>5, RightNeighbour
  <2>2. <<"link", m>> \in WeakHolders(i) \/ \E u \in Threads : <<"gap", u>> \in WeakHolders(i)
    BY <1>1, <2>1, LinkedFrom
  <2> QED BY <1>4, <2>2
<1>6. \A n \in Nodes : Live(n) => n = i
  <2>1. \A n \in Nodes : Live(n) => Before(n, i) \/ Before(i, n) \/ n = i
    BY <1>1, <1>3, Line
  <2> QED BY <1>i, <1>5, <2>1 DEF Leftmost
<1>7. stamp[i] = count
  <2>1. ~HasNext(i)
    BY <1>1, <1>3, <1>5, Line
  <2> QED BY <1>1, <1>3, <2>1, NewestIsLast
<1>8. StrongHolders(i) \subseteq {<<"item", t>>}
  BY <1>i, <1>1, <1>2, KeepersAll
<1>9. ASSUME NEW u \in Threads \ {t} PROVE Bare(u) /\ pc[u] \notin Janitoring
  <2>0. HeldLive(u) /\ Shape(u) /\ item[u] \in Nodes /\ av[u].start \in Nodes /\ av[u].nxt \in Nodes /\ op[u].nxt \in Nodes /\ op[u].val \in Ptrs
    BY SafeParts, NodesTyped
  <2>1. ~StrongOnStart(u) /\ ~StrongOnItem(u) /\ pc[u] \notin {"sg_recheck", "sg_light"}
    <3>1. StrongOnStart(u) => av[u].start = i
      BY <1>6, <2>0 DEF HeldLive
    <3>2. StrongOnItem(u) => item[u] = i
      BY <1>6, <2>0 DEF HeldLive
    <3>3. pc[u] \in {"sg_recheck", "sg_light"} => op[u].nxt = i
      BY <1>6, <2>0 DEF HeldLive
    <3> QED BY <1>1, <1>8, <3>1, <3>2, <3>3, StrongHolderOf
  <2>2. ~StrongOnNew(u)
    <3>1. StrongOnNew(u) => op[u].val # Null
      <4>1. NewNode(pc[u], item[u], av[u], pd[u], op[u]) /\ Shape(u) /\ Frames(pc[u], av[u], pd[u])
        BY SafeParts DEF OrderInv, Local, Knows
      <4>2. jn[u].ret \in {"idle", "dw_weak", "upd_done", "get_done"} /\ pd[u].ret \in {"idle", "advs_a_decw", "dw_cas", "upd_decw"}
        BY SafeParts, NodesTyped DEF TypeOK, JanitorFrames, PayloadFrames
      <4>3. StrongOnNew(u) => pc[u] \in {"upd_mark", "upd_dec", "upd_decw"} \/ pd[u].ret = "upd_decw"
        BY <4>2 DEF StrongOnNew, At
      <4>4. StrongOnNew(u) => Linked(pc[u], pd[u])
        BY <4>3 DEF Linked
      <4> QED BY <4>1, <4>4 DEF NewNode
    <3>2. StrongOnNew(u) => op[u].val = i
      BY <1>6, <2>0, <3>1 DEF Ptrs, HeldLive
    <3> QED BY <1>1, <1>8, <3>2, StrongHolderOf
  <2>3. ~WeakOnStart(u)
    <3>1. WeakOnStart(u) /\ av[u].start = i => <<"start", u>> \in WeakHolders(i)
      BY DEF WeakHolders
    <3> QED BY <1>4, <1>6, <2>0, <3>1 DEF HeldLive
  <2>4. ~WeakOnItem(u)
    <3>1. WeakOnItem(u) /\ item[u] = i => <<"item", u>> \in WeakHolders(i)
      BY DEF WeakHolders
    <3> QED BY <1>4, <1>6, <2>0, <3>1 DEF HeldLive
  <2>5. ~WeakForGroup(u)
    <3>1. WeakForGroup(u) /\ item[u] = i => <<"extra", u>> \in WeakHolders(i)
      BY DEF WeakHolders
    <3> QED BY <1>4, <1>6, <2>0, <3>1 DEF HeldLive
  <2>6. pc[u] \notin {"adv_dec", "adv_unweak"}
    <3>1. pc[u] \in {"adv_dec", "adv_unweak"} /\ av[u].nxt = i => <<"nxt", u>> \in WeakHolders(i)
      BY DEF WeakHolders
    <3> QED BY <1>4, <1>6, <2>0, <3>1 DEF HeldLive
  <2>7. pc[u] \notin Janitoring
    BY <2>0, <2>1, <2>4 DEF StrongOnItem, WeakOnItem, At, Shape, Continues
  <2> QED BY <2>1, <2>2, <2>3, <2>4, <2>5, <2>6, <2>7 DEF Bare
<1>10. ASSUME NEW h \in Handles PROVE handle[h].kind \notin {"strong", "weak"}
  <2>1. handle[h].kind \in {"strong", "weak"} => handle[h].node = i
    BY <1>1, <1>6, SafeParts DEF HandlesLive, HandleStates
  <2>2. handle[h].kind # "strong"
    BY <1>i, <2>1 DEF OnlyKeeper
  <2>3. handle[h].kind # "weak"
    <3>1. handle[h] = [kind |-> "weak", node |-> i] => <<"handle", h>> \in WeakHolders(i)
      BY DEF WeakHolders
    <3> QED BY <1>1, <1>4, <2>1, <3>1 DEF HandleStates
  <2> QED BY <2>2, <2>3
<1>11. ASSUME NEW u \in Threads \ {t}
       PROVE  /\ ~StrongOnStart(u)' /\ ~StrongOnItem(u)' /\ ~StrongOnNew(u)' /\ ~WeakOnStart(u)'
              /\ ~WeakOnItem(u)' /\ ~WeakForGroup(u)' /\ ~WeakOnGap(u)'
              /\ pc'[u] \notin {"sg_recheck", "sg_light", "adv_dec", "adv_unweak"}
  <2>1. pc'[u] = pc[u] /\ UNCHANGED <<item, av, pd, jn, dr, op>>
    BY <1>1, <1>2, <1>11
  <2>2. Bare(u) /\ pc[u] \notin Janitoring
    BY <1>9, <1>11
  <2>3. ~StrongOnStart(u)' /\ ~StrongOnItem(u)' /\ ~StrongOnNew(u)'
    BY <2>1, <2>2 DEF Bare, StrongOnStart, StrongOnItem, StrongOnNew, At
  <2>4. ~WeakOnStart(u)' /\ ~WeakOnItem(u)' /\ ~WeakForGroup(u)'
    BY <2>1, <2>2 DEF Bare, WeakOnStart, WeakOnItem, WeakForGroup, At
  <2>5. ~WeakOnGap(u)'
    BY <2>1, <2>2 DEF WeakOnGap, Janitoring
  <2> QED BY <2>1, <2>2, <2>3, <2>4, <2>5 DEF Bare
<1>12. ASSUME NEW m \in Nodes, mem'[m] = "live", prev'[m] = i PROVE FALSE
  <2>1. <<"link", m>> \in WeakHolders(i)
    BY <1>2, <1>12 DEF WeakHolders
  <2> QED BY <1>4, <2>1
<1>13. pc'[t] = "mutref" /\ handle' = handle
  BY <1>1, <1>2
<1>14. StrongHolders(i)' \subseteq {<<"item", t>>} /\ WeakHolders(i)' \subseteq {<<"group", i>>}
  BY <1>2, <1>10, <1>11, <1>12, <1>13, OnlyRefers
<1>15. item'[t] = i /\ stamp' = stamp /\ count' = count /\ mem' = mem
  BY <1>i, <1>2
<1> QED BY <1>6, <1>7, <1>14, <1>15 DEF OnlyReference, Live

(* What a thread in try_get_mut has found out holds after every step of    *)
(* another thread.                                                         *)
LEMMA MutKept ==
  ASSUME SafeInv, MutAlone, NoUpgrades, NEW t \in Threads, NEW u \in Threads, u # t, AnyStep(u)
  PROVE  /\ pc'[t] \in Trying => Leftmost(item[t])'
         /\ pc'[t] \in {"tgm_again", "mutref"} => OnlyKeeper(t, item[t])'
         /\ pc'[t] = "mutref" => OnlyReference(t)'
<1>1. pc'[t] = pc[t] /\ item'[t] = item[t] /\ item[t] \in Nodes
  BY StepFacts, SafeParts, NodesTyped DEF Still
<1>2. /\ \A v \in Threads : op[v].f # "upgrade"
      /\ pc[t] \in Trying => Leftmost(item[t])
      /\ pc[t] \in {"tgm_again", "mutref"} => OnlyKeeper(t, item[t])
      /\ pc[t] = "mutref" => OnlyReference(t)
  BY DEF MutAlone, Trying
<1>3. pc[t] \in Trying => Live(item[t])
  <2>1. pc[t] \in Trying => StrongOnItem(t)
    BY DEF Trying, StrongOnItem, At
  <2> QED BY <2>1, SafeParts DEF HeldLive
<1>4. ASSUME pc[t] \in Trying PROVE Leftmost(item[t])'
  <2>1. \A m \in Nodes : mem'[m] = "live" => ~(stamp'[m] < stamp'[item[t]])
    BY <1>1, <1>2, <1>3, <1>4, LeftmostStays
  <2> QED BY <1>1, <2>1 DEF Leftmost, Live, Before
<1>5. ASSUME pc[t] \in {"tgm_again", "mutref"} PROVE OnlyKeeper(t, item[t])'
  <2>1. Leftmost(item[t])
    BY <1>2, <1>5 DEF Trying
  <2>2. /\ \A h \in Handles : ~(handle'[h].kind = "strong" /\ handle'[h].node = item[t])
        /\ \A v \in Threads \ {t} : ~Keeps(v, item[t])' /\ ~Tries(v, item[t])'
    BY <1>2, <1>5, <2>1, KeeperStays
  <2> QED BY <1>1, <2>2 DEF OnlyKeeper
<1> QED BY <1>1, <1>2, <1>4, <1>5, OnlyStays DEF Trying

(* A keeper stays one, and a trier too, where only another program counter *)
(* moves.                                                                  *)
LEMMA KeepsStill ==
  ASSUME NEW u \in Threads, NEW i \in Nodes, pc'[u] = pc[u], UNCHANGED <<next, item, av, pd, jn, dr, op>>
  PROVE  /\ Keeps(u, i)' <=> Keeps(u, i)
         /\ Tries(u, i)' <=> Tries(u, i)
<1>1. StrongOnStart(u)' <=> StrongOnStart(u)
  BY DEF StrongOnStart
<1>2. StrongOnItem(u)' <=> StrongOnItem(u)
  BY DEF StrongOnItem, At
<1>3. StrongOnNew(u)' <=> StrongOnNew(u)
  BY DEF StrongOnNew, At
<1>4. Undoing(u)' <=> Undoing(u)
  BY DEF Undoing, HasNext
<1>5. Tries(u, i)' <=> Tries(u, i)
  BY <1>1 DEF Tries
<1> QED BY <1>1, <1>2, <1>3, <1>4, <1>5 DEF Keeps

(* What the three loads of try_get_mut find out, each in its turn.         *)
LEMMA MutFound ==
  ASSUME SafeInv, MutAlone, NoUpgrades, NEW t \in Threads, AnyStep(t)
  PROVE  /\ pc'[t] \in Trying => Leftmost(item[t])'
         /\ pc'[t] \in {"tgm_again", "mutref"} => OnlyKeeper(t, item[t])'
         /\ pc'[t] = "mutref" => OnlyReference(t)'
<1>1. TypeOK /\ item[t] \in Nodes /\ pc \in [Threads -> Labels] /\ weak[item[t]].havePrev \in BOOLEAN
  BY SafeParts, NodesTyped DEF TypeOK, WeakWords
<1>2. pc'[t] \in Trying => TryGetMutWeak(t) \/ TryGetMutStrong(t) \/ TryGetMutAgain(t)
  BY <1>1, MutSteps DEF MutFrom
<1>3. /\ \A v \in Threads : op[v].f # "upgrade"
      /\ pc[t] \in Trying => Leftmost(item[t])
      /\ pc[t] \in {"tgm_again", "mutref"} => OnlyKeeper(t, item[t])
  BY DEF MutAlone, Trying
<1>4. Live(item[t]) \/ pc[t] \notin Trying \cup {"tgm_weak"}
  <2>1. pc[t] \in Trying \cup {"tgm_weak"} => StrongOnItem(t)
    BY DEF Trying, StrongOnItem, At
  <2> QED BY <2>1, SafeParts DEF HeldLive
<1>5. ASSUME TryGetMutWeak(t) \/ TryGetMutStrong(t) \/ TryGetMutAgain(t)
      PROVE  /\ \A u \in Threads \ {t} : pc'[u] = pc[u]
             /\ UNCHANGED <<next, prev, strong, weak, mem, stamp, count, handle, item, av, pd, jn, dr, op>>
  BY <1>1, <1>5 DEF TryGetMutWeak, TryGetMutStrong, TryGetMutAgain, Goto, ReadOnly, heap, client, locals
<1>6. ASSUME TryGetMutWeak(t) \/ TryGetMutStrong(t) \/ TryGetMutAgain(t), Leftmost(item[t])
      PROVE  Leftmost(item[t])'
  BY <1>5, <1>6 DEF Leftmost, Live, Before
<1>7. ASSUME TryGetMutWeak(t) \/ TryGetMutStrong(t) \/ TryGetMutAgain(t), OnlyKeeper(t, item[t])
      PROVE  OnlyKeeper(t, item[t])'
  <2>1. PICK i \in Nodes : i = item[t]
    BY <1>1
  <2>2. item'[t] = i /\ handle' = handle
    BY <1>5, <1>7, <2>1
  <2>3. ASSUME NEW u \in Threads \ {t} PROVE ~Keeps(u, i)' /\ ~Tries(u, i)'
    <3>1. ~Keeps(u, i) /\ ~Tries(u, i)
      BY <1>7, <2>1 DEF OnlyKeeper
    <3> QED BY <1>5, <1>7, <2>1, <3>1, KeepsStill
  <2>4. \A h \in Handles : ~(handle[h].kind = "strong" /\ handle[h].node = i)
    BY <1>7, <2>1 DEF OnlyKeeper
  <2> QED BY <2>2, <2>3, <2>4 DEF OnlyKeeper
<1>8. CASE TryGetMutWeak(t)
  <2>1. pc'[t] \in Trying => pc'[t] = "tgm_strong" /\ SoleUser(weak[item[t]]) /\ pc[t] = "tgm_weak"
    BY <1>1, <1>8 DEF TryGetMutWeak, Goto, Trying
  <2>2. pc'[t] \in Trying => Leftmost(item[t])
    BY <1>1, <1>4, <2>1, NoPrevLeftmost DEF SoleUser
  <2> QED BY <1>6, <1>8, <2>1, <2>2 DEF Trying
<1>9. CASE TryGetMutStrong(t)
  <2>1. pc[t] = "tgm_strong" /\ (pc'[t] \in Trying => pc'[t] = "tgm_again" /\ strong[item[t]] = 1)
    BY <1>1, <1>9 DEF TryGetMutStrong, Goto, Trying
  <2>2. pc'[t] \in Trying => OnlyKeeper(t, item[t])
    BY <2>1, OneStrong
  <2> QED BY <1>3, <1>6, <1>7, <1>9, <2>1, <2>2 DEF Trying
<1>10. CASE TryGetMutAgain(t)
  <2>1. pc[t] = "tgm_again" /\ (pc'[t] \in Trying => pc'[t] = "mutref")
    BY <1>1, <1>10 DEF TryGetMutAgain, Goto, Trying
  <2>2. Leftmost(item[t]) /\ OnlyKeeper(t, item[t])
    BY <1>3, <2>1 DEF Trying
  <2>3. pc'[t] = "mutref" => OnlyReference(t)'
    BY <1>3, <1>10, <2>2, BecomesOnly
  <2> QED BY <1>6, <1>7, <1>10, <2>1, <2>2, <2>3 DEF Trying
<1>11. CASE pc'[t] \notin Trying
  BY <1>11 DEF Trying
<1> QED BY <1>2, <1>8, <1>9, <1>10, <1>11

(* Nobody has begun to try yet.                                            *)
LEMMA InitMut ==
  ASSUME Init
  PROVE  MutAlone
<1>1. \A t \in Threads : pc[t] = "idle" /\ op[t].f = "none"
  BY DEF Init, IdleOp
<1> QED BY <1>1 DEF MutAlone

(* Every step keeps it.                                                    *)
LEMMA NextMut ==
  ASSUME SafeInv, MutAlone, [Next]_vars
  PROVE  MutAlone'
<1>1. (\E t \in Threads : AnyStep(t)) \/ UNCHANGED vars
  BY DEF Next, Rest, AnyStep
<1>2. CASE UNCHANGED vars
  <2>1. /\ UNCHANGED <<next, prev, strong, weak, mem, stamp, count, handle, pc, item, av, pd, jn, dr, op>>
    BY <1>2 DEF vars, heap, client, locals
  <2>2. ASSUME NEW t \in Threads, OnlyKeeper(t, item[t]) PROVE OnlyKeeper(t, item[t])'
    <3>1. PICK i \in Nodes : i = item[t] /\ item'[t] = i
      BY <2>1, SafeParts, NodesTyped
    <3>2. \A u \in Threads : (Keeps(u, i)' <=> Keeps(u, i)) /\ (Tries(u, i)' <=> Tries(u, i))
      BY <2>1, KeepsStill
    <3>3. /\ \A h \in Handles : ~(handle[h].kind = "strong" /\ handle[h].node = i)
          /\ \A u \in Threads \ {t} : ~Keeps(u, i) /\ ~Tries(u, i)
      BY <2>2, <3>1 DEF OnlyKeeper
    <3> QED BY <2>1, <3>1, <3>2, <3>3 DEF OnlyKeeper
  <2>3. ASSUME NEW t \in Threads, OnlyReference(t) PROVE OnlyReference(t)'
    <3>1. \A n \in Nodes : StrongHolders(n)' = StrongHolders(n)
      BY <2>1 DEF StrongHolders, StrongOnStart, StrongOnItem, StrongOnNew, At
    <3>2. \A n \in Nodes : WeakHolders(n)' = WeakHolders(n)
      BY <2>1 DEF WeakHolders, WeakOnStart, WeakOnItem, WeakForGroup, WeakOnGap, At
    <3>3. \A n \in Nodes : Live(n)' <=> Live(n)
      BY <2>1 DEF Live
    <3> QED BY <2>1, <2>3, <3>1, <3>2, <3>3 DEF OnlyReference
  <2>4. ASSUME NEW t \in Threads, Leftmost(item[t]) PROVE Leftmost(item[t])'
    BY <2>1, <2>4 DEF Leftmost, Live, Before
  <2> QED BY <2>1, <2>2, <2>3, <2>4 DEF MutAlone
<1>3. ASSUME NEW u \in Threads, AnyStep(u) PROVE MutAlone'
  <2>1. SUFFICES ASSUME NoUpgrades
                 PROVE  /\ \A t \in Threads : op'[t].f # "upgrade"
                        /\ \A t \in Threads : pc'[t] \in Trying => Leftmost(item[t])'
                        /\ \A t \in Threads : pc'[t] \in {"tgm_again", "mutref"} => OnlyKeeper(t, item[t])'
                        /\ \A t \in Threads : pc'[t] = "mutref" => OnlyReference(t)'
    BY DEF MutAlone, NoUpgrades, Trying
  <2>2. ASSUME NEW t \in Threads PROVE op'[t].f # "upgrade"
    <3>1. op[t].f # "upgrade" /\ \A c \in Calls : c[2] # "upgrade"
      BY <2>1 DEF MutAlone, NoUpgrades
    <3>2. TypeOK /\ \A v \in Threads \ {u} : Still(v)
      BY <1>3, StepFacts, SafeParts, NodesTyped
    <3>3. CASE t = u
      BY <1>3, <3>1, <3>2, <3>3, MutSteps DEF MutFrom
    <3>4. CASE t # u
      BY <3>1, <3>2, <3>4 DEF Still
    <3> QED BY <3>3, <3>4
  <2>3. ASSUME NEW t \in Threads
        PROVE  /\ pc'[t] \in Trying => Leftmost(item[t])'
               /\ pc'[t] \in {"tgm_again", "mutref"} => OnlyKeeper(t, item[t])'
               /\ pc'[t] = "mutref" => OnlyReference(t)'
    <3>1. CASE t = u
      BY <1>3, <2>1, <3>1, MutFound
    <3>2. CASE t # u
      BY <1>3, <2>1, <3>2, MutKept
    <3> QED BY <3>1, <3>2
  <2> QED BY <2>2, <2>3
<1> QED BY <1>1, <1>2, <1>3

(* Where no ArcShiftWeak is upgraded, a mutable reference from try_get_mut *)
(* is the only way to the chain, and its value is the newest: whatever the *)
(* other threads do between the three loads, and for as long as the        *)
(* reference is used.                                                      *)
THEOREM NoSecondUser == Spec => []ExclusiveUnlessUpgraded
<1>1. Init => SafeInv /\ MutAlone
  BY InitSafe, InitMut
<1>2. SafeInv /\ MutAlone /\ [Next]_vars => (SafeInv /\ MutAlone)'
  BY NextSafe, NextMut
<1>3. SafeInv /\ MutAlone => ExclusiveUnlessUpgraded
  BY DEF MutAlone, NoUpgrades, ExclusiveUnlessUpgraded
<1> QED BY <1>1, <1>2, <1>3, PTL DEF Spec

------------------------------------------------------------------------------

(* Destructors that panic.                                                 *)

(* A panic that is raised again where the handle is written, or where      *)
(* shared_get has no guard, changes nothing but where the call is.         *)
LEMMA ResumeSafe ==
  ASSUME SafeInv, NEW t \in Threads, Resume(t), pc[t] = "sg_clone" => stamp[item[t]] >= op[t].since
  PROVE  SafeInv'
<1>1. /\ pc[t] \in {"sg_clone", "get_done"} /\ pc' = [pc EXCEPT ![t] = "ret"] /\ pc \in [Threads -> Labels]
      /\ UNCHANGED <<next, prev, strong, weak, adv, mem, drops, handle, left, stamp, count, item, av, pd, jn, dr, op>>
  BY SafeParts, NodesTyped DEF Resume, Resumes, Goto, ReadOnly, heap, client, locals, TypeOK
<1>2. /\ pc'[t] = "ret" /\ \A u \in Threads \ {t} : pc'[u] = pc[u]
  BY <1>1
<1>3. \A u \in Threads : Local(u) /\ Shape(u) /\ Places(u)
  BY SafeParts DEF OrderInv
<1>4. /\ av[t].ret = "idle" /\ pd[t].ret = "idle" /\ dr[t].ret = "idle"
      /\ pc[t] = "sg_clone" => op[t].f = "sharedGet"
      /\ pc[t] = "get_done" => op[t].f \in {"get", "reload", "tryGetMut"} /\ op[t].ok
      /\ stamp[item[t]] >= op[t].since
  <2>1. Frames(pc[t], av[t], pd[t]) /\ UpToDate(pc[t], item[t], op[t]) /\ Shape(t)
    BY <1>3 DEF Local, Knows
  <2>2. av[t].ret = "idle" /\ pd[t].ret = "idle"
    BY <1>1, <2>1 DEF Frames
  <2>3. dr[t].ret = "idle" \/ pc[t] = "sg_clone"
    BY <1>1, <2>1 DEF Shape
  <2>4. pc[t] = "sg_clone" => dr[t].ret = "idle"
    BY <2>1 DEF Shape, Dying, Janitoring
  <2>5. pc[t] = "get_done" => stamp[item[t]] >= op[t].since
    BY <2>1 DEF UpToDate
  <2> QED BY <1>1, <2>1, <2>2, <2>3, <2>4, <2>5 DEF Shape
<1>5. OrderInv'
  <2>1. TypeOK'
    BY <1>1, SafeParts, NodesTyped DEF TypeOK, Labels
  <2>2. ChainOrdered' /\ Published(IdleNode)' /\ \A h \in Handles : Published(handle[h].node)'
    BY <1>1, SafeParts DEF OrderInv, ChainOrdered, Published, HasNext
  <2>3. ASSUME NEW u \in Threads PROVE Local(u)'
    <3>1. CASE u # t
      BY <1>1, <1>2, <1>3, <3>1 DEF Local, Knows, Frames, OnChain, NewNode, Linking, Linked, JanitorOrdered, Older, UpToDate,
         HandleKept, Published, HasNext
    <3>2. CASE u = t
      <4>1. Frames(pc'[t], av'[t], pd'[t]) /\ OnChain(pc[t], item[t], av[t], op[t]) /\ HandleKept(pc[t], op[t]) /\ UpToDate(pc[t], item[t], op[t])
        BY <1>1, <1>2, <1>3, <1>4 DEF Frames, Local, Knows
      <4>2. OnChain(pc[t], item[t], av[t], op[t])' /\ HandleKept(pc[t], op[t])'
        BY <1>1, <1>2, <1>4, <4>1 DEF OnChain, HandleKept, Published
      <4>3. NewNode(pc[t], item[t], av[t], pd[t], op[t])'
        BY <1>1, <1>2, <1>4 DEF NewNode, Linking, Linked
      <4>4. JanitorOrdered(pc[t], item[t], jn[t])'
        BY <1>2 DEF JanitorOrdered
      <4>5. UpToDate(pc[t], item[t], op[t])'
        BY <1>1, <1>2, <1>4, <4>1 DEF UpToDate
      <4> QED BY <3>2, <4>1, <4>2, <4>3, <4>4, <4>5 DEF Local, Knows
    <3> QED BY <3>1, <3>2
  <2>4. ASSUME NEW u \in Threads, NEW v \in Threads, u # v PROVE Apart(u, v)'
    <3>1. Apart(u, v)
      BY <2>4, SafeParts DEF OrderInv
    <3>2. \A w \in Threads : (Linking(pc[w], av[w])' => Linking(pc[w], av[w])) /\ (pc'[w] # "idle" => pc[w] # "idle")
      BY <1>1, <1>2, <1>4 DEF Linking
    <3> QED BY <1>1, <3>1, <3>2 DEF Apart
  <2> QED BY <2>1, <2>2, <2>3, <2>4 DEF OrderInv
<1>6. ASSUME NEW u \in Threads
      PROVE  /\ StrongOnStart(u)' <=> StrongOnStart(u)
             /\ StrongOnItem(u)' <=> StrongOnItem(u)
             /\ StrongOnNew(u)' <=> StrongOnNew(u)
             /\ WeakOnStart(u)' <=> WeakOnStart(u)
             /\ WeakOnItem(u)' <=> WeakOnItem(u)
             /\ WeakForGroup(u)' <=> WeakForGroup(u)
             /\ WeakOnGap(u)' <=> WeakOnGap(u)
             /\ Gap(u)' <=> Gap(u)
             /\ Undoing(u)' <=> Undoing(u)
             /\ Base(u)' = Base(u)
  <2>0. Base(u)' = Base(u)
    BY <1>1 DEF Base
  <2>1. CASE u # t
    BY <1>1, <1>2, <2>0, <2>1 DEF StrongOnStart, StrongOnItem, StrongOnNew, WeakOnStart, WeakOnItem, WeakForGroup, WeakOnGap, Gap,
       At, Undoing, HasNext
  <2>2. CASE u = t
    <3>1. StrongOnItem(t)' <=> StrongOnItem(t)
      BY <1>1, <1>2, <1>4 DEF StrongOnItem, At, HoldsValue, Janitoring
    <3>2. /\ ~StrongOnStart(t)' /\ ~StrongOnStart(t) /\ ~StrongOnNew(t)' /\ ~StrongOnNew(t)
          /\ ~WeakOnStart(t)' /\ ~WeakOnStart(t) /\ ~WeakOnItem(t)' /\ ~WeakOnItem(t)
      BY <1>1, <1>2, <1>4 DEF StrongOnStart, StrongOnNew, WeakOnStart, WeakOnItem, At, Janitoring
    <3>3. /\ ~WeakForGroup(t)' /\ ~WeakForGroup(t) /\ ~WeakOnGap(t)' /\ ~WeakOnGap(t)
          /\ ~Gap(t)' /\ ~Gap(t) /\ ~Undoing(t)' /\ ~Undoing(t)
      BY <1>1, <1>2, <1>4 DEF WeakForGroup, WeakOnGap, Gap, Undoing, At, Janitoring
    <3> QED BY <2>0, <2>2, <3>1, <3>2, <3>3
  <2> QED BY <2>1, <2>2
<1>7. ASSUME NEW u \in Threads PROVE Shape(u)' /\ Places(u)'
  <2>1. CASE u # t
    <3>1. Shape(u)'
      BY <1>1, <1>2, <1>3, <2>1 DEF Shape
    <3>2. Places(u)'
      BY <1>1, <1>2, <1>3, <1>6, <2>1 DEF Places, Before, HasNext
    <3> QED BY <3>1, <3>2
  <2>2. CASE u = t
    <3>1. Shape(t)'
      <4>1. Shape(t)
        BY <1>3
      <4> QED BY <1>1, <1>2, <1>4, <4>1 DEF Shape, Updating, Upgrading, Dying, Janitoring
    <3>2. Places(t)'
      BY <1>1, <1>2, <1>4 DEF Places
    <3> QED BY <2>2, <3>1, <3>2
  <2> QED BY <2>1, <2>2
<1>8. ASSUME NEW u \in Threads PROVE JanitorKnows(u)' /\ HeldLive(u)' /\ WordKnown(u)' /\ Unreferenced(u)'
  <2>0. JanitorKnows(u) /\ HeldLive(u) /\ WordKnown(u) /\ Unreferenced(u)
    BY SafeParts
  <2>1. JanitorKnows(u)'
    <3>1. CASE u # t
      BY <1>1, <1>2, <2>0, <3>1 DEF JanitorKnows, Before, Live, Adjacent
    <3>2. CASE u = t
      BY <1>2, <3>2 DEF JanitorKnows, Redirecting, Freeing
    <3> QED BY <3>1, <3>2
  <2>2. HeldLive(u)'
    <3>1. CASE u # t
      BY <1>1, <1>2, <1>6, <2>0, <3>1 DEF HeldLive, Live
    <3>2. CASE u = t
      BY <1>1, <1>2, <1>6, <2>0, <3>2 DEF HeldLive, Live
    <3> QED BY <3>1, <3>2
  <2>3. WordKnown(u)' /\ Unreferenced(u)'
    <3>1. CASE u # t
      <4>1. pc'[u] = "dw_free" => \A v \in Threads : pc'[v] = "dw_free" => pc[v] = "dw_free"
        BY <1>2
      <4> QED BY <1>1, <1>2, <2>0, <3>1, <4>1 DEF WordKnown, Unreferenced, HasNext, Live
    <3>2. CASE u = t
      BY <1>1, <1>2, <1>4, <3>2 DEF WordKnown, Unreferenced
    <3> QED BY <3>1, <3>2
  <2> QED BY <2>1, <2>2, <2>3
<1>9. Listed'
  BY <1>1, <1>6, SafeParts DEF Listed, Adjacent, Live, Before, HasNext, Published
<1>10. \A u \in Threads : \A n \in Nodes : HasLocked(u, n)' <=> HasLocked(u, n)
  <2>1. ASSUME NEW n \in Nodes PROVE ~HasLocked(t, n) /\ ~HasLocked(t, n)'
    BY <1>1, <1>2 DEF HasLocked, Redirecting, Freeing, Janitoring
  <2>2. ASSUME NEW u \in Threads \ {t}, NEW n \in Nodes PROVE HasLocked(u, n)' <=> HasLocked(u, n)
    BY <1>1, <1>2 DEF HasLocked, Before
  <2> QED BY <2>1, <2>2
<1>11. LocksHeld'
  BY <1>1, <1>10, SafeParts DEF LocksHeld, Live
<1>12. HandlesLive' /\ PrivateFresh'
  BY <1>1, SafeParts DEF HandlesLive, PrivateFresh, Live
<1>13. Flagged'
  <2>1. \A u \in Threads : /\ pc[u] = "upd_mark" => pc'[u] = "upd_mark"
                           /\ pc[u] = "jan_unlink" => pc'[u] = "jan_unlink"
    BY <1>1, <1>2
  <2> QED BY <1>1, <2>1, SafeParts DEF Flagged, Live, HasNext
<1>14. /\ \A u \in Threads : pc'[u] \in {"sg_recheck", "sg_light"} <=> pc[u] \in {"sg_recheck", "sg_light"}
       /\ \A u \in Threads : pc'[u] \in {"adv_dec", "adv_unweak"} <=> pc[u] \in {"adv_dec", "adv_unweak"}
  BY <1>1, <1>2
<1>15. StrongExact'
  <2>1. \A n \in Nodes : StrongHolders(n)' = StrongHolders(n)
    BY <1>1, <1>6, <1>14 DEF StrongHolders
  <2> QED BY <1>1, <2>1, SafeParts DEF StrongExact, Live
<1>16. WeakExact'
  <2>1. \A n \in Nodes : WeakHolders(n)' = WeakHolders(n)
    BY <1>1, <1>6, <1>14 DEF WeakHolders
  <2> QED BY <1>1, <2>1, SafeParts DEF WeakExact, Live
<1>17. AdvanceExact'
  <2>1. \A u \in Threads : \A n \in Nodes : (Walks(u, n)' <=> Walks(u, n)) /\ (Shares(u, n)' <=> Shares(u, n))
    <3>1. ASSUME NEW n \in Nodes PROVE ~Walks(t, n) /\ ~Walks(t, n)' /\ ~Shares(t, n) /\ ~Shares(t, n)'
      BY <1>1, <1>2, <1>4 DEF Walks, Shares
    <3>2. ASSUME NEW u \in Threads \ {t}, NEW n \in Nodes PROVE (Walks(u, n)' <=> Walks(u, n)) /\ (Shares(u, n)' <=> Shares(u, n))
      BY <1>1, <1>2, <1>6 DEF Walks, Shares
    <3> QED BY <3>1, <3>2
  <2>2. \A n \in Nodes : Announcers(n)' = Announcers(n)
    BY <2>1 DEF Announcers
  <2> QED BY <1>1, <2>2, SafeParts DEF AdvanceExact
<1>18. Followed'
  <2>1. \A u \in Threads : \A n \in Nodes : (Redirected(u, n)' => Redirected(u, n))
    <3>1. ASSUME NEW n \in Nodes PROVE ~Redirected(t, n)'
      BY <1>2 DEF Redirected, HasLocked, Redirecting, Freeing, Janitoring
    <3>2. ASSUME NEW u \in Threads \ {t}, NEW n \in Nodes PROVE Redirected(u, n)' <=> Redirected(u, n)
      BY <1>1, <1>2, <1>10 DEF Redirected, Before
    <3> QED BY <3>1, <3>2
  <2>2. \A u \in Threads : \A x, y \in Nodes : Follows(u, x, y)' => Follows(u, x, y)
    <3>1. ASSUME NEW x \in Nodes, NEW y \in Nodes PROVE ~Follows(t, x, y)'
      BY <1>2 DEF Follows
    <3>2. ASSUME NEW u \in Threads \ {t}, NEW x \in Nodes, NEW y \in Nodes PROVE Follows(u, x, y)' <=> Follows(u, x, y)
      BY <1>1, <1>2, <1>6 DEF Follows
    <3> QED BY <3>1, <3>2
  <2>3. \A u \in Threads \ {t} : \A y \in Nodes : Spares(u, y)' <=> Spares(u, y)
    BY <1>1, <1>2 DEF Spares, Before, Published
  <2>4. \A u \in Threads : pc'[u] \in Redirecting \cup Freeing => u # t /\ pc'[u] = pc[u]
    BY <1>2 DEF Redirecting, Freeing
  <2> QED BY <1>1, <2>1, <2>2, <2>3, <2>4, SafeParts DEF Followed, Live, Before
<1>19. \A n \in Nodes : (Kept(n)' <=> Kept(n)) /\ (Tried(n)' <=> Tried(n))
  <2>1. \A u \in Threads : pc'[u] = "sg_light" <=> pc[u] = "sg_light"
    BY <1>1, <1>2
  <2>2. \A u \in Threads : pc'[u] = "sg_recheck" <=> pc[u] = "sg_recheck"
    BY <1>1, <1>2
  <2>3. \A u \in Threads : \A n \in Nodes : (Keeps(u, n)' <=> Keeps(u, n)) /\ (Tries(u, n)' <=> Tries(u, n))
    BY <1>1, <1>6, <2>1, <2>2 DEF Keeps, Tries
  <2> QED BY <1>1, <2>3 DEF Kept, Tried
<1>20. TeardownSafe'
  <2>1. \A n \in Nodes : NoneBefore(n)' <=> NoneBefore(n)
    BY <1>1, <1>19 DEF NoneBefore, Before
  <2>2. ASSUME NEW u \in Threads \ {t}, FoundNone(u) PROVE FoundNone(u)'
    <3>1. \A n \in Nodes : Seen(u, n)' <=> Seen(u, n)
      BY <1>1, <1>2 DEF Seen, Before
    <3> QED BY <1>19, <2>2, <3>1 DEF FoundNone
  <2>3. ASSUME NEW u \in Threads, NoneBefore(item[u]) PROVE NoneBefore(item[u])'
    BY <1>1, <1>19, <2>3 DEF NoneBefore, Before
  <2>4. \A u \in Threads : pc'[u] \in Redirecting \cup Freeing \cup {"jan_unlock", "dw_weak", "dw_next", "dw_claim", "upg_incw", "upg_cas", "upg_race"}
                           => u \in Threads \ {t} /\ pc'[u] = pc[u]
    BY <1>2 DEF Redirecting, Freeing
  <2> QED BY <1>1, <2>1, <2>2, <2>3, <2>4, SafeParts DEF TeardownSafe, Live, StrongStatus
<1>21. PayloadsSafe'
  <2>1. \A u \in Threads : (pc'[u] \in Dropping <=> pc[u] \in Dropping) /\ (pc'[u] = "pay_drop" <=> pc[u] = "pay_drop")
    BY <1>1, <1>2
  <2>2. \A n \in Nodes : (Released(n)' <=> Released(n)) /\ (Beyond(n)' <=> Beyond(n))
    BY <1>1, <1>19, <2>1 DEF Released, Beyond, HasNext
  <2> QED BY <1>1, <2>1, <2>2, SafeParts DEF PayloadsSafe, Live
<1> QED BY <1>5, <1>7, <1>8, <1>9, <1>11, <1>12, <1>13, <1>15, <1>16, <1>17, <1>18, <1>20, <1>21 DEF SafeInv

\* where a step that does not end the call can lead
Goes(t) ==
  /\ pc'[t] \notin {"idle", "get_load"}
  /\ pc'[t] = "reading" => pc[t] \in {"get_load", "get_done", "sg_load", "sg_light"} \/ av[t].ret = "reading"
  /\ pc'[t] \in SharedGetting => pc[t] \in SharedGetting \/ (pc[t] \in Dying \cup {"ds_dec"} /\ pc'[t] = "sg_dec")
  /\ pc[t] = "sg_dec" => pc'[t] = "sg_clone"
  /\ pc[t] = "sg_clone" => pc'[t] = "adv_load"
  /\ pc'[t] \in {"sg_dec", "sg_clone"} => item'[t] = item[t]
  /\ pc'[t] \in Dropping => pc[t] \in Dropping \cup {"dw_claim", "upd_dec"} \/ (pc[t] = "advs_a_dec" /\ LastStrong(av[t].start))

\* the advance goes on from where it started; only shared_get's clone begins one for the reader
Copied(t) ==
  av'[t].ret \in {"ret", "reading"} =>
    \/ av'[t].ret = av[t].ret /\ av'[t].start = av[t].start
    \/ pc[t] = "sg_clone" /\ av'[t].start = Base(t)

\* what the call is for does not change, but upgrade may give up
Asked(t) ==
  /\ op'[t].f = op[t].f /\ op'[t].since = op[t].since /\ op'[t].hnd = op[t].hnd
  /\ op'[t].ok => op[t].ok

\* the steps that run a destructor
Destructs(t) == drops' = drops \/ pc[t] \in {"pay_drop", "jan_free", "dw_free"} \/ (pc[t] = "upd_next" /\ op[t].f = "rcu")

(* An advance, its swap of references and its payload drop.                *)
LEMMA AdvanceGoes ==
  ASSUME TypeOK, NEW t \in Threads, Shape(t), AdvanceStep(t)
  PROVE  Goes(t) /\ Copied(t) /\ Asked(t) /\ Destructs(t)
<1>k. /\ op \in [Threads -> CallFrames] /\ pc \in [Threads -> Labels] /\ av \in [Threads -> AdvanceFrames]
      /\ pd \in [Threads -> PayloadFrames] /\ item \in [Threads -> Nodes]
  BY DEF TypeOK
<1>1. /\ pc[t] \in Advancing => av[t].ret \in {"jan_lock", "ds_dec", "upd_next", "upg_strong", "reading", "ret"}
      /\ pc[t] \in Dropping => pd[t].ret \in {"advs_a_decw", "dw_cas", "upd_decw"}
  BY <1>k DEF Shape, Continues, PayloadFrames, AdvanceFrames
<1>2. ASSUME ReturnAdvance(t), pc[t] \in Advancing PROVE Goes(t) /\ Copied(t)
  <2>1. pc'[t] = av[t].ret /\ av'[t] = IdleAdvance
    BY <1>k, <1>2 DEF ReturnAdvance, Goto
  <2>2. av'[t].ret = "idle"
    BY <2>1 DEF IdleAdvance
  <2>3. Copied(t)
    BY <2>2 DEF Copied
  <2> QED BY <1>1, <1>2, <2>1, <2>3 DEF Goes, Dying
<1>3. ASSUME RetryAdvance(t), pc[t] \in Advancing PROVE Goes(t) /\ Copied(t)
  BY <1>k, <1>1, <1>3 DEF RetryAdvance, Goto, Goes, Copied, AdvanceFrames
<1>4. ASSUME NEW c, TryStrong(t, c), pc[t] \in Advancing PROVE Goes(t) /\ Copied(t)
  BY <1>k, <1>1, <1>4 DEF TryStrong, Goto, Goes, Copied, AdvanceFrames
<1>5. Goes(t) /\ Copied(t)
  <2>1. CASE AdvanceLoad(t) \/ AdvanceInc(t) \/ AdvanceReload(t) \/ AdvanceWeakInc(t) \/ AdvanceDec(t) \/ AdvanceWeakDec(t)
    <3>1. AdvanceLoad(t) => Goes(t) /\ Copied(t)
      BY <1>k, <1>2 DEF AdvanceLoad, Goto, Goes, Copied, AdvanceFrames
    <3>2. AdvanceInc(t) \/ AdvanceReload(t) \/ AdvanceWeakInc(t) => Goes(t) /\ Copied(t)
      BY <1>k DEF AdvanceInc, AdvanceReload, AdvanceWeakInc, Goto, Goes, Copied, AdvanceFrames, locals
    <3>3. AdvanceDec(t) \/ AdvanceWeakDec(t) => Goes(t) /\ Copied(t)
      BY <1>k DEF AdvanceDec, AdvanceWeakDec, Goto, Goes, Copied, AdvanceFrames, locals
    <3> QED BY <2>1, <3>1, <3>2, <3>3
  <2>2. CASE WeakLeaveStart(t)
    BY <1>2, <2>2 DEF WeakLeaveStart
  <2>3. CASE PayloadMark(t) \/ PayloadDrop(t)
    <3>1. UNCHANGED av /\ pc[t] \in Dropping /\ pc'[t] \in {"pay_drop", pd[t].ret}
      BY <1>k, <2>3 DEF PayloadMark, PayloadDrop, Goto
    <3> QED BY <1>1, <3>1 DEF Goes, Copied
  <2>4. CASE StrongLoad(t) \/ StrongIncWeak(t)
    <3>1. StrongLoad(t) => Goes(t) /\ Copied(t)
      BY <1>4 DEF StrongLoad
    <3>2. StrongIncWeak(t) => Goes(t) /\ Copied(t)
      BY <1>k DEF StrongIncWeak, Goto, Goes, Copied, locals
    <3> QED BY <2>4, <3>1, <3>2
  <2>5. CASE StrongCas(t)
    <3>1. TryStrong(t, strong[item[t]]) => Goes(t) /\ Copied(t)
      BY <1>4, <2>5 DEF StrongCas
    <3> QED BY <1>k, <2>5, <3>1 DEF StrongCas, Goto, Goes, Copied, AdvanceFrames
  <2>6. CASE StrongRaceDecWeak(t)
    BY <1>4, <2>6 DEF StrongRaceDecWeak
  <2>7. CASE StrongRecheck(t) \/ StrongDecWeakB(t)
    BY <1>k, <2>7 DEF StrongRecheck, StrongDecWeakB, Goto, Goes, Copied, locals
  <2>8. CASE StrongUndo(t) \/ StrongUndoDecWeak(t)
    BY <1>k, <1>3, <2>8 DEF StrongUndo, StrongUndoDecWeak, Goto, Goes, Copied
  <2>9. CASE StrongLeaveStart(t)
    BY <1>k, <1>2, <2>9 DEF StrongLeaveStart, StartPayloadDrop, Goto, Goes, Copied
  <2>10. CASE StrongDecWeakA(t)
    BY <1>2, <2>10 DEF StrongDecWeakA
  <2> QED BY <2>1, <2>2, <2>3, <2>4, <2>5, <2>6, <2>7, <2>8, <2>9, <2>10 DEF AdvanceStep
<1>6. Asked(t) /\ Destructs(t)
  <2>1. PayloadDrop(t) => Asked(t) /\ Destructs(t)
    BY <1>k DEF PayloadDrop, DropPayload, CallFrames, Asked, Destructs
  <2>2. op' = op /\ drops' = drops => Asked(t) /\ Destructs(t)
    BY DEF Asked, Destructs
  <2>3. AdvanceStep(t) /\ ~PayloadDrop(t) => op' = op /\ drops' = drops
    BY DEF AdvanceStep, AdvanceLoad, AdvanceInc, AdvanceReload, AdvanceWeakInc, AdvanceDec, AdvanceWeakDec,
     WeakLeaveStart, PayloadMark, StrongLoad, StrongIncWeak, StrongCas, StrongRaceDecWeak, StrongRecheck, StrongUndo,
     StrongUndoDecWeak, StrongDecWeakB, StrongLeaveStart, StrongDecWeakA, OnlyNext, OnlyPrev, OnlyStrong, OnlyWeak, OnlyAdv,
     ReadOnly, heap, locals
  <2> QED BY <2>1, <2>2, <2>3
<1> QED BY <1>5, <1>6

(* The janitor.                                                            *)
LEMMA JanitorGoes ==
  ASSUME TypeOK, NEW t \in Threads, Shape(t), JanitorStep(t)
  PROVE  Goes(t) /\ Copied(t) /\ Asked(t) /\ Destructs(t)
<1>k. /\ op \in [Threads -> CallFrames] /\ pc \in [Threads -> Labels] /\ av \in [Threads -> AdvanceFrames]
      /\ jn \in [Threads -> JanitorFrames] /\ item \in [Threads -> Nodes]
  BY DEF TypeOK
<1>1. pc[t] \in Janitoring
  BY DEF JanitorStep, JanitorLockStart, JanitorSweep, JanitorCleanup, JanitorUnlockStart, JanitorStrong,
     JanitorSetNext, JanitorCheckAdvance, JanitorFinal, JanitorDelete, JanitorFree, JanitorClearPrev,
     JanitorUnlink, JanitorCarry, JanitorUncarry, Janitor, Janitoring
<1>2. jn[t].ret \in {"dw_weak", "upd_done", "get_done"}
  BY <1>1 DEF Shape, Continues
<1>3. pc'[t] \in Janitoring \cup {jn[t].ret}
  BY <1>k DEF JanitorStep, JanitorLockStart, JanitorSweep, JanitorCleanup, JanitorUnlockStart, JanitorStrong,
     JanitorSetNext, JanitorCheckAdvance, JanitorFinal, JanitorDelete, JanitorFree, JanitorClearPrev,
     JanitorUnlink, JanitorCarry, JanitorUncarry, Janitor, Goto, ReturnJanitor, Janitoring
<1>4. Goes(t)
  BY <1>1, <1>2, <1>3 DEF Goes, Janitoring
<1>5. av' = av
  BY DEF JanitorStep, JanitorLockStart, JanitorSweep, JanitorCleanup, JanitorUnlockStart, JanitorStrong,
     JanitorSetNext, JanitorCheckAdvance, JanitorFinal, JanitorDelete, JanitorFree, JanitorClearPrev,
     JanitorUnlink, JanitorCarry, JanitorUncarry, Janitor, locals
<1>6. Asked(t) /\ Destructs(t)
  <2>1. JanitorFree(t) => Asked(t) /\ Destructs(t)
    BY <1>k DEF JanitorFree, Janitor, Deallocate, DropPayload, CallFrames, Asked, Destructs
  <2>2. op' = op /\ drops' = drops => Asked(t) /\ Destructs(t)
    BY DEF Asked, Destructs
  <2>3. JanitorStep(t) /\ ~JanitorFree(t) => op' = op /\ drops' = drops
    BY DEF JanitorStep, JanitorLockStart, JanitorSweep, JanitorCleanup, JanitorUnlockStart, JanitorStrong,
     JanitorSetNext, JanitorCheckAdvance, JanitorFinal, JanitorDelete, JanitorClearPrev,
     JanitorUnlink, JanitorCarry, JanitorUncarry, Janitor, OnlyNext, OnlyPrev, OnlyStrong, OnlyWeak, OnlyAdv,
     ReadOnly, heap, locals
  <2> QED BY <2>1, <2>2, <2>3
<1> QED BY <1>4, <1>5, <1>6 DEF Copied

(* What StartAdvance leaves in the frame.                                  *)
LEMMA AdvanceBegun ==
  ASSUME TypeOK, NEW t \in Threads, NEW n, NEW m, NEW r, StartAdvance(t, n, m, r)
  PROVE  av'[t].ret = r /\ av'[t].start = n /\ pc'[t] = "adv_load" /\ item'[t] = n
<1>1. /\ pc \in [Threads -> Labels] /\ av \in [Threads -> AdvanceFrames] /\ item \in [Threads -> Nodes]
  BY DEF TypeOK
<1>2. av'[t] = [IdleAdvance EXCEPT !.start = n, !.nxt = n, !.mode = m, !.ret = r] /\ pc'[t] = "adv_load" /\ item'[t] = n
  BY <1>1 DEF StartAdvance, Goto
<1>3. /\ [IdleAdvance EXCEPT !.start = n, !.nxt = n, !.mode = m, !.ret = r].ret = r
      /\ [IdleAdvance EXCEPT !.start = n, !.nxt = n, !.mode = m, !.ret = r].start = n
  BY DEF IdleAdvance
<1> QED BY <1>2, <1>3

(* do_drop_strong and do_drop_weak.                                        *)
LEMMA DropGoes ==
  ASSUME TypeOK, NEW t \in Threads, Shape(t), DropStep(t)
  PROVE  Goes(t) /\ Copied(t) /\ Asked(t) /\ Destructs(t)
<1>k. /\ op \in [Threads -> CallFrames] /\ pc \in [Threads -> Labels] /\ av \in [Threads -> AdvanceFrames]
      /\ dr \in [Threads -> DropFrames] /\ item \in [Threads -> Nodes]
  BY DEF TypeOK
<1>1. pc[t] \in Dying \cup {"ds_dec"}
  BY DEF DropStep, DropStrongDec, DropWeakLoad, DropWeakNext, ClaimTeardown, DropWeakCas, DropWeakFree, Dying
<1>2. dr[t].ret \in {"ret", "sg_dec"}
  BY <1>k, <1>1 DEF Shape, DropFrames
<1>3. ASSUME NEW n, NEW m, NEW r, StartAdvance(t, n, m, r), r \in {"jan_lock", "ds_dec"} PROVE Goes(t) /\ Copied(t)
  BY <1>1, <1>3, AdvanceBegun DEF Goes, Copied, Dying
<1>4. ASSUME ReturnDrop(t), UNCHANGED <<item, av>> PROVE Goes(t) /\ Copied(t)
  <2>1. pc'[t] = dr[t].ret
    BY <1>k, <1>4 DEF ReturnDrop, Goto
  <2> QED BY <1>1, <1>2, <1>4, <2>1 DEF Goes, Copied, Dying
<1>5. Goes(t) /\ Copied(t)
  <2>1. CASE DropStrongDec(t)
    <3>1. CASE StartDropWeak(t, item[t], dr[t].ret)
      BY <1>3, <3>1 DEF StartDropWeak, DropWeakRound
    <3>2. CASE ~StartDropWeak(t, item[t], dr[t].ret)
      BY <1>4, <2>1, <3>2 DEF DropStrongDec
    <3> QED BY <3>1, <3>2
  <2>2. CASE DropWeakLoad(t)
    <3>1. CASE DropWeakRound(t, item[t])
      BY <1>3, <3>1 DEF DropWeakRound
    <3>2. CASE ~DropWeakRound(t, item[t])
      BY <1>k, <2>2, <3>2 DEF DropWeakLoad, Goto, Goes, Copied
    <3> QED BY <3>1, <3>2
  <2>3. CASE DropWeakNext(t)
    <3>1. CASE StartDropWeak(t, item[t], dr[t].ret)
      BY <1>3, <3>1 DEF StartDropWeak, DropWeakRound
    <3>2. CASE ~StartDropWeak(t, item[t], dr[t].ret)
      BY <1>k, <2>3, <3>2 DEF DropWeakNext, Goto, Goes, Copied
    <3> QED BY <3>1, <3>2
  <2>4. CASE ClaimTeardown(t)
    BY <1>k, <2>4 DEF ClaimTeardown, StartPayloadDrop, Goto, Goes, Copied
  <2>5. CASE DropWeakCas(t)
    <3>1. CASE StartDropWeak(t, item[t], dr[t].ret)
      BY <1>3, <3>1 DEF StartDropWeak, DropWeakRound
    <3>2. CASE ReturnDrop(t) /\ ~StartDropWeak(t, item[t], dr[t].ret)
      BY <1>4, <2>5, <3>2 DEF DropWeakCas
    <3> QED BY <1>k, <2>5, <3>1, <3>2 DEF DropWeakCas, Goto, Goes, Copied
  <2>6. CASE DropWeakFree(t)
    <3>1. ReturnDrop(t) /\ UNCHANGED <<item, av>>
      BY <2>6 DEF DropWeakFree
    <3> QED BY <1>4, <3>1
  <2> QED BY <2>1, <2>2, <2>3, <2>4, <2>5, <2>6 DEF DropStep
<1>6. Asked(t) /\ Destructs(t)
  <2>1. DropWeakFree(t) => Asked(t) /\ Destructs(t)
    <3>1. ASSUME DropWeakFree(t) PROVE Asked(t)
      <4>1. ASSUME NEW s PROVE op' = [op EXCEPT ![t].sole = TRUE, ![t].stolen = s] => Asked(t)
        BY <1>k DEF CallFrames, Asked
      <4> QED BY <3>1, <4>1 DEF DropWeakFree, Asked
    <3>2. DropWeakFree(t) => pc[t] = "dw_free"
      BY DEF DropWeakFree
    <3> QED BY <3>1, <3>2 DEF Destructs
  <2>2. op' = op /\ drops' = drops => Asked(t) /\ Destructs(t)
    BY DEF Asked, Destructs
  <2>3. DropStep(t) /\ ~DropWeakFree(t) => op' = op /\ drops' = drops
    BY DEF DropStep, DropStrongDec, DropWeakLoad, DropWeakNext, ClaimTeardown, DropWeakCas, OnlyNext, OnlyPrev, OnlyStrong,
     OnlyWeak, OnlyAdv, ReadOnly, heap, locals
  <2> QED BY <2>1, <2>2, <2>3
<1> QED BY <1>5, <1>6

(* do_update.                                                              *)
LEMMA UpdateGoes ==
  ASSUME TypeOK, NEW t \in Threads, Shape(t), UpdateStep(t)
  PROVE  Goes(t) /\ Copied(t) /\ Asked(t) /\ Destructs(t)
<1>k. /\ op \in [Threads -> CallFrames] /\ pc \in [Threads -> Labels] /\ av \in [Threads -> AdvanceFrames]
      /\ pd \in [Threads -> PayloadFrames] /\ item \in [Threads -> Nodes] /\ jn \in [Threads -> JanitorFrames]
  BY DEF TypeOK
<1>0. pc[t] \in Updating
  BY DEF UpdateStep, UpdateNext, RcuCancel, UpdateWeakInc, UpdateMark, UpdateCas, UpdateFail, UpdateDec, UpdateDecWeak,
     UpdateDone, Updating
<1>1. ASSUME NEW n, NEW r, StartAdvance(t, n, "strong", r), r \in {"upd_next", "jan_lock"} PROVE Goes(t) /\ Copied(t)
  BY <1>0, <1>1, AdvanceBegun DEF Goes, Copied, Updating
<1>2. Goes(t) /\ Copied(t)
  <2>1. CASE UpdateNext(t)
    <3>1. CASE UpdateAgain(t)
      BY <1>1, <3>1 DEF UpdateAgain
    <3>2. CASE ~UpdateAgain(t)
      BY <1>k, <2>1, <3>2 DEF UpdateNext, PrepareLink, Goto, Goes, Copied
    <3> QED BY <3>1, <3>2
  <2>2. CASE RcuCancel(t) \/ UpdateWeakInc(t) \/ UpdateMark(t)
    BY <1>k, <2>2 DEF RcuCancel, UpdateWeakInc, UpdateMark, Goto, Goes, Copied, locals
  <2>3. CASE UpdateCas(t)
    BY <1>k, <2>3 DEF UpdateCas, Goto, Goes, Copied, locals
  <2>4. CASE UpdateFail(t)
    BY <1>1, <2>4 DEF UpdateFail, UpdateAgain
  <2>5. CASE UpdateDec(t)
    BY <1>k, <2>5 DEF UpdateDec, StartPayloadDrop, Goto, Goes, Copied
  <2>6. CASE UpdateDecWeak(t)
    BY <1>k, <2>6 DEF UpdateDecWeak, Goto, Goes, Copied
  <2>7. CASE UpdateDone(t)
    <3>1. CASE jn[t].rerun
      BY <1>1, <2>7, <3>1 DEF UpdateDone
    <3>2. CASE ~jn[t].rerun
      BY <1>k, <2>7, <3>2 DEF UpdateDone, Goto, Goes, Copied
    <3> QED BY <3>1, <3>2
  <2> QED BY <2>1, <2>2, <2>3, <2>4, <2>5, <2>6, <2>7 DEF UpdateStep
<1>3. Asked(t) /\ Destructs(t)
  <2>1. CASE UpdateNext(t)
    <3>1. op' = op \/ \E v, w : op' = [op EXCEPT ![t].val = v, ![t].nw = w]
      BY <2>1 DEF UpdateNext, PrepareLink
    <3>2. Asked(t)
      <4>1. ASSUME NEW v, NEW w, op' = [op EXCEPT ![t].val = v, ![t].nw = w] PROVE Asked(t)
        BY <1>k, <4>1 DEF CallFrames, Asked
      <4>2. op' = op => Asked(t)
        BY DEF Asked
      <4> QED BY <3>1, <4>1, <4>2
    <3>3. drops' = drops
      BY <2>1 DEF UpdateNext, NewHolder, heap
    <3> QED BY <3>2, <3>3 DEF Destructs
  <2>2. CASE RcuCancel(t)
    BY <1>k, <2>2 DEF RcuCancel, CallFrames, Asked, Destructs
  <2>3. UpdateStep(t) /\ ~UpdateNext(t) /\ ~RcuCancel(t) => op' = op /\ drops' = drops
    BY DEF UpdateStep, UpdateWeakInc, UpdateMark, UpdateCas, UpdateFail, UpdateDec, UpdateDecWeak, UpdateDone, OnlyStrong,
     OnlyWeak, ReadOnly, heap, locals
  <2>4. op' = op /\ drops' = drops => Asked(t) /\ Destructs(t)
    BY DEF Asked, Destructs
  <2> QED BY <2>1, <2>2, <2>3, <2>4
<1> QED BY <1>2, <1>3

(* do_upgrade_weak.                                                        *)
LEMMA UpgradeGoes ==
  ASSUME TypeOK, NEW t \in Threads, Shape(t), UpgradeStep(t)
  PROVE  Goes(t) /\ Copied(t) /\ Asked(t) /\ Destructs(t)
<1>k. /\ op \in [Threads -> CallFrames] /\ pc \in [Threads -> Labels] /\ av \in [Threads -> AdvanceFrames]
      /\ item \in [Threads -> Nodes]
  BY DEF TypeOK
<1>0. pc[t] \in Upgrading
  BY DEF UpgradeStep, UpgradeLoadStrong, UpgradeLoadNext, UpgradeIncWeak, UpgradeCas, UpgradeRaceDecWeak, UpgradeCheck,
     UpgradeUndo, UpgradeUndoDecWeak, UpgradeDone, Upgrading
<1>1. ASSUME NEW n, NEW r, StartAdvance(t, n, "weak", r), r \in {"upg_strong", "jan_lock"} PROVE Goes(t) /\ Copied(t)
  BY <1>0, <1>1, AdvanceBegun DEF Goes, Copied, Upgrading
<1>2. Goes(t) /\ Copied(t)
  <2>1. CASE UpgradeLoadStrong(t) \/ UpgradeIncWeak(t) \/ UpgradeCheck(t) \/ UpgradeDone(t)
    BY <1>k, <2>1 DEF UpgradeLoadStrong, UpgradeIncWeak, UpgradeCheck, UpgradeDone, Goto, Goes, Copied, locals
  <2>2. CASE UpgradeLoadNext(t)
    <3>1. CASE UpgradeAgain(t)
      BY <1>1, <3>1 DEF UpgradeAgain
    <3>2. CASE StartDropWeak(t, item[t], "ret")
      BY <1>1, <3>2 DEF StartDropWeak, DropWeakRound
    <3>3. CASE ~UpgradeAgain(t) /\ ~StartDropWeak(t, item[t], "ret")
      BY <1>k, <2>2, <3>3 DEF UpgradeLoadNext, Goto, Goes, Copied
    <3> QED BY <3>1, <3>2, <3>3
  <2>3. CASE UpgradeCas(t)
    <3>1. CASE UpgradeAgain(t)
      BY <1>1, <3>1 DEF UpgradeAgain
    <3>2. CASE ~UpgradeAgain(t)
      BY <1>k, <2>3, <3>2 DEF UpgradeCas, Goto, Goes, Copied
    <3> QED BY <3>1, <3>2
  <2>4. CASE UpgradeRaceDecWeak(t) \/ UpgradeUndoDecWeak(t)
    BY <1>1, <2>4 DEF UpgradeRaceDecWeak, UpgradeUndoDecWeak, UpgradeAgain
  <2>5. CASE UpgradeUndo(t)
    <3>1. CASE UpgradeAgain(t)
      BY <1>1, <3>1 DEF UpgradeAgain
    <3>2. CASE ~UpgradeAgain(t)
      BY <1>k, <2>5, <3>2 DEF UpgradeUndo, Goto, Goes, Copied
    <3> QED BY <3>1, <3>2
  <2> QED BY <2>1, <2>2, <2>3, <2>4, <2>5 DEF UpgradeStep
<1>3. Asked(t) /\ drops' = drops
  <2>1. CASE UpgradeLoadStrong(t)
    BY <1>k, <2>1 DEF UpgradeLoadStrong, ReadOnly, heap, CallFrames, Asked
  <2>2. CASE UpgradeLoadNext(t)
    BY <1>k, <2>2 DEF UpgradeLoadNext, ReadOnly, heap, CallFrames, Asked
  <2>3. UpgradeStep(t) /\ ~UpgradeLoadStrong(t) /\ ~UpgradeLoadNext(t) => op' = op /\ drops' = drops
    BY DEF UpgradeStep, UpgradeIncWeak, UpgradeCas, UpgradeRaceDecWeak, UpgradeCheck, UpgradeUndo, UpgradeUndoDecWeak,
     UpgradeDone, OnlyStrong, OnlyWeak, ReadOnly, heap, locals
  <2> QED BY <2>1, <2>2, <2>3 DEF Asked
<1> QED BY <1>2, <1>3 DEF Destructs

(* get, try_get_mut and shared_get.                                        *)
LEMMA ApiGoes ==
  ASSUME TypeOK, NEW t \in Threads, Shape(t), ApiStep(t), ~Return(t)
  PROVE  Goes(t) /\ Copied(t) /\ Asked(t) /\ Destructs(t)
<1>k. /\ op \in [Threads -> CallFrames] /\ pc \in [Threads -> Labels] /\ av \in [Threads -> AdvanceFrames]
      /\ item \in [Threads -> Nodes] /\ jn \in [Threads -> JanitorFrames]
  BY DEF TypeOK
<1>1. ASSUME NEW n, NEW r, StartAdvance(t, n, "strong", r), r \in {"ds_dec", "jan_lock"}, pc[t] \notin {"sg_dec", "sg_clone"}
      PROVE  Goes(t) /\ Copied(t)
  BY <1>1, AdvanceBegun DEF Goes, Copied
<1>2. Goes(t) /\ Copied(t)
  <2>1. CASE GetLoad(t)
    <3>1. CASE ReloadAgain(t)
      BY <1>1, <2>1, <3>1 DEF ReloadAgain, GetLoad
    <3>2. CASE ~ReloadAgain(t)
      BY <1>k, <2>1, <3>2 DEF GetLoad, AfterReload, Goto, Goes, Copied
    <3> QED BY <3>1, <3>2
  <2>2. CASE GetDone(t)
    <3>1. CASE ReloadAgain(t)
      BY <1>1, <2>2, <3>1 DEF ReloadAgain, GetDone
    <3>2. CASE ~ReloadAgain(t)
      BY <1>k, <2>2, <3>2 DEF GetDone, AfterReload, Goto, Goes, Copied
    <3> QED BY <3>1, <3>2
  <2>3. CASE TryGetMutWeak(t) \/ TryGetMutStrong(t) \/ TryGetMutAgain(t)
    BY <1>k, <2>3 DEF TryGetMutWeak, TryGetMutStrong, TryGetMutAgain, Goto, Goes, Copied, locals
  <2>4. CASE SharedGetLoad(t) \/ SharedGetInc(t) \/ SharedGetNext(t)
    BY <1>k, <2>4 DEF SharedGetLoad, SharedGetInc, SharedGetNext, Goto, Goes, Copied, locals
  <2>5. CASE SharedGetStrong(t) \/ SharedGetCas(t)
    BY <1>k, <2>5 DEF SharedGetStrong, SharedGetCas, Goto, Goes, Copied, locals
  <2>6. CASE SharedGetRecheck(t)
    <3>1. CASE StartDropStrong(t, op[t].nxt, "sg_dec")
      BY <1>1, <2>6, <3>1 DEF StartDropStrong, SharedGetRecheck
    <3>2. CASE ~StartDropStrong(t, op[t].nxt, "sg_dec")
      BY <1>k, <2>6, <3>2 DEF SharedGetRecheck, Goto, Goes, Copied
    <3> QED BY <3>1, <3>2
  <2>7. CASE SharedGetLight(t) \/ SharedGetDec(t)
    BY <1>k, <2>7 DEF SharedGetLight, SharedGetDec, Goto, Goes, Copied, locals
  <2>8. CASE SharedGetClone(t)
    <3>1. pc[t] = "sg_clone" /\ StartAdvance(t, Base(t), "strong", "reading")
      BY <2>8 DEF SharedGetClone
    <3> QED BY <3>1, AdvanceBegun DEF Goes, Copied
  <2>9. CASE FinishReading(t)
    <3>1. CASE StartDropStrong(t, item[t], "ret")
      BY <1>1, <2>9, <3>1 DEF StartDropStrong, FinishReading
    <3>2. CASE ~StartDropStrong(t, item[t], "ret")
      BY <1>k, <2>9, <3>2 DEF FinishReading, Goto, Goes, Copied
    <3> QED BY <3>1, <3>2
  <2> QED BY <2>1, <2>2, <2>3, <2>4, <2>5, <2>6, <2>7, <2>8, <2>9 DEF ApiStep
<1>3. Asked(t)
  <2>1. CASE SharedGetLoad(t) \/ SharedGetNext(t) \/ SharedGetStrong(t)
    BY <1>k, <2>1 DEF SharedGetLoad, SharedGetNext, SharedGetStrong, CallFrames, Asked
  <2>2. CASE SharedGetLight(t) \/ SharedGetClone(t)
    BY <1>k, <2>2 DEF SharedGetLight, SharedGetClone, CallFrames, Asked
  <2>3. CASE ~(SharedGetLoad(t) \/ SharedGetNext(t) \/ SharedGetStrong(t)) /\ ~(SharedGetLight(t) \/ SharedGetClone(t))
    <3>1. op' = op
      BY <2>3 DEF ApiStep, GetLoad, GetDone, TryGetMutWeak, TryGetMutStrong, TryGetMutAgain, SharedGetInc, SharedGetCas,
         SharedGetRecheck, SharedGetDec, FinishReading, locals
    <3> QED BY <3>1 DEF Asked
  <2> QED BY <2>1, <2>2, <2>3
<1>4. drops' = drops
  BY DEF ApiStep, GetLoad, GetDone, TryGetMutWeak, TryGetMutStrong, TryGetMutAgain, SharedGetLoad, SharedGetInc, SharedGetNext,
     SharedGetStrong, SharedGetCas, SharedGetRecheck, SharedGetLight, SharedGetDec, SharedGetClone, FinishReading,
     OnlyStrong, OnlyAdv, ReadOnly, heap
<1> QED BY <1>2, <1>3, <1>4 DEF Destructs

(* Every step of a call that is not its return.                            *)
LEMMA StepGoes ==
  ASSUME TypeOK, NEW t \in Threads, Shape(t), Step(t), ~Return(t)
  PROVE  Goes(t) /\ Copied(t) /\ Asked(t) /\ Destructs(t)
BY AdvanceGoes, JanitorGoes, DropGoes, UpdateGoes, UpgradeGoes, ApiGoes DEF Step

(* The handle that a call borrows stays where it is while the call runs.   *)
LEMMA HandleLent ==
  ASSUME OrderInv, NEW t \in Threads, NEW u \in Threads, u # t, AnyStep(u), pc[t] # "idle", handle[op[t].hnd].kind = "strong"
  PROVE  handle'[op[t].hnd] = handle[op[t].hnd]
<1>k. TypeOK /\ handle \in [Handles -> HandleStates] /\ op[t].hnd \in Handles
  BY NodesTyped
<1>1. PICK x \in Handles : x = op[t].hnd
  BY <1>k
<1>2. handle[x].kind = "strong"
  BY <1>1
<1>3. CASE Call(u)
  <2>1. PICK h \in Handles, o \in Handles :
          \/ Clone(u, h, o) \/ CloneWeak(u, "downgrade", h, o) \/ CloneWeak(u, "cloneWeak", h, o)
          \/ Upgrade(u, h, o) \/ Update(u, h) \/ Rcu(u, h)
          \/ DropShift(u, "drop", h) \/ DropShift(u, "intoInner", h) \/ DropShiftWeak(u, h)
          \/ Reload(u, "get", h) \/ Reload(u, "reload", h) \/ Reload(u, "tryGetMut", h)
          \/ SharedGet(u, h)
    BY <1>3 DEF Call
  <2>2. Take(h, "strong") \/ Take(h, "weak") => handle'[x] = handle[x]
    BY <1>k, <1>1 DEF Take
  <2>3. Reserve(o) => handle'[x] = handle[x]
    BY <1>k, <1>2 DEF Reserve
  <2>4. CloneWeak(u, "downgrade", h, o) \/ CloneWeak(u, "cloneWeak", h, o) => handle'[x] = handle[x]
    BY <1>k, <1>2 DEF CloneWeak
  <2>5. Clone(u, h, o) \/ Upgrade(u, h, o) => Reserve(o)
    BY DEF Clone, Upgrade
  <2>6. /\ Update(u, h) \/ Rcu(u, h) => Take(h, "strong")
        /\ DropShift(u, "drop", h) \/ DropShift(u, "intoInner", h) => Take(h, "strong")
        /\ DropShiftWeak(u, h) => Take(h, "weak")
        /\ Reload(u, "get", h) \/ Reload(u, "reload", h) \/ Reload(u, "tryGetMut", h) => Take(h, "strong")
    BY DEF Update, Rcu, DropShift, DropShiftWeak, Reload
  <2>7. SharedGet(u, h) => handle' = handle
    BY DEF SharedGet
  <2> QED BY <1>1, <2>1, <2>2, <2>3, <2>4, <2>5, <2>6, <2>7
<1>4. CASE Step(u) /\ ~Return(u)
  BY <1>k, <1>4, HandlesStay
<1>5. CASE Return(u)
  <2>1. pc[u] = "ret" /\ handle' = Result(u)
    BY <1>5 DEF Return
  <2>2. op[u].f \in Storing => handle[ResultHandle(op[u])].kind = "busy"
    BY <2>1 DEF OrderInv, Local, Knows, HandleKept
  <2>3. CASE op[u].f \in {"clone", "upgrade"}
    <3>1. handle[op[u].out].kind = "busy"
      BY <2>2, <2>3 DEF Storing, Functions, ResultHandle
    <3> QED BY <1>k, <1>1, <1>2, <2>1, <2>3, <3>1 DEF Result
  <2>4. CASE op[u].f \in {"get", "reload", "tryGetMut", "update", "rcu", "drop", "dropWeak", "intoInner"}
    <3>1. handle[op[u].hnd].kind = "busy"
      BY <2>2, <2>4 DEF Storing, Functions, ResultHandle
    <3> QED BY <1>k, <1>1, <1>2, <2>1, <2>4, <3>1 DEF Result
  <2>5. CASE op[u].f \notin {"clone", "upgrade", "get", "reload", "tryGetMut", "update", "rcu", "drop", "dropWeak", "intoInner"}
    BY <2>1, <2>5 DEF Result
  <2> QED BY <2>3, <2>4, <2>5
<1> QED BY <1>3, <1>4, <1>5 DEF AnyStep

(* The copy of a reference is not the last one.                            *)
LEMMA NotLastCopy ==
  ASSUME SafeInv, NEW t \in Threads, StrongOnStart(t), handle[op[t].hnd].kind = "strong", av[t].start = Base(t)
  PROVE  ~LastStrong(av[t].start)
<1>1. SUFFICES ASSUME LastStrong(av[t].start) PROVE FALSE
  OBVIOUS
<1>2. PICK n \in Nodes : n = av[t].start
  BY SafeParts, NodesTyped
<1>3. PICK x \in Handles : x = op[t].hnd
  BY SafeParts, NodesTyped
<1>4. handle \in [Handles -> HandleStates] /\ Live(n) /\ strong[n] = 1
  BY <1>1, <1>2, SafeParts, NodesTyped DEF HeldLive, LastStrong
<1>5. handle[x].kind = "strong" /\ handle[x].node = n
  BY <1>2, <1>3 DEF Base
<1>6. <<"handle", x>> \in StrongHolders(n)
  BY <1>4, <1>5, StrongHolderOf
<1>7. <<"start", t>> \in StrongHolders(n)
  BY <1>2, StrongHolderOf
<1>8. IsFiniteSet(StrongHolders(n)) /\ Cardinality(StrongHolders(n)) <= 1
  <2>1. LiveStrong(strong[n]) = Cardinality(StrongHolders(n)) /\ strong[n] # STRONG_DROPPED
    BY <1>4, <1>6, StrongKnown
  <2>2. Cardinality(StrongHolders(n)) = 1
    BY <1>4, <2>1 DEF LiveStrong
  <2> QED BY <2>2, HoldersOf
<1>9. <<"handle", x>> = <<"start", t>>
  BY <1>6, <1>7, <1>8, OnlyOne
<1> QED BY <1>9

(* Where a call copies a reference, the original stays.                    *)
LEMMA CopiesKept ==
  ASSUME SafeInv, NEW t \in Threads, Copies(t), NEW u \in Threads, AnyStep(u)
  PROVE  Copies(t)'
<1>k. /\ TypeOK /\ handle \in [Handles -> HandleStates] /\ op[t].hnd \in Handles
      /\ op \in [Threads -> CallFrames] /\ av \in [Threads -> AdvanceFrames] /\ pc \in [Threads -> Labels]
  BY SafeParts, NodesTyped DEF TypeOK
<1>f. Frames(pc[t], av[t], pd[t])
  BY SafeParts DEF OrderInv, Local, Knows
<1>1. CASE u # t
  <2>1. Still(t)
    BY <1>1, StepFacts
  <2>2. av[t].ret \in {"ret", "reading"} => handle'[op[t].hnd] = handle[op[t].hnd]
    <3>1. av[t].ret \in {"ret", "reading"} => pc[t] # "idle" /\ handle[op[t].hnd].kind = "strong"
      BY <1>f DEF Frames, Copies
    <3> QED BY <1>1, <3>1, SafeParts, HandleLent
  <2> QED BY <2>1, <2>2 DEF Still, Copies, Base
<1>2. CASE u = t /\ Return(t)
  <2>1. pc[t] = "ret" /\ av' = av
    BY <1>2 DEF Return
  <2> QED BY <1>f, <2>1 DEF Frames, Copies
<1>3. CASE u = t /\ Step(t) /\ ~Return(t)
  <2>1. Goes(t) /\ Copied(t) /\ Asked(t)
    BY <1>3, SafeParts, NodesTyped, StepGoes
  <2>2. handle' = handle
    BY <1>k, <1>3, HandlesStay
  <2>3. SUFFICES ASSUME av'[t].ret \in {"ret", "reading"}
                 PROVE  pc'[t] \notin Dropping /\ handle[op[t].hnd].kind = "strong" /\ av'[t].start = Base(t)
    BY <2>1, <2>2 DEF Copies, Asked, Base
  <2>4. CASE av'[t].ret = av[t].ret /\ av'[t].start = av[t].start
    <3>1. pc[t] \notin Dropping /\ handle[op[t].hnd].kind = "strong" /\ av[t].start = Base(t) /\ pc[t] \notin {"dw_claim", "upd_dec"}
      BY <1>f, <2>3, <2>4 DEF Copies, Frames
    <3>2. pc[t] = "advs_a_dec" => ~LastStrong(av[t].start)
      BY <3>1, NotLastCopy DEF StrongOnStart
    <3> QED BY <2>1, <2>4, <3>1, <3>2 DEF Goes
  <2>5. CASE pc[t] = "sg_clone" /\ av'[t].start = Base(t)
    <3>1. pc'[t] = "adv_load"
      BY <2>1, <2>5 DEF Goes
    <3>2. op[t].f = "sharedGet"
      BY <2>5, SafeParts DEF Shape
    <3> QED BY <2>5, <3>1, <3>2, Borrowed
  <2> QED BY <2>1, <2>3, <2>4, <2>5 DEF Copied
<1>4. CASE u = t /\ Call(t)
  <2>1. PICK h \in Handles, o \in Handles :
          \/ Clone(t, h, o) \/ CloneWeak(t, "downgrade", h, o) \/ CloneWeak(t, "cloneWeak", h, o)
          \/ Upgrade(t, h, o) \/ Update(t, h) \/ Rcu(t, h)
          \/ DropShift(t, "drop", h) \/ DropShift(t, "intoInner", h) \/ DropShiftWeak(t, h)
          \/ Reload(t, "get", h) \/ Reload(t, "reload", h) \/ Reload(t, "tryGetMut", h)
          \/ SharedGet(t, h)
    BY <1>4 DEF Call
  <2>2. pc[t] = "idle" /\ av[t].ret = "idle"
    <3>1. pc[t] = "idle"
      BY <2>1 DEF Clone, CloneWeak, Upgrade, Update, Rcu, DropShift, DropShiftWeak, Reload, SharedGet, Enter, Admitted
    <3> QED BY <1>f, <3>1 DEF Frames
  <2>3. ASSUME av'[t].ret \notin {"ret", "reading"} PROVE Copies(t)'
    BY <2>3 DEF Copies
  <2>4. ASSUME NEW n, NEW m, NEW r \in {"jan_lock", "ds_dec", "upd_next", "upg_strong"}, StartAdvance(t, n, m, r)
        PROVE  Copies(t)'
    BY <1>k, <2>3, <2>4, AdvanceBegun
  <2>5. CASE Clone(t, h, o)
    <3>1. /\ StartAdvance(t, handle[h].node, "strong", "ret") /\ handle[h].kind = "strong" /\ handle[o].kind = "none"
          /\ handle' = [handle EXCEPT ![o] = Busy]
      BY <2>5 DEF Clone, Borrow, Reserve
    <3>2. av'[t].start = handle[h].node /\ pc'[t] = "adv_load"
      BY <1>k, <3>1, AdvanceBegun
    <3>3. op'[t].hnd = h
      <4>1. op'[t] = [IdleOp EXCEPT !.f = "clone", !.hnd = h, !.out = o, !.val = Null, !.since = count]
        BY <1>k, <2>5 DEF Clone, Enter
      <4> QED BY <4>1 DEF IdleOp
    <3>4. handle'[h] = handle[h]
      BY <1>k, <3>1
    <3> QED BY <3>1, <3>2, <3>3, <3>4 DEF Copies, Base
  <2>6. CASE CloneWeak(t, "downgrade", h, o) \/ CloneWeak(t, "cloneWeak", h, o)
    BY <2>2, <2>3, <2>6 DEF CloneWeak, locals
  <2>7. CASE Upgrade(t, h, o)
    BY <2>4, <2>7 DEF Upgrade
  <2>8. CASE Update(t, h) \/ Rcu(t, h)
    BY <2>4, <2>8 DEF Update, Rcu
  <2>9. CASE DropShift(t, "drop", h) \/ DropShift(t, "intoInner", h) \/ DropShiftWeak(t, h)
    BY <2>4, <2>9 DEF DropShift, DropShiftWeak, StartDropStrong, StartDropWeak, DropWeakRound
  <2>10. CASE Reload(t, "get", h) \/ Reload(t, "reload", h) \/ Reload(t, "tryGetMut", h) \/ SharedGet(t, h)
    BY <2>2, <2>3, <2>10 DEF Reload, SharedGet
  <2> QED BY <2>1, <2>5, <2>6, <2>7, <2>8, <2>9, <2>10
<1> QED BY <1>1, <1>2, <1>3, <1>4 DEF AnyStep

(* A destructor runs in a call that still has an owner for what it carries, *)
(* or that carries nothing.                                                *)
LEMMA DestructorsHaveOwners ==
  ASSUME TypeOK, NEW t \in Threads, Shape(t), Frames(pc[t], av[t], pd[t]), Copies(t),
         pc[t] \in {"pay_drop", "jan_free", "dw_free"} \/ (pc[t] = "upd_next" /\ op[t].f = "rcu")
  PROVE  /\ av[t].ret \notin {"ret", "reading"}
         /\ op[t].f # "clone"
         /\ op[t].f = "upgrade" => ~op[t].ok
<1>1. av[t].ret \notin {"ret", "reading"}
  BY DEF Copies, Frames
<1>2. CASE pc[t] = "pay_drop"
  <2>1. pd[t].ret \in {"advs_a_decw", "upd_decw", "dw_cas"}
    BY <1>2 DEF TypeOK, PayloadFrames, Shape
  <2>2. CASE pd[t].ret = "advs_a_decw"
    <3>1. Continues(av[t].ret, "strong", op[t].f, op[t].ok, op[t].guard, jn[t].ret, dr[t].ret)
      BY <1>2, <2>2 DEF Shape
    <3>2. dr[t].ret # "idle" \/ op[t].f \in {"update", "rcu", "get", "reload", "tryGetMut"}
      BY <1>1, <3>1 DEF Continues
    <3> QED BY <1>1, <3>2 DEF TypeOK, DropFrames, Shape, DropShape
  <2>3. CASE pd[t].ret = "upd_decw"
    BY <1>1, <2>3 DEF Shape
  <2>4. CASE pd[t].ret = "dw_cas"
    <3>1. dr[t].ret # "idle"
      BY <2>4 DEF Shape
    <3> QED BY <1>1, <3>1 DEF TypeOK, DropFrames, Shape, DropShape
  <2> QED BY <2>1, <2>2, <2>3, <2>4
<1>3. CASE pc[t] = "jan_free"
  <2>1. Continues("jan_lock", IF jn[t].ret = "dw_weak" THEN "weak" ELSE "strong",
                  op[t].f, op[t].ok, op[t].guard, jn[t].ret, dr[t].ret)
    BY <1>3 DEF Shape, Janitoring
  <2>2. dr[t].ret # "idle" \/ op[t].f \in {"update", "rcu", "get", "reload", "tryGetMut"}
    BY <2>1 DEF Continues
  <2> QED BY <1>1, <2>2 DEF TypeOK, DropFrames, Shape, DropShape
<1>4. CASE pc[t] = "dw_free"
  <2>1. dr[t].ret # "idle"
    BY <1>4 DEF Shape, Dying
  <2> QED BY <1>1, <2>1 DEF TypeOK, DropFrames, Shape, DropShape
<1>5. CASE pc[t] = "upd_next" /\ op[t].f = "rcu"
  BY <1>1, <1>5
<1> QED BY <1>2, <1>3, <1>4, <1>5

(* What a step of a call leaves of a panic that it or an earlier step has  *)
(* caught.                                                                 *)
LEMMA CaughtWorks ==
  ASSUME SafeInv, PanicInv, NEW t \in Threads, Work(t), panicking'[t]
  PROVE  Caught(t)'
<1>k. /\ TypeOK /\ Shape(t) /\ Frames(pc[t], av[t], pd[t]) /\ UpToDate(pc[t], item[t], op[t]) /\ Copies(t) /\ Caught(t)
      /\ item[t] \in Nodes /\ Published(item[t]) /\ panicking \in [Threads -> BOOLEAN]
  BY SafeParts, NodesTyped DEF OrderInv, Local, Knows, OnChain, PanicInv
<1>1. Step(t) /\ ~Return(t) /\ AnyStep(t)
  BY DEF Work, Return, AnyStep
<1>2. Goes(t) /\ Copied(t) /\ Asked(t) /\ Destructs(t)
  BY <1>k, <1>1, StepGoes
<1>3. \/ panicking[t] /\ pc[t] # "sg_clone" /\ (pc[t] = "get_done" => jn[t].rerun)
      \/ pc[t] \in {"pay_drop", "jan_free", "dw_free"} \/ (pc[t] = "upd_next" /\ op[t].f = "rcu")
  <2>1. panicking[t] \/ drops' # drops
    BY <1>k DEF Work, Catch, Destroys
  <2> QED BY <1>2, <2>1 DEF Work, Resumes, Destructs
<1>4. /\ pc[t] \notin {"get_load", "sg_load", "sg_light", "sg_clone"}
      /\ av[t].ret # "reading" /\ op[t].f # "clone" /\ (op[t].f = "upgrade" => ~op[t].ok)
      /\ pc[t] = "get_done" => jn[t].rerun
  <2>1. CASE panicking[t] /\ pc[t] # "sg_clone" /\ (pc[t] = "get_done" => jn[t].rerun)
    BY <1>k, <2>1 DEF Caught
  <2>2. CASE pc[t] \in {"pay_drop", "jan_free", "dw_free"} \/ (pc[t] = "upd_next" /\ op[t].f = "rcu")
    BY <1>k, <2>2, DestructorsHaveOwners
  <2> QED BY <1>3, <2>1, <2>2
<1>5. pc'[t] # "reading"
  <2>1. CASE pc[t] = "get_done"
    <3>1. ReloadAgain(t)
      <4>1. GetDone(t)
        BY <1>1, <2>1, StepAt
      <4> QED BY <1>4, <2>1, <4>1 DEF GetDone
    <3> QED BY <1>k, <3>1, AdvanceBegun DEF ReloadAgain
  <2>2. CASE pc[t] # "get_done"
    BY <1>2, <1>4, <2>2 DEF Goes
  <2> QED BY <2>1, <2>2
<1>6. ASSUME pc'[t] \in SharedGetting
      PROVE  pc'[t] \in {"sg_dec", "sg_clone"} /\ stamp'[item'[t]] >= op'[t].since
  <2>1. stamp[item[t]] >= op[t].since /\ pc'[t] \in {"sg_dec", "sg_clone"}
    <3>1. CASE pc[t] \in SharedGetting
      <4>1. panicking[t]
        BY <1>3, <3>1
      <4>2. pc[t] = "sg_dec" /\ stamp[item[t]] >= op[t].since
        BY <1>k, <1>4, <3>1, <4>1 DEF Caught
      <4> QED BY <1>2, <4>2 DEF Goes
    <3>2. CASE pc[t] \in Dying \cup {"ds_dec"} /\ pc'[t] = "sg_dec"
      BY <1>k, <3>2 DEF UpToDate, Dying
    <3> QED BY <1>2, <1>6, <3>1, <3>2 DEF Goes
  <2>2. item'[t] = item[t] /\ op'[t].since = op[t].since
    BY <1>2, <2>1 DEF Goes, Asked
  <2>3. stamp'[item[t]] = stamp[item[t]]
    BY <1>k, <1>1, StepFacts DEF Grows
  <2> QED BY <2>1, <2>2, <2>3
<1>7. av'[t].ret # "reading"
  BY <1>2, <1>4 DEF Copied
<1> QED BY <1>2, <1>4, <1>5, <1>6, <1>7 DEF Caught, Goes, Asked

(* Every step keeps it.                                                    *)
LEMMA PanicStepKeeps ==
  ASSUME SafeInv, PanicInv, NEW t \in Threads, PanicCall(t) \/ PanicStep(t)
  PROVE  SafeInv' /\ PanicInv'
<1>k. /\ panicking \in [Threads -> BOOLEAN] /\ \A u \in Threads : Copies(u) /\ Caught(u)
      /\ pc \in [Threads -> Labels]
  BY SafeParts, NodesTyped DEF PanicInv, TypeOK
<1>1. CASE Resume(t)
  <2>1. SafeInv'
    <3>1. pc[t] = "sg_clone" => stamp[item[t]] >= op[t].since
      BY <1>k, <1>1 DEF Resume, Caught
    <3> QED BY <1>1, <3>1, ResumeSafe
  <2>2. /\ pc' = [pc EXCEPT ![t] = "ret"] /\ panicking' = panicking
        /\ UNCHANGED <<stamp, handle, item, av, op>>
    BY <1>1 DEF Resume, Goto, ReadOnly, heap, client, locals
  <2>3. ASSUME NEW u \in Threads PROVE Copies(u)' /\ Caught(u)'
    <3>1. pc'[u] = IF u = t THEN "ret" ELSE pc[u]
      BY <1>k, <2>2
    <3>2. Copies(u)'
      BY <1>k, <2>2, <3>1 DEF Copies, Base
    <3>3. Caught(u)'
      BY <1>k, <2>2, <3>1 DEF Caught
    <3> QED BY <3>2, <3>3
  <2> QED BY <1>k, <2>1, <2>2, <2>3 DEF PanicInv
<1>2. CASE PanicCall(t) \/ Work(t) \/ Leave(t)
  <2>1. AnyStep(t)
    BY <1>2 DEF PanicCall, Work, Leave, AnyStep, Step, ApiStep
  <2>2. SafeInv'
    BY <2>1, StepSafe
  <2>3. panicking' \in [Threads -> BOOLEAN] /\ \A u \in Threads \ {t} : panicking'[u] = panicking[u]
    BY <1>k, <1>2 DEF PanicCall, Work, Catch, Leave
  <2>4. ASSUME NEW u \in Threads PROVE Copies(u)'
    BY <1>k, <2>1, CopiesKept
  <2>5. ASSUME NEW u \in Threads \ {t} PROVE Caught(u)'
    <3>1. Still(u) /\ Grows
      BY <2>1, StepFacts
    <3>2. item[u] \in Nodes /\ Published(item[u])
      BY SafeParts, NodesTyped DEF OrderInv, Local, Knows, OnChain
    <3> QED BY <1>k, <2>3, <2>5, <3>1, <3>2 DEF Caught, Still, Grows
  <2>6. Caught(t)'
    <3>1. CASE PanicCall(t)
      <4>1. pc[t] = "idle"
        <5>1. PICK h \in Handles, o \in Handles :
                \/ Clone(t, h, o) \/ CloneWeak(t, "downgrade", h, o) \/ CloneWeak(t, "cloneWeak", h, o)
                \/ Upgrade(t, h, o) \/ Update(t, h) \/ Rcu(t, h)
                \/ DropShift(t, "drop", h) \/ DropShift(t, "intoInner", h) \/ DropShiftWeak(t, h)
                \/ Reload(t, "get", h) \/ Reload(t, "reload", h) \/ Reload(t, "tryGetMut", h)
                \/ SharedGet(t, h)
          BY <3>1 DEF PanicCall, Call
        <5> QED BY <5>1 DEF Clone, CloneWeak, Upgrade, Update, Rcu, DropShift, DropShiftWeak, Reload, SharedGet, Enter, Admitted
      <4>2. ~panicking'[t]
        BY <1>k, <3>1, <4>1 DEF PanicCall, Caught
      <4> QED BY <4>2 DEF Caught
    <3>2. CASE Work(t)
      BY <3>2, CaughtWorks DEF Caught
    <3>3. CASE Leave(t)
      BY <1>k, <3>3 DEF Leave, Caught
    <3> QED BY <1>2, <3>1, <3>2, <3>3
  <2> QED BY <2>2, <2>3, <2>4, <2>5, <2>6 DEF PanicInv
<1> QED BY <1>1, <1>2 DEF PanicStep

(* With destructors that panic, too, the chain stays as it is without.     *)
LEMMA PanicsKeep == PanicSpec => [](SafeInv /\ PanicInv)
<1>1. PanicInit => SafeInv /\ PanicInv
  <2>1. ASSUME PanicInit PROVE SafeInv /\ PanicInv
    <3>1. Init /\ panicking = [t \in Threads |-> FALSE]
      BY <2>1 DEF PanicInit
    <3>2. \A t \in Threads : av[t] = IdleAdvance
      BY <3>1 DEF Init
    <3>3. IdleAdvance.ret = "idle"
      BY DEF IdleAdvance
    <3> QED BY <3>1, <3>2, <3>3, InitSafe DEF PanicInv, Copies, Caught
  <2> QED BY <2>1
<1>2. SafeInv /\ PanicInv /\ [PanicNext]_panicVars => SafeInv' /\ PanicInv'
  <2>1. ASSUME SafeInv, PanicInv, UNCHANGED vars, UNCHANGED panicking PROVE SafeInv' /\ PanicInv'
    <3>1. UNCHANGED <<pc, stamp, handle, item, av, op>>
      BY <2>1 DEF vars, heap, client, locals
    <3>2. ASSUME NEW u \in Threads PROVE Copies(u)' /\ Caught(u)'
      BY <2>1, <3>1 DEF Copies, Caught, Base, PanicInv
    <3> QED BY <2>1, <3>2, StutterSafe DEF PanicInv
  <2> QED BY <2>1, PanicStepKeeps DEF PanicNext, Rest, panicVars
<1> QED BY <1>1, <1>2, PTL DEF PanicSpec

(* A caught panic is never raised where it would leak a reference: clone,  *)
(* a successful upgrade and the clone that shared_get falls back on catch  *)
(* none, because the node they copy from keeps a reference while they run. *)
THEOREM PanicsHaveOwners == PanicSpec => []NoPanicWithoutOwner
<1>1. PanicInv => NoPanicWithoutOwner
  BY DEF PanicInv, Caught, NoPanicWithoutOwner
<1> QED BY <1>1, PanicsKeep, PTL

(* Wherever a panic of a destructor is raised again, resume_any_panics is  *)
(* called where the chain is in order: no freed node is touched, both      *)
(* counts are exact, and every handle points at a node with its value. (It *)
(* is the panic of a closure, which nobody catches, that breaks the last.) *)
THEOREM PanicsKeepChainSafe ==
  PanicSpec => [](NoUseAfterFree /\ StrongExact /\ WeakExact /\ UnwindingKeepsHandles)
<1>1. SafeInv => NoUseAfterFree
  BY DerefsLive
<1>2. SafeInv => StrongExact /\ WeakExact
  BY DEF SafeInv
<1>3. SafeInv => UnwindingKeepsHandles
  <2>1. ASSUME SafeInv, NEW h \in Handles, handle[h].kind = "strong" PROVE Live(handle[h].node) /\ drops[handle[h].node] = 0
    <3>1. handle[h].node \in Nodes
      BY <2>1, NodesTyped DEF SafeInv, HandleStates
    <3>2. Kept(handle[h].node)
      BY <2>1 DEF Kept
    <3> QED BY <2>1, <3>1, <3>2, KeptIntact
  <2> QED BY <2>1 DEF UnwindingKeepsHandles
<1> QED BY <1>1, <1>2, <1>3, PanicsKeep, PTL

-----------------------------------------------------------------------------
(* Garbage: while a node is left there is a handle, or a call that will     *)
(* leave a handle behind or free the node.                                  *)

(* Who has a strong reference, or a weak one that is not about to go, is   *)
(* not at the end of a call.                                               *)
LEMMA HolderInCharge ==
  ASSUME NEW u \in Threads,
         \/ StrongOnStart(u) \/ StrongOnItem(u) \/ StrongOnNew(u) \/ WeakOnStart(u) \/ WeakForGroup(u)
         \/ pc[u] \in {"adv_dec", "adv_unweak", "adv_reload", "adv_weak", "sg_recheck", "sg_light"}
         \/ WeakOnItem(u) /\ (HasNext(item[u]) \/ Leftmost(item[u]))
  PROVE  InCharge(u)
<1>1. CASE StrongOnStart(u)
  BY <1>1 DEF StrongOnStart, InCharge, Leaves, Walking, Swapping, SwappedIn, Dropping, Redirecting
<1>2. CASE StrongOnItem(u)
  BY <1>2 DEF StrongOnItem, At, HoldsValue, InCharge, Yields, Leaves, SwappedIn, Dropping, Redirecting, Janitoring
<1>3. CASE StrongOnNew(u)
  BY <1>3 DEF StrongOnNew, At, InCharge, Leaves, Dropping, Redirecting, Janitoring
<1>4. CASE WeakOnStart(u)
  BY <1>4 DEF WeakOnStart, At, InCharge, Leaves, Walking, Dropping, Redirecting, Janitoring
<1>5. CASE WeakForGroup(u)
  BY <1>5 DEF WeakForGroup, InCharge, Leaves, Dropping, Redirecting
<1>6. CASE pc[u] \in {"adv_dec", "adv_unweak", "adv_reload", "adv_weak", "sg_recheck", "sg_light"}
  BY <1>6 DEF InCharge, Leaves, Dropping, Redirecting
<1>7. CASE WeakOnItem(u) /\ (HasNext(item[u]) \/ Leftmost(item[u]))
  <2>1. Returns(u) \/ Leftmost(item[u])
    BY <1>7 DEF Returns
  <2>2. pc[u] # "idle" /\ pc[u] # "ret"
    BY <1>7 DEF WeakOnItem, At, Walking, Swapping, SwappedIn, Janitoring
  <2> QED
    BY <2>1, <2>2 DEF InCharge
<1> QED
  BY <1>1, <1>2, <1>3, <1>4, <1>5, <1>6, <1>7

(* A strong reference to a live node belongs to a handle or to a call in   *)
(* charge of the chain.                                                    *)
LEMMA StrongAttended ==
  ASSUME NEW n \in Nodes, NEW x \in StrongHolders(n), handle \in [Handles -> HandleStates]
  PROVE  \/ HandleLeft
         \/ \E u \in Threads : /\ InCharge(u)
                               /\ \/ StrongOnStart(u) \/ StrongOnItem(u) \/ StrongOnNew(u)
                                  \/ pc[u] \in {"sg_recheck", "sg_light"}
<1>1. CASE \E h \in Handles : handle[h] = [kind |-> "strong", node |-> n]
  BY <1>1 DEF HandleLeft
<1>2. CASE \E u \in Threads : \/ StrongOnStart(u) \/ StrongOnItem(u) \/ StrongOnNew(u)
                              \/ pc[u] \in {"sg_recheck", "sg_light"}
  BY <1>2, HolderInCharge
<1> QED
  BY <1>1, <1>2 DEF StrongHolders

(* What a janitor has locked is its start node or left of it.              *)
LEMMA LockedLeft ==
  ASSUME ListInv, NEW u \in Threads, NEW n \in Nodes, Live(n), HasLocked(u, n)
  PROVE  /\ item[u] \in Nodes /\ Live(item[u]) /\ pc[u] \in Janitoring \ {"jan_lock"}
         /\ n = item[u] \/ (Before(n, item[u]) /\ HasNext(n))
<1>1. /\ jn[u] \in JanitorFrames /\ item[u] \in Nodes /\ stamp \in [Nodes -> Nat]
      /\ JanitorKnows(u) /\ (pc[u] \in Janitoring => Live(item[u]))
      /\ jn[u].cur \in Ptrs /\ jn[u].fail \in Ptrs /\ jn[u].right \in Ptrs /\ jn[u].carry \in Ptrs /\ jn[u].del \in Ptrs
      /\ \A m \in Nodes : m # Null
  BY JanitorFacts
<1>2. pc[u] \in Janitoring \ {"jan_lock"}
  BY DEF HasLocked, Janitoring, Redirecting, Freeing
<1>3. \A m, k \in Nodes : Live(m) /\ Live(k) /\ Before(m, k) => HasNext(m)
  BY Line DEF ListInv
<1>4. n = item[u] \/ Before(n, item[u])
  <2>1. CASE pc[u] \in {"jan_sweep"} \cup Redirecting
    BY <2>1, <1>1, <1>2 DEF HasLocked, Redirecting, Freeing, Janitoring
  <2>2. CASE pc[u] = "jan_clean"
    <3>1. n = item[u] \/ (Before(jn[u].fail, n) /\ ~Before(jn[u].cur, n))
      BY <2>2 DEF HasLocked, Redirecting, Freeing
    <3>2. jn[u].cur \in Nodes /\ jn[u].fail \in Nodes /\ (jn[u].cur # jn[u].fail => Before(jn[u].cur, item[u]))
      BY <2>2, <1>1 DEF JanitorKnows, Ptrs
    <3> QED
      BY <3>1, <3>2, <1>1 DEF Before
  <2>3. CASE pc[u] \in {"jan_final", "jan_del", "jan_free"}
    <3>1. n = item[u] \/ n = jn[u].carry \/ ~Before(jn[u].cur, n)
      BY <2>3 DEF HasLocked, Redirecting, Freeing
    <3>2. jn[u].right \in Nodes /\ jn[u].cur \in Nodes /\ ~Before(item[u], jn[u].right)
          /\ jn[u].carry = IF jn[u].right = item[u] THEN Null ELSE jn[u].right
      BY <2>3, <1>1 DEF JanitorKnows, Freeing, Ptrs
    <3>3. Before(jn[u].cur, jn[u].right)
      BY <2>3, <1>1, JanitorFacts, <3>2 DEF JanitorOrdered, Older, Before
    <3>4. Live(jn[u].right)
      BY <2>3, <1>1 DEF JanitorKnows, Freeing
    <3>5. jn[u].right = item[u] \/ Before(jn[u].right, item[u])
      BY <3>2, <3>4, <1>1, <1>2, JanitorFacts
    <3> QED
      BY <3>1, <3>2, <3>3, <3>5, <1>1 DEF Before
  <2>4. CASE pc[u] \in {"jan_clearprev", "jan_unlink"}
    <3>1. n = item[u] \/ n = jn[u].carry \/ (jn[u].del # Null /\ ~Before(jn[u].del, n))
      BY <2>4 DEF HasLocked, Redirecting, Freeing
    <3>2. jn[u].right \in Nodes /\ ~Before(item[u], jn[u].right) /\ Live(jn[u].right)
          /\ jn[u].carry = (IF jn[u].right = item[u] THEN Null ELSE jn[u].right) /\ Adjacent(jn[u].right, jn[u].del)
      BY <2>4, <1>1 DEF JanitorKnows, Freeing, Ptrs
    <3>3. jn[u].right = item[u] \/ Before(jn[u].right, item[u])
      BY <3>2, <1>1, <1>2, JanitorFacts
    <3>4. jn[u].del # Null => jn[u].del \in Nodes /\ Before(jn[u].del, jn[u].right)
      BY <3>2, <1>1 DEF Adjacent, Ptrs
    <3> QED
      BY <3>1, <3>2, <3>3, <3>4, <1>1 DEF Before
  <2>5. CASE pc[u] \in {"jan_carry", "jan_uncarry"}
    <3>1. n = item[u] \/ n = jn[u].carry \/ (pc[u] = "jan_carry" /\ ~Before(jn[u].right, n))
      BY <2>5 DEF HasLocked, Redirecting, Freeing
    <3>2. jn[u].carry # Null => Before(jn[u].carry, item[u])
      BY <2>5, <1>1 DEF JanitorKnows
    <3>3. pc[u] = "jan_carry" => jn[u].right \in Nodes /\ Before(jn[u].right, item[u])
      BY <2>5, <1>1 DEF JanitorKnows, Ptrs
    <3> QED
      BY <3>1, <3>2, <3>3, <1>1 DEF Before
  <2>6. CASE pc[u] = "jan_unlock"
    BY <2>6 DEF HasLocked, Redirecting, Freeing
  <2> QED
    BY <1>2, <2>1, <2>2, <2>3, <2>4, <2>5, <2>6 DEF Janitoring, Redirecting
<1> QED
  BY <1>1, <1>2, <1>3, <1>4

(* A disturbed lock stays disturbed until its owner gives it back.         *)
LEMMA DisturbedStays ==
  ASSUME SafeInv, NEW t \in Threads, AnyStep(t), NEW n \in Nodes, Live(n), next[n].disturbed, ~HasLocked(t, n)
  PROVE  next'[n].disturbed
<1>1. next \in [Nodes -> NextWords] /\ TypeOK
  BY SafeParts, NodesTyped
<1>2. CASE JanitorStep(t)
  <2>1. /\ ListInv /\ jn[t] \in JanitorFrames /\ item[t] \in Nodes /\ JanitorKnows(t) /\ stamp \in [Nodes -> Nat]
        /\ jn[t].cur \in Ptrs /\ jn[t].carry \in Ptrs /\ jn[t].fail \in Ptrs
    BY ListParts, JanitorFacts
  <2>2. n # item[t] \/ pc[t] = "jan_lock"
    BY <1>2 DEF HasLocked, Janitoring, JanitorStep, JanitorLockStart, JanitorSweep, JanitorCleanup, JanitorUnlockStart,
       JanitorStrong, JanitorSetNext, JanitorCheckAdvance, JanitorFinal, JanitorDelete, JanitorFree, JanitorClearPrev,
       JanitorUnlink, JanitorCarry, JanitorUncarry, Janitor
  <2>3. CASE JanitorLockStart(t)
    BY <2>3, <1>1, <2>1 DEF JanitorLockStart, Lock, Disturb, NextWords
  <2>4. CASE JanitorSweep(t)
    BY <2>4, <1>1, <2>1 DEF JanitorSweep, Lock, Disturb, NextWords
  <2>5. CASE JanitorCleanup(t)
    <3>1. pc[t] = "jan_clean"
      BY <2>5 DEF JanitorCleanup, Janitor
    <3>2. jn[t].cur \notin {jn[t].fail, Null} => n # jn[t].cur
      BY <3>1, <2>1 DEF JanitorKnows, HasLocked, Before, Ptrs
    <3> QED
      BY <2>5, <3>2, <1>1, <2>1 DEF JanitorCleanup, Unlock, NextWords
  <2>6. CASE JanitorUnlockStart(t)
    BY <2>6, <1>1, <2>1, <2>2 DEF JanitorUnlockStart, Janitor, Unlock, NextWords
  <2>7. CASE JanitorSetNext(t)
    BY <2>7, <1>1 DEF JanitorSetNext, SetNext, NextWords
  <2>8. CASE JanitorCarry(t) \/ JanitorUncarry(t)
    <3>1. n # jn[t].carry
      BY <2>8 DEF HasLocked, Freeing, JanitorCarry, JanitorUncarry, Janitor
    <3> QED
      BY <2>8, <3>1, <1>1 DEF JanitorCarry, JanitorUncarry, ReleaseCarry, Unlock, NextWords
  <2>9. CASE \/ JanitorStrong(t) \/ JanitorCheckAdvance(t) \/ JanitorFinal(t) \/ JanitorDelete(t)
             \/ JanitorFree(t) \/ JanitorClearPrev(t) \/ JanitorUnlink(t)
    BY <2>9 DEF JanitorStrong, JanitorCheckAdvance, JanitorFinal, JanitorDelete, JanitorFree, JanitorClearPrev,
       JanitorUnlink, ReadOnly, OnlyWeak, OnlyPrev, heap
  <2> QED
    BY <1>2, <2>3, <2>4, <2>5, <2>6, <2>7, <2>8, <2>9 DEF JanitorStep
<1>3. CASE PayloadMark(t)
  BY <1>3, <1>1 DEF PayloadMark, NextWords
<1>4. CASE UpdateCas(t)
  BY <1>4, <1>1 DEF UpdateCas, SetNext, NextWords
<1>5. CASE ~JanitorStep(t) /\ ~PayloadMark(t) /\ ~UpdateCas(t)
  BY <1>5, WordsWritten
<1> QED
  BY <1>2, <1>3, <1>4, <1>5

(* A call that leaves has a weak reference to its node. *)
LEMMA LeaverHeld ==
  ASSUME SafeInv, NEW u \in Threads, Leaves(u)
  PROVE  /\ WeakOnItem(u) /\ item[u] \in Nodes /\ Live(item[u])
         /\ pc[u] \in Janitoring => pc[u] # "jan_lock" /\ HasLocked(u, item[u])
<1>1. WeakOnItem(u)
  BY DEF Leaves, WeakOnItem, At, Dropping, Redirecting, Janitoring
<1>2. item[u] \in Nodes /\ Live(item[u])
  BY <1>1, SafeParts, NodesTyped DEF HeldLive
<1>3. pc[u] # "jan_lock"
  BY DEF Leaves, Dropping, Redirecting
<1> QED
  BY <1>1, <1>2, <1>3 DEF HasLocked

(* A call in charge stays so while the others go on. *)
LEMMA ChargeStays ==
  ASSUME SafeInv, NEW t \in Threads, AnyStep(t), NEW u \in Threads, u # t, InCharge(u)
  PROVE  InCharge(u)'
<1>1. /\ pc'[u] = pc[u] /\ item'[u] = item[u] /\ av'[u] = av[u] /\ pd'[u] = pd[u]
      /\ jn'[u] = jn[u] /\ dr'[u] = dr[u] /\ op'[u] = op[u]
  BY StepFacts DEF Still
<1>2. pc'[u] # "idle" /\ (pc'[u] = "ret" => Yields(u)')
  BY <1>1 DEF InCharge, Yields
<1>3. Leaves(u)' <=> Leaves(u)
  BY <1>1 DEF Leaves
<1>4. ASSUME Leaves(u) PROVE Returns(u)' \/ Leftmost(item[u])'
  <2>1. PICK i \in Nodes : i = item[u]
    BY <1>4, LeaverHeld
  <2>2. item'[u] = i /\ Live(i)
    BY <1>1, <1>4, <2>1, LeaverHeld
  <2>3. CASE HasNext(i)
    <3>1. HasNext(i)'
      BY <2>3, StepFacts DEF Grows
    <3> QED
      BY <3>1, <2>2 DEF Returns, HasNext
  <2>4. CASE pc[u] \in Janitoring \cup {"dw_weak"} /\ jn[u].rerun
    BY <2>4, <1>1 DEF Returns
  <2>5. CASE pc[u] \in Janitoring /\ next[i].disturbed
    <3>1. ListInv /\ LocksHeld
      BY ListParts, SafeParts
    <3>2. HasLocked(u, i)
      BY <2>1, <2>5, <1>4, LeaverHeld
    <3>3. ~HasLocked(t, i)
      BY <3>1, <3>2, <2>2 DEF LocksHeld
    <3>4. next'[i].disturbed
      BY <3>3, <2>2, <2>5, DisturbedStays
    <3> QED
      BY <3>4, <2>2, <2>5, <1>1 DEF Returns
  <2>6. CASE Leftmost(i)
    <3>1. \A m \in Nodes : mem'[m] = "live" => ~(stamp'[m] < stamp'[i])
      BY <2>6, <2>2, LeftmostStays
    <3> QED
      BY <3>1, <2>2 DEF Leftmost, Live, Before
  <2> QED
    BY <1>4, <2>1, <2>3, <2>4, <2>5, <2>6 DEF InCharge, Returns
<1> QED
  BY <1>2, <1>3, <1>4 DEF InCharge

(* A new call has a handle, makes one, or is in charge. *)
LEMMA CallAttends ==
  ASSUME SafeInv, NEW t \in Threads, Call(t)
  PROVE  HandleLeft' \/ InCharge(t)'
<1>1. TypeOK /\ pc \in [Threads -> Labels] /\ handle \in [Handles -> HandleStates]
  BY SafeParts, NodesTyped DEF TypeOK
<1>2. PICK h \in Handles, o \in Handles :
        \/ Clone(t, h, o) \/ CloneWeak(t, "downgrade", h, o) \/ CloneWeak(t, "cloneWeak", h, o)
        \/ Upgrade(t, h, o) \/ Update(t, h) \/ Rcu(t, h)
        \/ DropShift(t, "drop", h) \/ DropShift(t, "intoInner", h) \/ DropShiftWeak(t, h)
        \/ Reload(t, "get", h) \/ Reload(t, "reload", h) \/ Reload(t, "tryGetMut", h)
        \/ SharedGet(t, h)
  BY DEF Call
<1>3. ASSUME pc'[t] \in {"adv_load", "get_load", "sg_load"} PROVE InCharge(t)'
  BY <1>3 DEF InCharge, Leaves, Dropping, Redirecting
<1>4. CASE CloneWeak(t, "downgrade", h, o) \/ CloneWeak(t, "cloneWeak", h, o)
  <2>1. handle'[o].kind = "weak"
    BY <1>1, <1>4 DEF CloneWeak
  <2> QED
    BY <2>1 DEF HandleLeft
<1>5. CASE Clone(t, h, o) \/ Upgrade(t, h, o)
  BY <1>5, <1>3, <1>1 DEF Clone, Upgrade, StartAdvance, Goto
<1>6. CASE Update(t, h) \/ Rcu(t, h)
  BY <1>6, <1>3, <1>1 DEF Update, Rcu, StartAdvance, Goto
<1>7. CASE DropShift(t, "drop", h) \/ DropShift(t, "intoInner", h) \/ DropShiftWeak(t, h)
  BY <1>7, <1>3, <1>1 DEF DropShift, DropShiftWeak, StartDropStrong, StartDropWeak, DropWeakRound, StartAdvance, Goto
<1>8. CASE Reload(t, "get", h) \/ Reload(t, "reload", h) \/ Reload(t, "tryGetMut", h)
  BY <1>8, <1>3, <1>1 DEF Reload, Goto
<1>9. CASE SharedGet(t, h)
  BY <1>9, <1>3, <1>1 DEF SharedGet, Goto
<1> QED
  BY <1>2, <1>4, <1>5, <1>6, <1>7, <1>8, <1>9

(* A call that returns leaves the handles there are, or its own.           *)
LEMMA ReturnAttends ==
  ASSUME SafeInv, NEW t \in Threads, Return(t), HandleLeft \/ InCharge(t)
  PROVE  HandleLeft'
<1>1. TypeOK /\ handle \in [Handles -> HandleStates] /\ pc[t] = "ret" /\ handle' = Result(t) /\ Shape(t)
      /\ op[t] \in CallFrames /\ op[t].hnd \in Handles /\ op[t].out \in Handles
  BY SafeParts, NodesTyped DEF TypeOK, Return, CallFrames
<1>2. HandleKept(pc[t], op[t])
  BY SafeParts DEF OrderInv, Local, Knows
<1>3. CASE Yields(t)
  <2>1. CASE op[t].f \in {"clone", "upgrade"}
    <3>1. op[t].ok
      BY <1>1, <1>3, <2>1 DEF Yields, Shape
    <3>2. handle'[op[t].out].kind = "strong"
      BY <1>1, <2>1, <3>1 DEF Result
    <3> QED
      BY <3>2, <1>1 DEF HandleLeft
  <2>2. CASE op[t].f \notin {"clone", "upgrade"}
    <3>1. handle'[op[t].hnd].kind = "strong"
      BY <1>1, <2>2, <1>3 DEF Result, Yields
    <3> QED
      BY <3>1, <1>1 DEF HandleLeft
  <2> QED
    BY <2>1, <2>2
<1>4. CASE HandleLeft
  <2>1. PICK h \in Handles : handle[h].kind \in {"strong", "weak"}
    BY <1>4 DEF HandleLeft
  <2>2. op[t].f \in Storing => h # ResultHandle(op[t])
    BY <1>1, <1>2, <2>1 DEF HandleKept
  <2>3. handle'[h] = handle[h]
    <3>1. CASE op[t].f \in {"clone", "upgrade"}
      BY <3>1, <1>1, <2>2 DEF Result, ResultHandle, Storing, Functions
    <3>2. CASE op[t].f \in {"get", "reload", "tryGetMut", "update", "rcu"}
      BY <3>2, <1>1, <2>2 DEF Result, ResultHandle, Storing, Functions
    <3>3. CASE op[t].f \in {"drop", "dropWeak", "intoInner"}
      BY <3>3, <1>1, <2>2 DEF Result, ResultHandle, Storing, Functions
    <3>4. CASE op[t].f \notin {"clone", "upgrade", "get", "reload", "tryGetMut", "update", "rcu", "drop", "dropWeak", "intoInner"}
      BY <3>4, <1>1 DEF Result
    <3> QED
      BY <3>1, <3>2, <3>3, <3>4
  <2> QED
    BY <2>1, <2>3 DEF HandleLeft
<1> QED
  BY <1>1, <1>3, <1>4 DEF InCharge

(* Only a dying call, or its janitor, gets to where it may leave nodes     *)
(* behind.                                                                 *)
LEMMA LeavesFrom ==
  ASSUME SafeInv, NEW t \in Threads, AnyStep(t), Leaves(t)'
  PROVE  \/ pc[t] \in Janitoring \cup Dying
         \/ pc[t] \in Dropping /\ pd[t].ret = "dw_cas" /\ Leaves(t)
<1>1. Came(t) /\ TypeOK
  BY Arrivals, SafeParts, NodesTyped
<1>2. CASE pc'[t] \in {"dw_weak", "dw_next", "dw_claim", "dw_cas"}
  BY <1>1, <1>2 DEF Came, Janitoring, Dying, Leaves, Dropping
<1>3. CASE pc'[t] = "pay_mark" /\ pd'[t].ret = "dw_cas"
  <2>1. pc[t] \in {"advs_a_dec", "dw_claim", "upd_dec"}
    BY <1>1, <1>3 DEF Came
  <2>2. pd \in [Threads -> PayloadFrames] /\ pc \in [Threads -> Labels]
    BY <1>1 DEF TypeOK
  <2>3. pc[t] # "advs_a_dec"
    <3>1. ASSUME StrongLeaveStart(t), av[t].ret # "pay_mark" PROVE FALSE
      BY <3>1, <1>3, <2>2 DEF StrongLeaveStart, StartPayloadDrop, ReturnAdvance, Goto
    <3>2. pc[t] = "advs_a_dec" => StrongLeaveStart(t)
      BY StepAt
    <3>3. av[t].ret # "pay_mark"
      BY <1>1 DEF TypeOK, AdvanceFrames
    <3> QED BY <3>1, <3>2, <3>3
  <2>4. pc[t] # "upd_dec"
    <3>1. ASSUME UpdateDec(t) PROVE FALSE
      BY <3>1, <1>3, <2>2 DEF UpdateDec, StartPayloadDrop, Goto
    <3>2. pc[t] = "upd_dec" => UpdateDec(t)
      BY StepAt
    <3> QED BY <3>1, <3>2
  <2> QED
    BY <2>1, <2>3, <2>4 DEF Dying
<1>4. CASE pc'[t] = "pay_drop" /\ pd'[t].ret = "dw_cas"
  <2>1. pc[t] = "pay_mark" /\ pd'[t] = pd[t]
    BY <1>4, PayloadEffects
  <2> QED
    BY <2>1, <1>4 DEF Leaves, Dropping
<1>5. CASE pc'[t] \in Janitoring \ {"jan_lock"}
  BY <1>1, <1>5 DEF Came
<1> QED
  BY <1>2, <1>3, <1>4, <1>5 DEF Leaves, Dropping, Janitoring, Redirecting

(* A call comes to its end from a drop, with a reader, or with a handle.    *)
LEMMA EndsFrom ==
  ASSUME SafeInv, NEW t \in Threads, Step(t), ~Return(t), pc'[t] = "ret"
  PROVE  pc[t] \in {"ds_dec", "dw_cas", "dw_free"} \/ op[t].f = "sharedGet" \/ Yields(t)'
<1>1. TypeOK /\ Shape(t) /\ Asked(t) /\ pc \in [Threads -> Labels] /\ av[t] \in AdvanceFrames /\ pd[t] \in PayloadFrames
  BY SafeParts, NodesTyped, StepGoes DEF TypeOK
<1>2. op'[t].f = op[t].f
  BY <1>1 DEF Asked
<1>3. ASSUME op[t].f \in {"clone", "get", "reload", "tryGetMut", "update", "rcu"} PROVE Yields(t)'
  BY <1>2, <1>3 DEF Yields
<1>4. CASE AdvanceStep(t)
  <2>1. pd[t].ret # "ret"
    BY <1>1 DEF PayloadFrames
  <2>2. PayloadMark(t) \/ PayloadDrop(t) => pc'[t] # "ret"
    BY <1>1, <2>1 DEF PayloadMark, PayloadDrop, Goto
  <2>3. \/ ReturnAdvance(t) /\ pc[t] \in Advancing
        \/ PayloadMark(t) \/ PayloadDrop(t)
        \/ pc'[t] # "ret"
    <3>1. AdvanceLoad(t) \/ WeakLeaveStart(t) => (ReturnAdvance(t) /\ pc[t] \in Advancing) \/ pc'[t] # "ret"
      BY <1>1 DEF AdvanceLoad, WeakLeaveStart, Advancing, Walking, Goto
    <3>2. StrongDecWeakA(t) => ReturnAdvance(t) /\ pc[t] \in Advancing
      BY DEF StrongDecWeakA, Advancing
    <3>3. StrongLeaveStart(t) => (ReturnAdvance(t) /\ pc[t] \in Advancing) \/ pc'[t] # "ret"
      BY <1>1 DEF StrongLeaveStart, StartPayloadDrop, Goto, Advancing, SwappedIn
    <3>4. AdvanceInc(t) \/ AdvanceReload(t) \/ AdvanceWeakInc(t) \/ AdvanceDec(t) \/ AdvanceWeakDec(t) => pc'[t] # "ret"
      BY <1>1 DEF AdvanceInc, AdvanceReload, AdvanceWeakInc, AdvanceDec, AdvanceWeakDec, Goto
    <3>5. StrongLoad(t) \/ StrongIncWeak(t) \/ StrongRaceDecWeak(t) \/ StrongRecheck(t) \/ StrongDecWeakB(t) => pc'[t] # "ret"
      BY <1>1 DEF StrongLoad, StrongIncWeak, StrongRaceDecWeak, StrongRecheck, StrongDecWeakB, TryStrong, Goto
    <3>6. StrongCas(t) \/ StrongUndo(t) \/ StrongUndoDecWeak(t) => pc'[t] # "ret"
      BY <1>1 DEF StrongCas, StrongUndo, StrongUndoDecWeak, RetryAdvance, TryStrong, Goto
    <3> QED
      BY <1>4, <3>1, <3>2, <3>3, <3>4, <3>5, <3>6 DEF AdvanceStep
  <2>4. ReturnAdvance(t) /\ pc[t] \in Advancing
    BY <2>2, <2>3
  <2>5. av[t].ret = "ret"
    BY <2>4, <1>1 DEF ReturnAdvance, Goto
  <2>6. op[t].f = "clone"
    BY <2>4, <2>5, <1>1 DEF Shape, Continues
  <2> QED
    BY <2>6, <1>3
<1>5. CASE JanitorStep(t)
  <2>1. pc'[t] \in Janitoring \/ pc'[t] = jn[t].ret
    BY <1>1, <1>5, JanitorStays
  <2>2. jn[t].ret # "ret"
    BY <1>1 DEF TypeOK, JanitorFrames
  <2> QED
    BY <2>1, <2>2 DEF Janitoring
<1>6. CASE DropStep(t)
  <2>1. DropWeakLoad(t) \/ DropWeakNext(t) \/ ClaimTeardown(t) => pc'[t] # "ret"
    BY <1>1 DEF DropWeakLoad, DropWeakNext, ClaimTeardown, StartPayloadDrop, StartDropWeak, DropWeakRound, StartAdvance, Goto
  <2> QED
    BY <2>1, <1>6 DEF DropStep, DropStrongDec, DropWeakCas, DropWeakFree
<1>7. CASE UpdateStep(t)
  <2>1. pc[t] \in Updating
    BY <1>7 DEF UpdateStep, UpdateNext, RcuCancel, UpdateWeakInc, UpdateCas, UpdateFail, UpdateMark, UpdateDec, UpdateDecWeak,
       UpdateDone, Updating
  <2>2. op[t].f \in {"update", "rcu"}
    BY <2>1, <1>1 DEF Shape
  <2> QED
    BY <2>2, <1>3
<1>8. CASE UpgradeStep(t)
  <2>1. UpgradeLoadStrong(t) \/ UpgradeLoadNext(t) \/ UpgradeIncWeak(t) => pc'[t] # "ret"
    BY <1>1 DEF UpgradeLoadStrong, UpgradeLoadNext, UpgradeIncWeak, UpgradeAgain, StartDropWeak, DropWeakRound, StartAdvance, Goto
  <2>2. UpgradeCas(t) \/ UpgradeRaceDecWeak(t) \/ UpgradeCheck(t) => pc'[t] # "ret"
    BY <1>1 DEF UpgradeCas, UpgradeRaceDecWeak, UpgradeCheck, UpgradeAgain, StartAdvance, Goto
  <2>3. UpgradeUndo(t) \/ UpgradeUndoDecWeak(t) => pc'[t] # "ret"
    BY <1>1 DEF UpgradeUndo, UpgradeUndoDecWeak, UpgradeAgain, StartAdvance, Goto
  <2>4. UpgradeDone(t)
    BY <1>8, <2>1, <2>2, <2>3 DEF UpgradeStep
  <2>5. op[t].f = "upgrade" /\ op[t].ok /\ op' = op
    BY <2>4, <1>1 DEF UpgradeDone, Shape, Upgrading, locals
  <2> QED
    BY <2>5 DEF Yields
<1>9. CASE ApiStep(t)
  <2>1. \/ GetLoad(t) \/ GetDone(t) \/ TryGetMutWeak(t) \/ TryGetMutStrong(t) \/ TryGetMutAgain(t) \/ FinishReading(t)
        \/ pc[t] \in SharedGetting
    BY <1>9 DEF ApiStep, SharedGetting, SharedGetLoad, SharedGetInc, SharedGetNext, SharedGetStrong, SharedGetCas,
       SharedGetRecheck, SharedGetLight, SharedGetDec, SharedGetClone
  <2>2. pc[t] \in {"get_load", "get_done", "tgm_weak", "tgm_strong", "tgm_again", "reading", "mutref"} \cup SharedGetting
    BY <2>1 DEF GetLoad, GetDone, TryGetMutWeak, TryGetMutStrong, TryGetMutAgain, FinishReading
  <2>3. op[t].f \in {"get", "reload", "tryGetMut", "sharedGet"}
    BY <2>2, <1>1 DEF Shape
  <2> QED
    BY <2>3, <1>3
<1> QED
  BY <1>4, <1>5, <1>6, <1>7, <1>8, <1>9 DEF Step

(* shared_get borrows a handle. *)
LEMMA ReaderHasHandle ==
  ASSUME SafeInv, NEW t \in Threads, op[t].f = "sharedGet"
  PROVE  HandleLeft
<1>1. pc[t] # "idle"
  BY SafeParts DEF Shape
<1> QED
  BY <1>1, Borrowed DEF HandleLeft

(* Whatever is not a drop or a janitor keeps the charge. *)
LEMMA OtherStepsCharge ==
  ASSUME SafeInv, NEW t \in Threads, Step(t), ~Return(t), pc[t] \notin Janitoring \cup Dying \cup {"ds_dec"}, InCharge(t)
  PROVE  HandleLeft \/ InCharge(t)'
<1>1. AnyStep(t) /\ TypeOK /\ Shape(t) /\ Goes(t)
  BY SafeParts, NodesTyped, StepGoes DEF AnyStep
<1>2. pc'[t] # "idle"
  BY <1>1 DEF Goes
<1>3. pc'[t] = "ret" => HandleLeft \/ Yields(t)'
  BY EndsFrom, ReaderHasHandle DEF Dying
<1>4. ASSUME Leaves(t)' PROVE Returns(t)' \/ Leftmost(item[t])'
  <2>1. pc[t] \in Dropping /\ pd[t].ret = "dw_cas" /\ Leaves(t)
    BY <1>1, <1>4, LeavesFrom
  <2>2. HasNext(item[t]) \/ Leftmost(item[t])
    BY <2>1 DEF InCharge, Returns, Dropping, Janitoring
  <2>3. PICK i \in Nodes : i = item[t]
    BY <1>1, LeaverHeld, <2>1
  <2>4. Live(i)
    BY <2>1, <2>3, LeaverHeld
  <2>5. item' = item
    BY <1>1, <2>1, StepAt DEF Dropping, PayloadMark, PayloadDrop
  <2>6. HasNext(i) => HasNext(i)'
    BY <1>1, StepFacts DEF Grows
  <2>7. Leftmost(i) => \A m \in Nodes : mem'[m] = "live" => ~(stamp'[m] < stamp'[i])
    BY <1>1, <2>4, LeftmostStays
  <2> QED
    BY <2>2, <2>3, <2>5, <2>6, <2>7 DEF Returns, HasNext, Leftmost, Live, Before
<1> QED
  BY <1>2, <1>3, <1>4 DEF InCharge

(* A count of more than one is not that of one holder alone.               *)
LEMMA AnotherCounted ==
  ASSUME NEW S, IsFiniteSet(S), Cardinality(S) > 1, NEW x
  PROVE  \E y \in S : y # x
<1>1. SUFFICES ASSUME \A y \in S : y = x PROVE FALSE
  OBVIOUS
<1>2. S \subseteq {x}
  BY <1>1
<1>3. IsFiniteSet({x}) /\ Cardinality({x}) = 1
  BY FS_Singleton
<1>4. Cardinality(S) <= Cardinality({x}) /\ Cardinality(S) \in Nat
  BY <1>2, <1>3, FS_Subset, FS_CardinalityType
<1> QED
  BY <1>3, <1>4

(* Which node is right of n: the one that links to it, or the one a        *)
(* janitor is about to link to it.                                         *)
LEMMA LinkRight ==
  ASSUME SafeInv, NEW n \in Nodes, Live(n), NEW m \in Nodes, Live(m), prev[m] = n
  PROVE  Adjacent(m, n)
<1>1. Listed /\ \A t \in Threads : JanitorKnows(t)
  BY SafeParts
<1>2. ASSUME NEW t \in Threads, Gap(t), jn[t].right = m PROVE FALSE
  <2>1. prev[jn[t].right] = jn[t].cur /\ mem[jn[t].cur] = "freed"
    BY <1>1, <1>2 DEF Gap, JanitorKnows, Freeing
  <2> QED
    BY <2>1, <1>2 DEF Live
<1> QED
  BY <1>1, <1>2 DEF Listed

(* Where a janitor has freed the nodes in between, its right node is next  *)
(* to the one it will link to.                                             *)
LEMMA GapRight ==
  ASSUME SafeInv, NEW n \in Nodes, NEW u \in Threads, WeakOnGap(u), jn[u].del = n
  PROVE  /\ jn[u].right \in Nodes /\ Live(jn[u].right) /\ HasLocked(u, jn[u].right)
         /\ Adjacent(jn[u].right, n)
<1>1. Gap(u) /\ ListInv /\ JanitorKnows(u)
  BY ListParts, SafeParts DEF WeakOnGap, Gap
<1>2. Adjacent(jn[u].right, jn[u].del)
  BY <1>1 DEF WeakOnGap, JanitorKnows
<1> QED
  BY <1>1, <1>2, GapOwner

(* There is only one node right of n.                                      *)
LEMMA OneRight ==
  ASSUME SafeInv, NEW n \in Nodes, NEW a \in Nodes, NEW b \in Nodes, Live(a), Live(b), Adjacent(a, n), Adjacent(b, n)
  PROVE  a = b /\ Before(n, a) /\ HasNext(n)
<1>1. /\ \A m, k \in Nodes : Live(m) /\ Live(k) => Before(m, k) \/ Before(k, m) \/ m = k
      /\ \A m, k \in Nodes : Live(m) /\ Live(k) /\ Before(m, k) => HasNext(m)
      /\ n # Null
  BY SafeParts, Line
<1>2. Live(n) /\ Before(n, a) /\ Before(n, b)
  BY <1>1 DEF Adjacent
<1>3. ~Before(a, b)
  BY <1>2 DEF Adjacent
<1>4. ~Before(b, a)
  BY <1>2 DEF Adjacent
<1> QED
  BY <1>1, <1>2, <1>3, <1>4

\* of all references t has at most the weak one of item
AtMostItem(t) ==
  /\ ~StrongOnStart(t) /\ ~StrongOnItem(t) /\ ~StrongOnNew(t) /\ ~WeakOnStart(t) /\ ~WeakForGroup(t)
  /\ pc[t] \notin {"sg_recheck", "sg_light", "adv_dec", "adv_unweak"}

(* A call that gives its last reference up has no other than that.         *)
LEMMA DyingHasItem ==
  ASSUME NEW t \in Threads, pc[t] \in {"dw_weak", "dw_next", "dw_claim", "dw_cas"} \/ (pc[t] \in Janitoring /\ jn[t].ret = "dw_weak")
  PROVE  AtMostItem(t)
<1>1. pc[t] \notin Swapping \cup SwappedIn \cup Walking \cup {"sg_recheck", "sg_light", "adv_dec", "adv_unweak", "reading", "ret",
                     "advs_race", "advs_undo_decw", "upg_race", "upg_undo_decw", "advs_cas", "upg_cas"}
  BY DEF Swapping, SwappedIn, Walking, Janitoring
<1>2. ~StrongOnStart(t) /\ ~WeakForGroup(t)
  BY <1>1 DEF StrongOnStart, WeakForGroup
<1>3. ~StrongOnItem(t)
  BY <1>1 DEF StrongOnItem, At, Janitoring
<1>4. ~StrongOnNew(t) /\ ~WeakOnStart(t)
  BY <1>1 DEF StrongOnNew, WeakOnStart, At, Janitoring
<1> QED
  BY <1>1, <1>2, <1>3, <1>4 DEF AtMostItem

(* Who else has a reference to n.                                          *)
LEMMA OthersAttend ==
  ASSUME SafeInv, NEW t \in Threads, AtMostItem(t), NEW n \in Nodes, Live(n), HasNext(n) \/ Leftmost(n),
         NEW x \in WeakHolders(n), x # <<"item", t>>
  PROVE  \/ HandleLeft
         \/ \E u \in Threads \ {t} : InCharge(u)
         \/ \E m \in Nodes : x = <<"link", m>> /\ Live(m) /\ prev[m] = n
         \/ \E u \in Threads : x = <<"gap", u>> /\ WeakOnGap(u) /\ jn[u].del = n
<1>1. handle \in [Handles -> HandleStates]
  BY SafeParts, NodesTyped
<1>2. CASE \E h \in Handles : handle[h] = [kind |-> "weak", node |-> n]
  BY <1>2 DEF HandleLeft
<1>3. CASE LiveStrong(strong[n]) > 0
  <2>1. strong[n] \notin {0, STRONG_DROPPED}
    BY <1>3 DEF LiveStrong
  <2>2. PICK y : y \in StrongHolders(n)
    BY <2>1, StrongKnown
  <2> QED
    BY <2>2, <1>1, StrongAttended DEF AtMostItem
<1>4. CASE \E u \in Threads : WeakOnStart(u)
  BY <1>4, HolderInCharge DEF AtMostItem
<1>5. CASE \E u \in Threads : WeakForGroup(u)
  BY <1>5, HolderInCharge DEF AtMostItem
<1>6. CASE \E u \in Threads : pc[u] \in {"adv_dec", "adv_unweak"}
  BY <1>6, HolderInCharge DEF AtMostItem
<1>7. CASE \E u \in Threads : u # t /\ WeakOnItem(u) /\ item[u] = n
  BY <1>7, HolderInCharge
<1>8. CASE \E m \in Nodes : x = <<"link", m>> /\ mem[m] = "live" /\ prev[m] = n
  BY <1>8 DEF Live
<1>9. CASE \E u \in Threads : x = <<"gap", u>> /\ WeakOnGap(u) /\ jn[u].del = n
  BY <1>9
<1> QED
  BY <1>2, <1>3, <1>4, <1>5, <1>6, <1>7, <1>8, <1>9 DEF WeakHolders

(* A dying call that gives its weak reference up, and is not the sole user, *)
(* leaves the rest of the chain to somebody.                               *)
LEMMA LeavesToOthers ==
  ASSUME SafeInv, PrevFlagged, NEW t \in Threads, pc[t] = "dw_cas", InCharge(t),
         SameWeakWord(item[t], dr[t].ww), ~SoleUser(dr[t].ww)
  PROVE  HandleLeft \/ \E u \in Threads \ {t} : InCharge(u)
<1> DEFINE n == item[t]
<1>1. /\ n \in Nodes /\ WeakOnItem(t) /\ Live(n) /\ WeakExact /\ Flagged /\ WordKnown(t)
      /\ ListInv /\ Listed /\ handle \in [Handles -> HandleStates]
  <2>1. Leaves(t)
    BY DEF Leaves
  <2> QED BY <2>1, LeaverHeld, SafeParts, ListParts, NodesTyped
<1>2. AtMostItem(t)
  BY DyingHasItem
<1>3. HasNext(n) \/ Leftmost(n)
  BY DEF InCharge, Leaves, Returns, Janitoring
<1>4. weak[n] = dr[t].ww /\ ~weak[n].haveNext
  BY <1>1 DEF SameWeakWord, WordKnown
<1>5. CASE HasNext(n)
  <2>1. PICK u \in Threads : pc[u] = "upd_mark" /\ item[u] = n
    BY <1>1, <1>4, <1>5 DEF Flagged
  <2>2. StrongOnItem(u)
    BY <2>1 DEF StrongOnItem, At
  <2>3. u # t
    BY <2>1
  <2> QED
    BY <2>2, <2>3, HolderInCharge
<1>6. CASE Leftmost(n) /\ ~HasNext(n)
  <2>1. /\ IsFiniteSet(WeakHolders(n)) /\ weak[n].count = Cardinality(WeakHolders(n)) /\ Cardinality(WeakHolders(n)) \in Nat
    BY <1>1, HoldersOf DEF WeakExact
  <2>2. <<"item", t>> \in WeakHolders(n)
    BY <1>1 DEF WeakHolders
  <2>3. weak[n].count >= 1
    BY <2>1, <2>2, SomeCounted
  <2>4. CASE weak[n].count # 1
    <3>1. Cardinality(WeakHolders(n)) > 1
      BY <2>1, <2>3, <2>4
    <3>2. PICK x \in WeakHolders(n) : x # <<"item", t>>
      BY <2>1, <3>1, AnotherCounted
    <3>3. ASSUME NEW m \in Nodes, Live(m), prev[m] = n PROVE FALSE
      BY <3>3, <1>1, <1>6, LinkRight, OneRight
    <3>4. ASSUME NEW u \in Threads, WeakOnGap(u), jn[u].del = n PROVE FALSE
      BY <3>4, <1>1, <1>6, GapRight, OneRight
    <3> QED
      BY <3>2, <3>3, <3>4, <1>1, <1>2, <1>3, OthersAttend
  <2>5. CASE weak[n].count = 1
    <3>1. weak[n].havePrev
      BY <2>5, <1>4 DEF SoleUser
    <3>2. prev[n] # Null
      BY <3>1, <1>1 DEF PrevFlagged
    <3>3. ASSUME Adjacent(n, prev[n]) PROVE FALSE
      <4>1. prev[n] \in Nodes
        BY <3>2, <1>1, SafeParts, NodesTyped DEF Ptrs
      <4> QED
        BY <4>1, <3>2, <3>3, <1>6 DEF Adjacent, Leftmost
    <3>4. PICK u \in Threads : Gap(u) /\ jn[u].right = n
      BY <3>3, <1>1 DEF Listed
    <3>5. JanitorKnows(u) /\ jn[u].del \in Ptrs /\ item[u] \in Nodes /\ (pc[u] \in Janitoring => Live(item[u]))
      BY <1>1, JanitorFacts
    <3>6. pc[u] \notin {"jan_del", "jan_free"}
      <4>1. ASSUME pc[u] \in {"jan_del", "jan_free"} PROVE FALSE
        <5>1. jn[u].del \in Nodes /\ Live(jn[u].del) /\ Before(jn[u].del, n)
          BY <4>1, <3>4, <3>5 DEF JanitorKnows, Ptrs
        <5> QED BY <5>1, <1>6 DEF Leftmost
      <4> QED BY <4>1
    <3>7. pc[u] \in {"jan_clearprev", "jan_unlink"} /\ Adjacent(n, jn[u].del) /\ ~Before(item[u], n)
      BY <3>4, <3>5, <3>6 DEF Gap, JanitorKnows, Freeing
    <3>8. jn[u].del = Null
      <4>1. ASSUME jn[u].del # Null PROVE FALSE
        <5>1. jn[u].del \in Nodes /\ Live(jn[u].del) /\ Before(jn[u].del, n)
          BY <4>1, <3>5, <3>7 DEF Adjacent, Ptrs
        <5> QED BY <5>1, <1>6 DEF Leftmost
      <4> QED BY <4>1
    <3>9. item[u] = n
      <4>1. Live(item[u]) /\ \A m, k \in Nodes : Live(m) /\ Live(k) => Before(m, k) \/ Before(k, m) \/ m = k
        BY <3>5, <3>7, <1>1, JanitorFacts DEF Janitoring
      <4>2. \A m, k \in Nodes : Live(m) /\ Live(k) /\ Before(m, k) => HasNext(m)
        BY SafeParts, Line
      <4> QED BY <4>1, <4>2, <3>5, <3>7, <1>1, <1>6
    <3>10. ~Leaves(u) /\ u # t
      BY <3>4, <3>7, <3>8, <3>9 DEF Leaves, Dropping, Redirecting
    <3> QED
      BY <3>7, <3>10 DEF InCharge
  <2> QED
    BY <2>4, <2>5
<1> QED
  BY <1>3, <1>5, <1>6

(* At the end of a list, or with a next, a node stays so. *)
LEMMA EndStays ==
  ASSUME SafeInv, NEW t \in Threads, AnyStep(t), NEW i \in Nodes, Live(i), HasNext(i) \/ Leftmost(i)
  PROVE  HasNext(i)' \/ \A m \in Nodes : mem'[m] = "live" => ~(stamp'[m] < stamp'[i])
<1>1. HasNext(i) => HasNext(i)'
  BY StepFacts DEF Grows
<1>2. Leftmost(i) => \A m \in Nodes : mem'[m] = "live" => ~(stamp'[m] < stamp'[i])
  BY LeftmostStays
<1> QED
  BY <1>1, <1>2

(* Who gives a strong reference back that is not the last leaves the chain *)
(* to whoever has another one.                                             *)
LEMMA StrongLeaves ==
  ASSUME SafeInv, NEW t \in Threads, pc[t] = "ds_dec", ~LastStrong(item[t])
  PROVE  HandleLeft \/ \E u \in Threads \ {t} : InCharge(u)
<1> DEFINE n == item[t]
<1>1. n \in Nodes /\ StrongOnItem(t) /\ Live(n) /\ handle \in [Handles -> HandleStates]
  BY SafeParts, NodesTyped DEF StrongOnItem, At, HeldLive
<1>2. <<"item", t>> \in StrongHolders(n)
  BY <1>1 DEF StrongHolders
<1>3. strong[n] \in 1..(UsizeMax - 2) /\ strong[n] # STRONG_DROPPED /\ LiveStrong(strong[n]) = Cardinality(StrongHolders(n))
  BY <1>1, <1>2, StrongKnown
<1>4. Cardinality(StrongHolders(n)) > 1
  BY <1>3 DEF LastStrong, LiveStrong
<1>5. PICK x \in StrongHolders(n) : x # <<"item", t>>
  BY <1>1, <1>4, HoldersOf, AnotherCounted
<1>6. ~StrongOnStart(t) /\ ~StrongOnNew(t)
  BY DEF StrongOnStart, StrongOnNew, At, Swapping, SwappedIn, Walking, Janitoring
<1>7. CASE \E h \in Handles : handle[h] = [kind |-> "strong", node |-> n]
  BY <1>7 DEF HandleLeft
<1>8. CASE \E u \in Threads \ {t} : \/ StrongOnStart(u) \/ StrongOnItem(u) \/ StrongOnNew(u)
                                    \/ pc[u] \in {"sg_recheck", "sg_light"}
  BY <1>8, HolderInCharge
<1> QED
  BY <1>5, <1>6, <1>7, <1>8 DEF StrongHolders

(* A step of a drop keeps the charge, or hands it on, or frees the last node. *)
LEMMA DropCharges ==
  ASSUME SafeInv, PrevFlagged, NEW t \in Threads, DropStep(t), InCharge(t)
  PROVE  \/ HandleLeft \/ InCharge(t)' \/ \E u \in Threads \ {t} : InCharge(u)
         \/ \A n \in Nodes : mem'[n] # "live"
<1>1. AnyStep(t) /\ TypeOK /\ Shape(t) /\ pc \in [Threads -> Labels] /\ item \in [Threads -> Nodes]
      /\ pd \in [Threads -> PayloadFrames]
  BY SafeParts, NodesTyped DEF AnyStep, Step, TypeOK
<1>2. ASSUME pc'[t] = "adv_load" PROVE InCharge(t)'
  BY <1>2 DEF InCharge, Leaves, Dropping, Redirecting
<1>3. ASSUME pc'[t] = "dw_free" PROVE InCharge(t)'
  BY <1>3 DEF InCharge, Leaves, Dropping, Redirecting
<1>4. ASSUME item' = item, pc[t] \in {"dw_next", "dw_claim"} \/ (pc[t] = "dw_weak" /\ ~jn[t].rerun),
             pc'[t] \notin {"idle", "ret"}
      PROVE  InCharge(t)'
  <2>1. Leaves(t) /\ (HasNext(item[t]) \/ Leftmost(item[t]))
    BY <1>4 DEF InCharge, Leaves, Returns, Janitoring
  <2>2. PICK i \in Nodes : i = item[t]
    BY <1>1
  <2>3. Live(i) /\ item'[t] = i
    BY <2>1, <2>2, <1>4, LeaverHeld
  <2>4. HasNext(i)' \/ \A m \in Nodes : mem'[m] = "live" => ~(stamp'[m] < stamp'[i])
    BY <2>1, <2>2, <2>3, <1>1, EndStays
  <2>5. Returns(t)' \/ Leftmost(item[t])'
    BY <2>3, <2>4 DEF Returns, HasNext, Leftmost, Live, Before
  <2> QED
    BY <2>5, <1>4 DEF InCharge
<1>5. CASE DropStrongDec(t)
  <2>1. CASE LastStrong(item[t])
    <3>1. pc'[t] = "adv_load"
      BY <1>1, <1>5, <2>1 DEF DropStrongDec, StartDropWeak, DropWeakRound, StartAdvance, Goto
    <3> QED BY <3>1, <1>2
  <2>2. CASE ~LastStrong(item[t])
    BY <1>5, <2>2, StrongLeaves DEF DropStrongDec
  <2> QED BY <2>1, <2>2
<1>6. CASE DropWeakLoad(t)
  <2>1. CASE jn[t].rerun
    <3>1. pc'[t] = "adv_load"
      BY <1>1, <1>6, <2>1 DEF DropWeakLoad, DropWeakRound, StartAdvance, Goto
    <3> QED BY <3>1, <1>2
  <2>2. CASE ~jn[t].rerun
    <3>1. item' = item /\ pc'[t] = "dw_next"
      BY <1>1, <1>6, <2>2 DEF DropWeakLoad, Goto
    <3> QED BY <3>1, <2>2, <1>4, <1>6 DEF DropWeakLoad
  <2> QED BY <2>1, <2>2
<1>7. CASE DropWeakNext(t)
  <2>1. CASE HasNext(item[t])
    <3>1. pc'[t] = "adv_load"
      BY <1>1, <1>7, <2>1 DEF DropWeakNext, StartDropWeak, DropWeakRound, StartAdvance, Goto
    <3> QED BY <3>1, <1>2
  <2>2. CASE ~HasNext(item[t])
    <3>1. item' = item /\ pc'[t] \in {"dw_claim", "dw_cas"}
      BY <1>1, <1>7, <2>2 DEF DropWeakNext, Goto
    <3> QED BY <3>1, <1>4, <1>7 DEF DropWeakNext
  <2> QED BY <2>1, <2>2
<1>8. CASE ClaimTeardown(t)
  <2>1. item' = item /\ pc'[t] \in {"pay_mark", "dw_cas"}
    BY <1>1, <1>8 DEF ClaimTeardown, StartPayloadDrop, Goto
  <2> QED BY <2>1, <1>4, <1>8 DEF ClaimTeardown
<1>9. CASE DropWeakCas(t)
  <2>1. CASE ~SameWeakWord(item[t], dr[t].ww)
    <3>1. pc'[t] = "adv_load"
      BY <1>1, <1>9, <2>1 DEF DropWeakCas, StartDropWeak, DropWeakRound, StartAdvance, Goto
    <3> QED BY <3>1, <1>2
  <2>2. CASE SameWeakWord(item[t], dr[t].ww) /\ SoleUser(dr[t].ww)
    <3>1. pc'[t] = "dw_free"
      BY <1>1, <1>9, <2>2 DEF DropWeakCas, Goto
    <3> QED BY <3>1, <1>3
  <2>3. CASE SameWeakWord(item[t], dr[t].ww) /\ ~SoleUser(dr[t].ww)
    BY <1>9, <2>3, LeavesToOthers DEF DropWeakCas
  <2> QED BY <2>1, <2>2, <2>3
<1>10. CASE DropWeakFree(t)
  <2>1. \A n \in Nodes : mem'[n] # "live"
    <3>1. pc[t] = "dw_free" /\ mem' = [mem EXCEPT ![item[t]] = "freed"]
      BY <1>10 DEF DropWeakFree
    <3>2. item[t] \in Nodes /\ \A n \in Nodes : Live(n) => n = item[t]
      BY <3>1, Alone
    <3>3. mem \in [Nodes -> {"unused", "private", "live", "freed"}]
      BY SafeParts, NodesTyped
    <3> QED BY <3>1, <3>2, <3>3 DEF Live
  <2> QED BY <2>1
<1> QED
  BY <1>5, <1>6, <1>7, <1>8, <1>9, <1>10 DEF DropStep

(* What makes a dying call return is not forgotten by its janitor. *)
LEMMA ReturnsStays ==
  ASSUME SafeInv, NEW t \in Threads, JanitorStep(t), pc[t] # "jan_lock", jn[t].ret = "dw_weak",
         Returns(t) \/ Leftmost(item[t])
  PROVE  Returns(t)' \/ Leftmost(item[t])'
<1>1. /\ AnyStep(t) /\ TypeOK /\ ListInv /\ jn \in [Threads -> JanitorFrames] /\ pc \in [Threads -> Labels]
      /\ next \in [Nodes -> NextWords] /\ JanitorKnows(t) /\ stamp \in [Nodes -> Nat]
  BY SafeParts, ListParts, NodesTyped DEF AnyStep, Step, TypeOK
<1>2. /\ pc[t] \in Janitoring /\ (pc'[t] \in Janitoring \cup {"dw_weak"}) /\ item' = item
  BY <1>1, JanitorStays
<1>3. PICK i \in Nodes : i = item[t]
  BY SafeParts, NodesTyped
<1>4. Live(i) /\ item'[t] = i
  BY <1>1, <1>2, <1>3, JanitorFacts
<1>5. CASE HasNext(i) \/ Leftmost(i)
  <2>1. HasNext(i)' \/ \A m \in Nodes : mem'[m] = "live" => ~(stamp'[m] < stamp'[i])
    BY <1>1, <1>4, <1>5, EndStays
  <2> QED
    BY <2>1, <1>4 DEF Returns, HasNext, Leftmost, Live, Before
<1>6. CASE JanitorUnlockStart(t) /\ (jn[t].rerun \/ next[i].disturbed)
  <2>1. pc'[t] = "dw_weak" /\ jn'[t].rerun
    BY <1>6, <1>1, <1>3 DEF JanitorUnlockStart, ReturnJanitor, Goto, IdleJanitor
  <2> QED
    BY <2>1 DEF Returns
<1>7. CASE jn[t].rerun /\ ~JanitorUnlockStart(t)
  <2>1. ~JanitorLockStart(t)
    BY DEF JanitorLockStart, Janitor
  <2>2. JanitorSweep(t) \/ JanitorCleanup(t) \/ JanitorStrong(t) \/ JanitorSetNext(t) => jn'[t].rerun
    BY <1>1, <1>7 DEF JanitorSweep, JanitorCleanup, JanitorStrong, JanitorSetNext, JanitorFrames
  <2>3. JanitorCheckAdvance(t) \/ JanitorFinal(t) \/ JanitorDelete(t) \/ JanitorFree(t) => jn'[t].rerun
    BY <1>1, <1>7 DEF JanitorCheckAdvance, JanitorFinal, JanitorDelete, JanitorFree, JanitorFrames
  <2>4. JanitorClearPrev(t) \/ JanitorUnlink(t) \/ JanitorCarry(t) \/ JanitorUncarry(t) => jn'[t].rerun
    BY <1>1, <1>7 DEF JanitorClearPrev, JanitorUnlink, JanitorCarry, JanitorUncarry, JanitorFrames
  <2>5. jn'[t].rerun
    BY <1>7, <2>1, <2>2, <2>3, <2>4 DEF JanitorStep
  <2> QED
    BY <2>5, <1>2 DEF Returns
<1>8. CASE next[i].disturbed /\ ~JanitorUnlockStart(t)
  <2>1. ~JanitorLockStart(t)
    BY DEF JanitorLockStart, Janitor
  <2>2. pc'[t] \in Janitoring
    <3>1. JanitorSweep(t) \/ JanitorCleanup(t) \/ JanitorStrong(t) \/ JanitorSetNext(t) => pc'[t] \in Janitoring
      BY <1>1, <1>2 DEF JanitorSweep, JanitorCleanup, JanitorStrong, JanitorSetNext, Goto, Janitoring
    <3>2. JanitorCheckAdvance(t) \/ JanitorFinal(t) \/ JanitorDelete(t) \/ JanitorFree(t) => pc'[t] \in Janitoring
      BY <1>1 DEF JanitorCheckAdvance, JanitorFinal, JanitorDelete, JanitorFree, Goto, Janitoring
    <3>3. JanitorClearPrev(t) \/ JanitorUnlink(t) \/ JanitorCarry(t) \/ JanitorUncarry(t) => pc'[t] \in Janitoring
      BY <1>1 DEF JanitorClearPrev, JanitorUnlink, JanitorCarry, JanitorUncarry, Goto, Janitoring
    <3> QED BY <1>8, <2>1, <3>1, <3>2, <3>3 DEF JanitorStep
  <2>3. CASE JanitorSweep(t)
    <3>1. next'[i].disturbed
      BY <2>3, <1>1, <1>8 DEF JanitorSweep, Lock, Disturb, NextWords
    <3> QED BY <3>1, <2>2, <1>4 DEF Returns
  <2>4. CASE JanitorCleanup(t)
    <3>1. jn[t].cur \notin {jn[t].fail, Null} => jn[t].cur # i
      BY <2>4, <1>1, <1>3 DEF JanitorCleanup, Janitor, JanitorKnows, Before
    <3>2. next'[i].disturbed
      BY <2>4, <3>1, <1>1, <1>8 DEF JanitorCleanup, Unlock, NextWords
    <3> QED BY <3>2, <2>2, <1>4 DEF Returns
  <2>5. CASE JanitorSetNext(t)
    <3>1. next'[i].disturbed
      BY <2>5, <1>1, <1>8 DEF JanitorSetNext, SetNext, NextWords
    <3> QED BY <3>1, <2>2, <1>4 DEF Returns
  <2>6. CASE JanitorCarry(t) \/ JanitorUncarry(t)
    <3>1. jn[t].carry # Null => jn[t].carry # i
      BY <2>6, <1>1, <1>3 DEF JanitorCarry, JanitorUncarry, Janitor, JanitorKnows, Before
    <3>2. next'[i].disturbed
      BY <2>6, <3>1, <1>1, <1>8 DEF JanitorCarry, JanitorUncarry, ReleaseCarry, Unlock, NextWords
    <3> QED BY <3>2, <2>2, <1>4 DEF Returns
  <2>7. CASE \/ JanitorStrong(t) \/ JanitorCheckAdvance(t) \/ JanitorFinal(t) \/ JanitorDelete(t)
             \/ JanitorFree(t) \/ JanitorClearPrev(t) \/ JanitorUnlink(t)
    <3>1. next' = next
      BY <2>7 DEF JanitorStrong, JanitorCheckAdvance, JanitorFinal, JanitorDelete, JanitorFree, JanitorClearPrev,
         JanitorUnlink, ReadOnly, OnlyWeak, OnlyPrev, heap
    <3> QED BY <3>1, <2>2, <1>4, <1>8 DEF Returns
  <2>8. next'[i].disturbed => Returns(t)'
    BY <2>2, <1>4 DEF Returns
  <2> QED
    BY <1>8, <2>1, <2>3, <2>4, <2>5, <2>6, <2>7 DEF JanitorStep
<1> QED
  BY <1>3, <1>5, <1>6, <1>7, <1>8 DEF Returns

(* A janitor that meets a lock leaves the work to the lock's owner, or     *)
(* comes back.                                                             *)
LEMMA LockAttended ==
  ASSUME SafeInv, LocksOwned, NEW t \in Threads, AnyStep(t), NEW n \in Nodes, Live(n), next[n].locked, Disturb(n),
         item' = item,
         \/ pc[t] = "jan_lock" /\ n = item[t]
         \/ pc[t] = "jan_sweep" /\ n = jn[t].cur
  PROVE  Returns(t)' \/ \E u \in Threads \ {t} : InCharge(u)'
<1>1. /\ TypeOK /\ ListInv /\ LocksHeld /\ next \in [Nodes -> NextWords] /\ stamp \in [Nodes -> Nat]
      /\ JanitorKnows(t) /\ item[t] \in Nodes /\ Live(item[t]) /\ jn[t].cand \in Ptrs
      /\ \A m, k \in Nodes : Live(m) /\ Live(k) => Before(m, k) \/ Before(k, m) \/ m = k
      /\ \A m, k \in Nodes : Live(m) /\ Live(k) /\ Before(m, k) => HasNext(m)
  <2>1. pc[t] \in Janitoring
    BY DEF Janitoring
  <2> QED BY <2>1, SafeParts, ListParts, NodesTyped, JanitorFacts, Line
<1>2. PICK u \in Threads : HasLocked(u, n)
  BY DEF LocksOwned
<1>3. /\ item[u] \in Nodes /\ Live(item[u]) /\ pc[u] \in Janitoring \ {"jan_lock"}
      /\ n = item[u] \/ (Before(n, item[u]) /\ HasNext(n))
  BY <1>1, <1>2, LockedLeft
<1>4. pc[t] = "jan_sweep" => Before(n, item[t]) /\ n # item[t]
  <2>1. JanitorOrdered(pc[t], item[t], jn[t])
    BY <1>1, JanitorFacts
  <2> QED BY <2>1, <1>1 DEF JanitorOrdered, Older, Before
<1>5. u # t
  <2>1. pc[t] = "jan_sweep" => ~HasLocked(t, n)
    BY <1>1, <1>4 DEF HasLocked, Redirecting, Freeing, Before
  <2> QED BY <2>1, <1>2, <1>3
<1>6. /\ pc'[u] = pc[u] /\ item'[u] = item[u] /\ jn'[u] = jn[u]
      /\ \A m \in Nodes : HasNext(m) => HasNext(m)'
  BY <1>5, StepFacts DEF Still, Grows
<1>7. ASSUME Returns(u)' PROVE InCharge(u)'
  BY <1>3, <1>6, <1>7 DEF InCharge, Janitoring
<1>8. PICK i \in Nodes, k \in Nodes : i = item[t] /\ k = item[u]
  BY <1>1, <1>3
<1>9. CASE n = k
  <2>1. next'[n].disturbed
    BY <1>1 DEF Disturb, NextWords
  <2>2. Returns(u)'
    BY <2>1, <1>9, <1>8, <1>6, <1>3 DEF Returns
  <2> QED BY <2>2, <1>7, <1>5
<1>10. CASE Before(i, k)
  <2>1. HasNext(i)'
    BY <1>10, <1>1, <1>3, <1>6, <1>8
  <2> QED BY <2>1, <1>8 DEF Returns, HasNext
<1>11. CASE n # k /\ ~Before(i, k)
  <2>1. pc[t] = "jan_sweep"
    BY <1>11, <1>3, <1>8
  <2>2. i # k
    <3>1. HasLocked(t, i) /\ HasLocked(u, k)
      BY <2>1, <1>3, <1>8 DEF HasLocked, Janitoring
    <3> QED BY <3>1, <1>1, <1>3, <1>5, <1>8 DEF LocksHeld
  <2>3. Before(k, i)
    BY <2>2, <1>11, <1>1, <1>3, <1>8
  <2>4. HasNext(k)'
    BY <2>3, <1>1, <1>3, <1>6, <1>8
  <2>5. Returns(u)'
    BY <2>4, <1>6, <1>8 DEF Returns, HasNext
  <2> QED BY <2>5, <1>7, <1>5
<1> QED BY <1>9, <1>10, <1>11

(* A node that an advance is leaving has that advance, or a reader. *)
LEMMA AdvanceAttends ==
  ASSUME SafeInv, NEW t \in Threads, pc[t] = "jan_adv", NEW n \in Nodes, adv[n] > 0
  PROVE  HandleLeft \/ \E u \in Threads \ {t} : InCharge(u)
<1>1. adv[n] = Cardinality(Announcers(n))
  BY SafeParts DEF AdvanceExact
<1>2. Announcers(n) # {}
  BY <1>1, FS_EmptySet
<1>3. CASE \E u \in Threads : Walks(u, n)
  BY <1>3, HolderInCharge DEF Walks
<1>4. CASE \E u \in Threads : Shares(u, n)
  <2>1. PICK u \in Threads : Shares(u, n)
    BY <1>4
  <2>2. Shape(u)
    BY SafeParts
  <2>3. op[u].f = "sharedGet"
    BY <2>1, <2>2 DEF Shape, Shares, DropShape, SharedGetting
  <2> QED BY <2>3, ReaderHasHandle
<1> QED
  BY <1>2, <1>3, <1>4 DEF Announcers

(* A node that the first round of a janitor cannot delete is referred to   *)
(* by somebody else.                                                       *)
LEMMA UndeletableAttended ==
  ASSUME SafeInv, NEW t \in Threads, pc[t] = "jan_del", jn[t].ret = "dw_weak", jn[t].right = item[t],
         ~Deletable(jn[t].del)
  PROVE  HandleLeft \/ \E u \in Threads \ {t} : InCharge(u)
<1> DEFINE r == item[t]
<1>1. /\ TypeOK /\ ListInv /\ LocksHeld /\ WeakExact /\ stamp \in [Nodes -> Nat] /\ weak \in [Nodes -> WeakWords]
      /\ JanitorKnows(t) /\ r \in Nodes /\ Live(r) /\ jn[t].del \in Ptrs
      /\ \A m, k \in Nodes : Live(m) /\ Live(k) /\ Before(m, k) => HasNext(m)
  <2>1. pc[t] \in Janitoring
    BY DEF Janitoring
  <2> QED BY <2>1, SafeParts, ListParts, NodesTyped, JanitorFacts, Line
<1>2. PICK n \in Nodes : n = jn[t].del
  BY <1>1 DEF JanitorKnows, Ptrs
<1>3. /\ Live(n) /\ Before(n, r) /\ prev[r] = jn[t].cur /\ HasNext(n) /\ n # r
      /\ n # jn[t].cur => Adjacent(r, n)
  BY <1>1, <1>2 DEF JanitorKnows, Freeing, Before
<1>4. Adjacent(r, n)
  <2>1. prev[r] = n => Adjacent(r, n)
    BY <1>1, <1>3, LinkRight
  <2> QED BY <2>1, <1>3
<1>5. HasLocked(t, r)
  BY DEF HasLocked, Janitoring
<1>6. Cardinality(WeakHolders(n)) > 1 /\ IsFiniteSet(WeakHolders(n))
  <2>1. weak[n].count = Cardinality(WeakHolders(n)) /\ weak[n].count \in Nat
    BY <1>1, <1>3, HoldersOf DEF WeakExact
  <2> QED BY <2>1, <1>2, HoldersOf DEF Deletable
<1>7. PICK x \in WeakHolders(n) : x # IF n = jn[t].cur THEN <<"link", r>> ELSE <<"gap", t>>
  BY <1>6, AnotherCounted
<1>8. x # <<"item", t>>
  BY <1>3 DEF WeakHolders
<1>9. AtMostItem(t)
  BY DyingHasItem DEF Janitoring
<1>10. ASSUME NEW m \in Nodes, x = <<"link", m>>, Live(m), prev[m] = n PROVE FALSE
  <2>1. Adjacent(m, n)
    BY <1>10, <1>3, LinkRight
  <2>2. m = r
    BY <2>1, <1>1, <1>4, <1>10, OneRight
  <2> QED BY <2>2, <1>3, <1>7, <1>10
<1>11. ASSUME NEW u \in Threads, x = <<"gap", u>>, WeakOnGap(u), jn[u].del = n PROVE FALSE
  <2>1. PICK m \in Nodes : m = jn[u].right /\ Live(m) /\ HasLocked(u, m) /\ Adjacent(m, n)
    BY <1>11, GapRight
  <2>2. m = r
    BY <2>1, <1>1, <1>4, OneRight
  <2>3. u = t
    BY <2>1, <2>2, <1>1, <1>5 DEF LocksHeld
  <2>4. n # jn[t].cur
    BY <2>3, <1>2, <1>11 DEF WeakOnGap
  <2> QED BY <2>3, <2>4, <1>7, <1>11
<1> QED
  BY <1>3, <1>8, <1>9, <1>10, <1>11, OthersAttend

(* A janitor keeps the charge of its call, or leaves what it spares to     *)
(* somebody else.                                                          *)
LEMMA JanitorCharges ==
  ASSUME SafeInv, LocksOwned, NEW t \in Threads, JanitorStep(t), InCharge(t)
  PROVE  HandleLeft \/ InCharge(t)' \/ \E u \in Threads \ {t} : InCharge(u) \/ InCharge(u)'
<1>1. /\ AnyStep(t) /\ TypeOK /\ ListInv /\ jn \in [Threads -> JanitorFrames] /\ pc \in [Threads -> Labels]
      /\ JanitorKnows(t) /\ jn[t].ret \in {"dw_weak", "upd_done", "get_done"}
      /\ item[t] \in Nodes /\ Live(item[t])
  <2>1. pc[t] \in Janitoring
    BY SafeParts, NodesTyped, JanitorStays
  <2> QED BY <2>1, SafeParts, ListParts, NodesTyped, JanitorFacts DEF AnyStep, Step, TypeOK
<1>2. /\ pc[t] \in Janitoring /\ (pc'[t] \in Janitoring \/ pc'[t] = jn[t].ret) /\ item' = item
      /\ jn'[t].ret = jn[t].ret
  BY <1>1, JanitorStays
<1>3. pc'[t] \notin {"idle", "ret"}
  BY <1>1, <1>2 DEF Janitoring
<1>4. ASSUME ~Leaves(t)' PROVE InCharge(t)'
  BY <1>3, <1>4 DEF InCharge
<1>5. CASE jn[t].ret # "dw_weak"
  <2>1. ~Leaves(t)'
    BY <1>1, <1>2, <1>5 DEF Leaves, Janitoring, Dropping
  <2> QED BY <2>1, <1>4
<1>6. ASSUME Returns(t)' \/ Leftmost(item[t])' PROVE InCharge(t)'
  BY <1>3, <1>6 DEF InCharge
<1>7. CASE jn[t].ret = "dw_weak" /\ pc[t] # "jan_lock" /\ (Leaves(t) \/ Leftmost(item[t]))
  BY <1>6, <1>7, ReturnsStays DEF InCharge
<1>8. CASE jn[t].ret = "dw_weak" /\ JanitorLockStart(t)
  <2>1. PICK n \in Nodes : n = item[t]
    BY <1>1
  <2>2. CASE next[n].locked
    <3>1. Disturb(n) /\ pc[t] = "jan_lock"
      BY <1>8, <2>1, <2>2 DEF JanitorLockStart, Janitor
    <3>2. Returns(t)' \/ \E u \in Threads \ {t} : InCharge(u)'
      BY <3>1, <2>1, <2>2, <1>1, <1>2, LockAttended
    <3> QED BY <3>2, <1>6
  <2>3. CASE ~next[n].locked /\ prev[n] # Null
    <3>1. pc'[t] = "jan_sweep"
      BY <1>1, <1>8, <2>1, <2>3 DEF JanitorLockStart, Goto
    <3> QED BY <3>1, <1>4 DEF Leaves, Dropping, Redirecting
  <2>4. CASE ~next[n].locked /\ prev[n] = Null
    <3>1. Adjacent(n, Null)
      BY <1>1, <2>1, <2>4, UnlockedAdjacent
    <3>2. Leftmost(n)
      BY <3>1 DEF Adjacent, Leftmost
    <3>3. \A m \in Nodes : mem'[m] = "live" => ~(stamp'[m] < stamp'[n])
      BY <3>2, <1>1, <2>1, LeftmostStays
    <3>4. Leftmost(item[t])'
      BY <3>3, <2>1, <1>2 DEF Leftmost, Live, Before
    <3> QED BY <3>4, <1>6
  <2> QED BY <2>2, <2>3, <2>4
<1>9. CASE jn[t].ret = "dw_weak" /\ JanitorSweep(t) /\ ~Leaves(t)
  <2>1. PICK n \in Nodes : n = jn[t].cur /\ Live(n)
    BY <1>1, <1>9 DEF JanitorSweep, Janitor, JanitorKnows, JanitorFrames, Ptrs
  <2>2. CASE next[n].locked
    <3>1. Disturb(n) /\ pc[t] = "jan_sweep"
      BY <1>9, <2>1, <2>2 DEF JanitorSweep, Janitor
    <3>2. Returns(t)' \/ \E u \in Threads \ {t} : InCharge(u)'
      BY <3>1, <2>1, <2>2, <1>1, <1>2, LockAttended
    <3> QED BY <3>2, <1>6
  <2>3. CASE ~next[n].locked
    <3>1. pc[t] = "jan_sweep" /\ pc'[t] \in {"jan_sweep", "jan_strong"} /\ jn'[t].rdel = jn[t].rdel
      <4>1. CASE prev[n] = Null
        BY <1>1, <1>9, <2>1, <2>3, <4>1 DEF JanitorSweep, Janitor, Goto, JanitorFrames
      <4>2. CASE prev[n] # Null
        BY <1>1, <1>9, <2>1, <2>3, <4>2 DEF JanitorSweep, Janitor, Goto, JanitorFrames
      <4> QED BY <4>1, <4>2
    <3>2. jn'[t].rdel = Null
      BY <3>1, <1>1 DEF JanitorKnows
    <3> QED BY <3>1, <3>2, <1>4 DEF Leaves, Dropping, Redirecting
  <2> QED BY <2>2, <2>3
<1>10. CASE jn[t].ret = "dw_weak" /\ JanitorStrong(t) /\ ~Leaves(t)
  <2>0. pc[t] = "jan_strong" /\ jn[t].rdel = Null
    BY <1>10 DEF JanitorStrong, Janitor, Leaves, Redirecting
  <2>1. CASE prev[jn[t].cur] # Null
    <3>1. pc'[t] = "jan_setnext"
      BY <1>1, <1>10, <2>1 DEF JanitorStrong, Goto
    <3>2. jn'[t].rdel = jn[t].rdel
      BY <1>1, <1>10, <2>1 DEF JanitorStrong, JanitorFrames
    <3> QED BY <3>1, <3>2, <2>0, <1>4 DEF Leaves, Dropping, Redirecting
  <2>2. CASE prev[jn[t].cur] = Null
    <3>1. pc'[t] = "jan_final"
      BY <1>1, <1>10, <2>2 DEF JanitorStrong, Goto
    <3>2. jn'[t].rdel = jn[t].rdel /\ jn'[t].right = item[t]
      BY <1>1, <1>10, <2>2 DEF JanitorStrong, JanitorFrames
    <3> QED BY <3>1, <3>2, <2>0, <1>2, <1>4 DEF Leaves, Dropping, Redirecting
  <2> QED BY <2>1, <2>2
<1>11. CASE jn[t].ret = "dw_weak" /\ JanitorSetNext(t) /\ ~Leaves(t)
  <2>1. pc[t] = "jan_setnext" /\ jn[t].rdel = Null /\ jn' = jn /\ pc'[t] = "jan_adv"
    BY <1>1, <1>11 DEF JanitorSetNext, Janitor, Leaves, Redirecting, Goto
  <2> QED BY <2>1, <1>4 DEF Leaves, Dropping, Redirecting
<1>12. CASE jn[t].ret = "dw_weak" /\ JanitorCheckAdvance(t) /\ ~Leaves(t)
  <2>1. pc[t] = "jan_adv" /\ jn[t].rdel = Null /\ pc'[t] = "jan_strong"
    BY <1>1, <1>12 DEF JanitorCheckAdvance, Janitor, Leaves, Redirecting, Goto
  <2>2. PICK p \in Nodes : p = jn[t].prv
    BY <1>1, <2>1 DEF JanitorKnows, JanitorFrames, Ptrs
  <2>3. CASE adv[p] > 0
    BY <2>1, <2>3, AdvanceAttends
  <2>4. CASE ~(adv[p] > 0)
    <3>1. jn'[t].rdel = Null
      BY <1>1, <1>12, <2>1, <2>2, <2>4 DEF JanitorCheckAdvance, AdvanceInProgress
    <3> QED BY <3>1, <2>1, <1>4 DEF Leaves, Dropping, Redirecting
  <2> QED BY <2>3, <2>4
<1>13. CASE jn[t].ret = "dw_weak" /\ JanitorFinal(t) /\ ~Leaves(t)
  <2>1. pc[t] = "jan_final" /\ jn[t].rdel = Null /\ jn[t].right = item[t]
    BY <1>13 DEF JanitorFinal, Janitor, Leaves
  <2>2. Goto(t, "jan_del") /\ jn' = [jn EXCEPT ![t].del = jn[t].cur]
    BY <1>13, <2>1 DEF JanitorFinal
  <2>3. pc'[t] = "jan_del" /\ jn'[t].right = jn[t].right
    BY <1>1, <2>2 DEF Goto
  <2> QED BY <2>1, <2>3, <1>2, <1>4 DEF Leaves, Dropping, Redirecting
<1>14. CASE jn[t].ret = "dw_weak" /\ JanitorDelete(t) /\ ~Leaves(t)
  <2>1. pc[t] = "jan_del" /\ jn[t].right = item[t]
    BY <1>14 DEF JanitorDelete, Janitor, Leaves
  <2>2. CASE Deletable(jn[t].del)
    <3>1. pc'[t] = "jan_free" /\ jn' = jn
      BY <1>1, <1>14, <2>2 DEF JanitorDelete, Goto
    <3> QED BY <3>1, <2>1, <1>2, <1>4 DEF Leaves, Dropping, Redirecting
  <2>3. CASE ~Deletable(jn[t].del)
    BY <1>14, <2>1, <2>3, UndeletableAttended
  <2> QED BY <2>2, <2>3
<1>15. CASE jn[t].ret = "dw_weak" /\ JanitorFree(t) /\ ~Leaves(t)
  <2>1. pc[t] = "jan_free" /\ jn[t].right = item[t]
    BY <1>15 DEF JanitorFree, Janitor, Leaves
  <2>2. /\ jn'[t].right = jn[t].right /\ jn'[t].del = prev[jn[t].del]
        /\ pc'[t] = IF prev[jn[t].del] = Null THEN "jan_clearprev" ELSE "jan_del"
    BY <1>1, <1>15 DEF JanitorFree, Goto
  <2>3. ~Leaves(t)'
    BY <2>1, <2>2, <1>2 DEF Leaves, Dropping, Redirecting
  <2> QED BY <2>3, <1>4
<1>16. CASE jn[t].ret = "dw_weak" /\ JanitorClearPrev(t) /\ ~Leaves(t)
  <2>1. pc[t] = "jan_clearprev" /\ jn[t].right = item[t] /\ jn[t].del = Null /\ jn' = jn /\ pc'[t] = "jan_unlink"
    BY <1>1, <1>16 DEF JanitorClearPrev, Janitor, Leaves, Goto
  <2> QED BY <2>1, <1>2, <1>4 DEF Leaves, Dropping, Redirecting
<1>17. CASE jn[t].ret = "dw_weak" /\ JanitorUnlink(t) /\ ~Leaves(t)
  <2>1. pc[t] = "jan_unlink" /\ jn[t].right = item[t] /\ jn[t].del = Null
    BY <1>17 DEF JanitorUnlink, Janitor, Leaves
  <2>2. Adjacent(item[t], Null)
    BY <2>1, <1>1 DEF JanitorKnows
  <2>3. Leftmost(item[t])
    BY <2>2 DEF Adjacent, Leftmost
  <2> QED BY <2>1, <2>3, <1>7, <1>17
<1>18. ASSUME ~Leaves(t), jn[t].ret = "dw_weak" PROVE ~JanitorCleanup(t) /\ ~JanitorCarry(t) /\ ~JanitorUncarry(t) /\ ~JanitorUnlockStart(t)
  BY <1>18 DEF Leaves, JanitorCleanup, JanitorCarry, JanitorUncarry, JanitorUnlockStart, Janitor
<1>19. pc[t] = "jan_lock" => JanitorLockStart(t)
  BY <1>1, StepAt
<1> QED
  BY <1>5, <1>7, <1>8, <1>9, <1>10, <1>11, <1>12, <1>13, <1>14, <1>15, <1>16, <1>17, <1>18, <1>19 DEF JanitorStep

(* Whoever is in charge when a call goes on, somebody is afterwards.       *)
LEMMA AttendedKept ==
  ASSUME RestInv, LeakInv, NEW t \in Threads, AnyStep(t)
  PROVE  Attended'
<1>1. SafeInv /\ LocksOwned /\ PrevFlagged /\ Attended /\ TypeOK
  BY SafeParts, NodesTyped DEF RestInv, LeakInv
<1>2. ASSUME NEW u \in Threads \ {t}, InCharge(u) PROVE Attended'
  BY <1>1, <1>2, ChargeStays DEF Attended
<1>3. ASSUME NEW u \in Threads, InCharge(u)' PROVE Attended'
  BY <1>3 DEF Attended
<1>4. CASE \A n \in Nodes : ~Live(n)
  <2>1. \A n \in Nodes : mem'[n] # "live"
    BY <1>1, <1>4, EmptyStays
  <2> QED BY <2>1 DEF Attended, Live
<1>5. CASE Call(t)
  BY <1>1, <1>5, CallAttends DEF Attended
<1>6. CASE Return(t) /\ (HandleLeft \/ InCharge(t))
  <2>1. HandleLeft'
    BY <1>1, <1>6, ReturnAttends
  <2> QED BY <2>1 DEF Attended
<1>7. CASE Step(t) /\ ~Return(t)
  <2>1. UNCHANGED handle
    BY <1>1, <1>7, HandlesStay
  <2>2. HandleLeft => Attended'
    BY <2>1 DEF Attended, HandleLeft
  <2>3. ASSUME InCharge(t), pc[t] \in Dying \cup {"ds_dec"} PROVE Attended'
    <3>1. DropStep(t)
      BY <2>3, StepAt DEF Dying, DropStep
    <3>2. \/ HandleLeft \/ InCharge(t)' \/ \E u \in Threads \ {t} : InCharge(u)
          \/ \A n \in Nodes : mem'[n] # "live"
      BY <1>1, <2>3, <3>1, DropCharges
    <3>3. (\A n \in Nodes : mem'[n] # "live") => Attended'
      BY DEF Attended, Live
    <3> QED BY <1>2, <1>3, <2>2, <3>2, <3>3
  <2>4. ASSUME InCharge(t), pc[t] \in Janitoring PROVE Attended'
    <3>1. JanitorStep(t)
      BY <2>4, StepAt DEF Janitoring, JanitorStep
    <3>2. HandleLeft \/ InCharge(t)' \/ \E u \in Threads \ {t} : InCharge(u) \/ InCharge(u)'
      BY <1>1, <2>4, <3>1, JanitorCharges
    <3> QED BY <1>2, <1>3, <2>2, <3>2
  <2>5. ASSUME InCharge(t), pc[t] \notin Janitoring \cup Dying \cup {"ds_dec"} PROVE Attended'
    <3>1. HandleLeft \/ InCharge(t)'
      BY <1>1, <1>7, <2>5, OtherStepsCharge
    <3> QED BY <1>3, <2>2, <3>1
  <2> QED BY <1>1, <1>2, <1>4, <2>2, <2>3, <2>4, <2>5 DEF Attended
<1> QED BY <1>1, <1>2, <1>4, <1>5, <1>6, <1>7 DEF Attended, AnyStep

(* An allocation is made by update, or by the closure of rcu.              *)
LEMMA BuiltBy ==
  ASSUME SafeInv, NEW t \in Threads, AnyStep(t), NEW n \in Nodes, mem[n] # "private", mem'[n] = "private"
  PROVE  Linking(pc'[t], av'[t]) /\ op'[t].val = n
<1>1. /\ TypeOK /\ mem \in [Nodes -> {"unused", "private", "live", "freed"}] /\ OrderInv
      /\ pc \in [Threads -> Labels] /\ av \in [Threads -> AdvanceFrames] /\ op \in [Threads -> CallFrames]
  BY SafeParts, NodesTyped DEF TypeOK
<1>2. CASE UpdateNext(t)
  <2>1. PrepareLink(t, FreshNode) /\ NewHolder(FreshNode, item[t]) /\ Unused # {}
    BY <1>1, <1>2 DEF UpdateNext, heap
  <2>2. FreshNode = n
    BY <1>1, <2>1 DEF NewHolder
  <2>3. pc'[t] = "upd_weak" /\ op'[t].val = n
    BY <1>1, <2>1, <2>2 DEF PrepareLink, Goto, CallFrames
  <2> QED BY <2>3 DEF Linking
<1>3. ASSUME NEW h \in Handles, Update(t, h) PROVE Linking(pc'[t], av'[t]) /\ op'[t].val = n
  <2>1. /\ NewHolder(FreshNode, handle[h].node) /\ Enter(t, "update", h, h, FreshNode)
        /\ StartAdvance(t, handle[h].node, "strong", "upd_next")
    BY <1>3 DEF Update
  <2>2. FreshNode = n
    BY <1>1, <2>1 DEF NewHolder
  <2>3. op'[t].val = n
    BY <1>1, <2>1, <2>2 DEF Enter, IdleOp
  <2>4. av'[t].ret = "upd_next"
    BY <1>1, <2>1 DEF StartAdvance, IdleAdvance
  <2> QED BY <2>3, <2>4 DEF Linking
<1>4. HeapStep(t)
  BY EveryKind
<1>5. mem' # mem
  OBVIOUS
<1>6. HeapKept => mem' = mem
  BY DEF HeapKept, heap
<1>7. \A k \in Nodes : WeakTaken(t, k) \/ WeakGiven(k) \/ StrongTaken(k) \/ StrongGiven(k) \/ AdvanceSet(k) \/ WordSet(k) => mem' = mem
  BY DEF WeakTaken, WeakGiven, StrongTaken, StrongGiven, AdvanceSet, WordSet
<1>8. PayloadMark(t) \/ PayloadDrop(t) \/ JanitorClearPrev(t) \/ JanitorUnlink(t) \/ ClaimTeardown(t) \/ UpdateMark(t) => mem' = mem
  BY DEF PayloadMark, PayloadDrop, JanitorClearPrev, JanitorUnlink, ClaimTeardown, UpdateMark, OnlyNext, OnlyPrev, OnlyWeak, OnlyStrong
<1>9. ~JanitorFree(t) /\ ~DropWeakFree(t) /\ ~RcuCancel(t) /\ ~UpdateCas(t)
  BY <1>1 DEF JanitorFree, Deallocate, DropWeakFree, RcuCancel, UpdateCas, Publish
<1> QED BY <1>2, <1>3, <1>4, <1>5, <1>6, <1>7, <1>8, <1>9 DEF HeapStep, Special

(* A call that has a node to link goes on with it until it links or frees  *)
(* the node.                                                               *)
LEMMA LinkingGoesOn ==
  ASSUME SafeInv, NEW t \in Threads, AnyStep(t), NEW n \in Nodes, mem'[n] = "private", Linking(pc[t], av[t]), op[t].val = n
  PROVE  Linking(pc'[t], av'[t]) /\ op'[t].val = n
<1>1. /\ mem \in [Nodes -> {"unused", "private", "live", "freed"}] /\ n # Null
      /\ pc \in [Threads -> Labels] /\ av \in [Threads -> AdvanceFrames] /\ op \in [Threads -> CallFrames]
  BY SafeParts, NodesTyped DEF TypeOK
<1>2. Frames(pc[t], av[t], pd[t])
  BY SafeParts DEF OrderInv, Local, Knows
<1>3. CASE pc[t] = "upd_next"
  <2>1. ~RcuCancel(t)
    BY <1>1 DEF RcuCancel
  <2>2. UpdateNext(t)
    BY <1>3, <2>1, StepAt
  <2>3. CASE HasNext(item[t])
    <3>1. UpdateAgain(t) /\ op' = op
      BY <2>2, <2>3 DEF UpdateNext
    <3>2. av'[t].ret = "upd_next"
      BY <1>1, <3>1 DEF UpdateAgain, StartAdvance, IdleAdvance
    <3> QED BY <3>1, <3>2 DEF Linking
  <2>4. CASE ~HasNext(item[t])
    <3>1. PrepareLink(t, op[t].val)
      BY <1>1, <2>2, <2>4 DEF UpdateNext
    <3>2. pc'[t] = "upd_weak" /\ op'[t].val = op[t].val
      BY <1>1, <3>1 DEF PrepareLink, Goto, CallFrames
    <3> QED BY <3>2 DEF Linking
  <2> QED BY <2>3, <2>4
<1>4. CASE pc[t] = "upd_weak"
  <2>1. UpdateWeakInc(t)
    BY <1>4, StepAt
  <2>2. pc'[t] = "upd_cas" /\ op' = op
    BY <1>1, <2>1 DEF UpdateWeakInc, Goto, locals
  <2> QED BY <2>2 DEF Linking
<1>5. CASE pc[t] = "upd_cas"
  <2>1. UpdateCas(t)
    BY <1>5, StepAt
  <2>2. ~CanLink(item[t], op[t].nw)
    BY <1>1, <2>1 DEF UpdateCas, Publish
  <2>3. pc'[t] = "upd_fail" /\ op' = op
    BY <1>1, <2>1, <2>2 DEF UpdateCas, Goto, locals
  <2> QED BY <2>3 DEF Linking
<1>6. CASE pc[t] = "upd_fail"
  <2>1. UpdateFail(t)
    BY <1>6, StepAt
  <2>2. av'[t].ret = "upd_next" /\ op' = op
    BY <1>1, <2>1 DEF UpdateFail, UpdateAgain, StartAdvance, IdleAdvance
  <2> QED BY <2>2 DEF Linking
<1>7. CASE av[t].ret = "upd_next"
  <2>1. pc[t] \in Advancing \cup Dropping
    BY <1>2, <1>7 DEF Frames
  <2>2. AdvanceStep(t)
    BY <2>1, StepAt DEF Advancing, Dropping, Walking, Swapping, SwappedIn, AdvanceStep
  <2>3. op'[t].val = op[t].val
    <3>1. ASSUME PayloadDrop(t) PROVE op'[t].val = op[t].val
      BY <1>1, <3>1 DEF PayloadDrop, DropPayload, CallFrames
    <3> QED BY <2>2, <3>1 DEF AdvanceStep, AdvanceLoad, AdvanceInc, AdvanceReload, AdvanceWeakInc, AdvanceDec, AdvanceWeakDec,
        WeakLeaveStart, PayloadMark, StrongLoad, StrongIncWeak, StrongCas, StrongRaceDecWeak, StrongRecheck, StrongUndo,
        StrongUndoDecWeak, StrongDecWeakB, StrongLeaveStart, StrongDecWeakA, locals
  <2>4. av'[t].ret = av[t].ret \/ pc'[t] = av[t].ret
    <3>1. ReturnAdvance(t) => pc'[t] = av[t].ret
      BY <1>1 DEF ReturnAdvance, Goto
    <3>2. RetryAdvance(t) => av'[t].ret = av[t].ret
      BY <1>1 DEF RetryAdvance, AdvanceFrames
    <3>3. \A c : TryStrong(t, c) => av'[t].ret = av[t].ret
      BY <1>1 DEF TryStrong, AdvanceFrames
    <3>4. ASSUME AdvanceLoad(t) \/ AdvanceInc(t) \/ AdvanceWeakInc(t) \/ AdvanceDec(t) \/ AdvanceWeakDec(t)
                 \/ WeakLeaveStart(t) \/ PayloadMark(t) \/ PayloadDrop(t)
          PROVE  av'[t].ret = av[t].ret \/ pc'[t] = av[t].ret
      BY <3>4, <3>1 DEF AdvanceLoad, AdvanceInc, AdvanceWeakInc, AdvanceDec, AdvanceWeakDec, WeakLeaveStart, PayloadMark, PayloadDrop, locals
    <3>5. AdvanceReload(t) => av'[t].ret = av[t].ret
      BY <1>1 DEF AdvanceReload, AdvanceFrames
    <3>6. StrongCas(t) => av'[t].ret = av[t].ret
      BY <1>1, <3>3 DEF StrongCas, AdvanceFrames
    <3>7. ASSUME StrongLoad(t) \/ StrongIncWeak(t) \/ StrongRaceDecWeak(t) \/ StrongRecheck(t) \/ StrongUndo(t)
                 \/ StrongUndoDecWeak(t) \/ StrongDecWeakB(t)
          PROVE  av'[t].ret = av[t].ret
      BY <3>7, <3>2, <3>3 DEF StrongLoad, StrongIncWeak, StrongRaceDecWeak, StrongRecheck, StrongUndo, StrongUndoDecWeak, StrongDecWeakB, locals
    <3>8. ASSUME StrongLeaveStart(t) \/ StrongDecWeakA(t)
          PROVE  av'[t].ret = av[t].ret \/ pc'[t] = av[t].ret
      BY <3>8, <3>1 DEF StrongLeaveStart, StrongDecWeakA
    <3> QED BY <2>2, <3>4, <3>5, <3>6, <3>7, <3>8 DEF AdvanceStep
  <2> QED BY <1>7, <2>3, <2>4 DEF Linking
<1> QED BY <1>3, <1>4, <1>5, <1>6, <1>7 DEF Linking

(* Every allocation that is not published has a call that will see to it.  *)
LEMMA NewOwnedKept ==
  ASSUME SafeInv, NewOwned, NEW t \in Threads, AnyStep(t)
  PROVE  NewOwned'
<1>1. SUFFICES ASSUME NEW n \in Nodes, mem'[n] = "private"
               PROVE  \E u \in Threads : Linking(pc'[u], av'[u]) /\ op'[u].val = n
  BY DEF NewOwned
<1>2. CASE mem[n] # "private"
  BY <1>1, <1>2, BuiltBy
<1>3. CASE mem[n] = "private"
  <2>1. PICK u \in Threads : Linking(pc[u], av[u]) /\ op[u].val = n
    BY <1>3 DEF NewOwned
  <2>2. CASE u = t
    BY <1>1, <2>1, <2>2, LinkingGoesOn
  <2>3. CASE u # t
    <3>1. pc'[u] = pc[u] /\ av'[u] = av[u] /\ op'[u] = op[u]
      BY <2>3, StepFacts DEF Still
    <3> QED BY <2>1, <3>1
  <2> QED BY <2>2, <2>3
<1> QED BY <1>2, <1>3

(* A janitor comes to unlink from the steps that free and clear.           *)
LEMMA UnlinkFrom ==
  ASSUME SafeInv, NEW t \in Threads, AnyStep(t), pc'[t] = "jan_unlink", jn'[t].del = Null
  PROVE  JanitorClearPrev(t)
<1>1. /\ TypeOK /\ pc \in [Threads -> Labels] /\ JanitorKnows(t)
      /\ (pc[t] \in Janitoring => jn[t].ret \in {"dw_weak", "upd_done", "get_done"})
  BY SafeParts, NodesTyped, ListParts, JanitorFacts DEF TypeOK
<1>2. ~Quiet(t)
  BY DEF Quiet, Janitoring
<1>3. ~(UpdateCas(t) /\ CanLink(item[t], op[t].nw))
  BY <1>1 DEF UpdateCas, Goto
<1>4. ~DropWeakFree(t)
  <2>1. dr \in [Threads -> DropFrames]
    BY <1>1 DEF TypeOK
  <2> QED BY <1>1, <2>1 DEF DropWeakFree, ReturnDrop, Goto, DropFrames
<1>5. JanitorStep(t)
  BY <1>2, <1>3, <1>4, StepCases
<1>6. ~JanitorDelete(t)
  BY <1>1 DEF JanitorDelete, Janitor, JanitorKnows, Goto
<1>7. ~JanitorLockStart(t) /\ ~JanitorUnlockStart(t)
  BY <1>1 DEF JanitorLockStart, JanitorUnlockStart, Janitor, ReturnJanitor, Goto, Janitoring
<1>8. ~JanitorSweep(t) /\ ~JanitorCleanup(t)
  BY <1>1 DEF JanitorSweep, JanitorCleanup, Janitor, Goto
<1>9. ~JanitorStrong(t) /\ ~JanitorSetNext(t) /\ ~JanitorCheckAdvance(t) /\ ~JanitorFinal(t)
  BY <1>1 DEF JanitorStrong, JanitorSetNext, JanitorCheckAdvance, JanitorFinal, Janitor, Goto
<1>10. ~JanitorFree(t) /\ ~JanitorUnlink(t)
  BY <1>1 DEF JanitorFree, JanitorUnlink, Janitor, Goto
<1>11. ~JanitorCarry(t) /\ ~JanitorUncarry(t)
  BY <1>1 DEF JanitorCarry, JanitorUncarry, Janitor, Goto
<1> QED BY <1>5, <1>6, <1>7, <1>8, <1>9, <1>10, <1>11 DEF JanitorStep

(* The flag goes before the link: what havePrev says is never too little.  *)
LEMMA PrevFlaggedKept ==
  ASSUME SafeInv, PrevFlagged, NEW t \in Threads, AnyStep(t)
  PROVE  PrevFlagged'
<1>1. /\ \A n \in Nodes : Moves(t, n)
      /\ weak \in [Nodes -> WeakWords] /\ jn \in [Threads -> JanitorFrames] /\ \A u \in Threads : JanitorKnows(u)
  BY StepFacts, SafeParts, NodesTyped DEF TypeOK
<1>2. ASSUME NEW n \in Nodes, Live(n), ~weak[n].havePrev PROVE ~weak'[n].havePrev
  BY <1>1, <1>2 DEF Moves, WeakMoves, Live, WeakWords
<1>3. ASSUME NEW n \in Nodes, mem'[n] = "live", prev'[n] = Null PROVE ~weak'[n].havePrev
  <2>1. CASE ~Live(n)
    <3>1. UpdateCas(t) /\ CanLink(item[t], op[t].nw) /\ n = op[t].val
      BY <1>3, <2>1, LiveFrom
    <3>2. Links(t, item[t], op[t].val)
      BY <3>1, SafeParts, UpdateLinks
    <3>3. prev'[n] = item[t] /\ item[t] # Null
      BY <3>1, <3>2, SafeParts, NodesTyped DEF Links
    <3> QED BY <1>3, <3>3
  <2>2. CASE Live(n) /\ prev'[n] = prev[n]
    BY <1>2, <1>3, <2>2 DEF PrevFlagged
  <2>3. CASE Live(n) /\ JanitorUnlink(t) /\ n = jn[t].right /\ prev'[n] = jn[t].del
    <3>1. pc[t] = "jan_unlink"
      BY <2>3 DEF JanitorUnlink, Janitor
    <3> QED BY <1>2, <1>3, <2>3, <3>1 DEF PrevFlagged
  <2> QED BY <1>1, <2>1, <2>2, <2>3 DEF Moves, PrevMoves
<1>4. ASSUME NEW u \in Threads, pc'[u] = "jan_unlink", jn'[u].del = Null PROVE ~weak'[jn'[u].right].havePrev
  <2>1. CASE u # t
    <3>1. pc[u] = "jan_unlink" /\ jn'[u] = jn[u]
      BY <1>4, <2>1, StepFacts DEF Still
    <3>2. PICK r \in Nodes : r = jn[u].right
      BY <1>1, <3>1 DEF JanitorKnows, Freeing, JanitorFrames, Ptrs
    <3>3. Live(r)
      BY <1>1, <3>1, <3>2 DEF JanitorKnows, Freeing
    <3> QED BY <1>2, <1>4, <3>1, <3>2, <3>3 DEF PrevFlagged
  <2>2. CASE u = t
    <3>1. JanitorClearPrev(t)
      BY <1>4, <2>2, UnlinkFrom
    <3>2. pc[t] = "jan_clearprev" /\ jn' = jn /\ weak' = [weak EXCEPT ![jn[t].right].havePrev = FALSE]
      BY <3>1 DEF JanitorClearPrev, Janitor
    <3>3. PICK r \in Nodes : r = jn[t].right
      BY <1>1, <3>2 DEF JanitorKnows, Freeing, JanitorFrames, Ptrs
    <3> QED BY <1>1, <2>2, <3>2, <3>3 DEF WeakWords
  <2> QED BY <2>1, <2>2
<1> QED BY <1>3, <1>4 DEF PrevFlagged, Live

(* The program starts with a handle to every node. *)
LEMMA InitLeak ==
  ASSUME Init
  PROVE  LeakInv
<1>1. HandleLeft
  <2>1. 1 \in 1..InitLen /\ handle = InitHandle
    BY InitChain
  <2>2. PICK h \in Handles : InitHandle[h] = [kind |-> "strong", node |-> 1]
    BY <2>1, ProgramAssumption
  <2> QED BY <2>1, <2>2 DEF HandleLeft
<1>2. NewOwned
  BY InitChain DEF NewOwned
<1>3. PrevFlagged
  <2>1. ASSUME NEW n \in Nodes, Live(n), prev[n] = Null PROVE ~weak[n].havePrev
    <3>1. /\ n \in Nat /\ n >= 1 /\ InitLen \in Nat
          /\ mem[n] = IF n <= InitLen THEN "live" ELSE "unused"
          /\ prev[n] = IF n <= InitLen THEN n - 1 ELSE 0
      BY InitChain
    <3>2. weak[n] = IF n > InitLen THEN NoWeak
                    ELSE [count |-> InitRefs("weak", n) + IF n < InitLen THEN 2 ELSE 1,
                          haveNext |-> n < InitLen, havePrev |-> n > 1]
      BY InitChain
    <3>3. n <= InitLen
      BY <2>1, <3>1 DEF Live
    <3>4. n - 1 = 0
      BY <2>1, <3>1, <3>3 DEF Null
    <3>5. ~(n > InitLen) /\ ~(n > 1)
      BY <3>1, <3>3, <3>4
    <3>6. weak[n].havePrev = (n > 1)
      BY <3>2, <3>5
    <3> QED BY <3>5, <3>6
  <2>2. \A t \in Threads : pc[t] = "idle"
    BY InitChain
  <2> QED BY <2>1, <2>2 DEF PrevFlagged
<1> QED BY <1>1, <1>2, <1>3 DEF LeakInv, Attended

(* Every step keeps it. *)
LEMMA NextLeak ==
  ASSUME RestInv, LeakInv, [Next]_vars
  PROVE  LeakInv'
<1>1. (\E t \in Threads : AnyStep(t)) \/ UNCHANGED vars
  BY DEF Next, Rest, AnyStep
<1>2. CASE UNCHANGED vars
  BY <1>2 DEF LeakInv, Attended, NewOwned, PrevFlagged, HandleLeft, InCharge, Leaves, Returns, Yields, Leftmost, HasNext,
     vars, heap, client, locals, Live, Before
<1>3. ASSUME NEW t \in Threads, AnyStep(t) PROVE LeakInv'
  <2>1. Attended'
    BY <1>3, AttendedKept
  <2>2. NewOwned' /\ PrevFlagged'
    BY <1>3, NewOwnedKept, PrevFlaggedKept DEF RestInv, LeakInv
  <2> QED BY <2>1, <2>2 DEF LeakInv
<1> QED BY <1>1, <1>2, <1>3

(* While a node is left, there is a handle or a call that leaves one or    *)
(* frees the node; a node that is not published has the call that made it; *)
(* and havePrev is cleared before the link (do_drop_weak, do_janitor_task, *)
(* do_update).                                                             *)
THEOREM NodesStayAttended == Spec => [](RestInv /\ LeakInv)
<1>1. Init => RestInv /\ LeakInv
  BY InitRest, InitLeak
<1>2. RestInv /\ LeakInv /\ [Next]_vars => (RestInv /\ LeakInv)'
  BY NextRest, NextLeak
<1> QED BY <1>1, <1>2, PTL DEF Spec

(* When no call is in progress and the last ArcShift and ArcShiftWeak are  *)
(* gone, every node has been freed, and every value was dropped exactly    *)
(* once or given out (do_drop_weak, do_janitor_task, do_drop_strong).      *)
THEOREM NoGarbageLeft == Spec => []NothingLeaks
<1>1. RestInv /\ LeakInv => NothingLeaks
  <2>1. SUFFICES ASSUME RestInv, LeakInv, AtRest, Held("strong") \cup Held("weak") = {}, NEW n \in Nodes
                 PROVE  mem[n] \in {"unused", "freed"} /\ drops[n] = IF mem[n] = "freed" THEN 1 ELSE 0
    BY DEF NothingLeaks
  <2>2. SafeInv /\ mem[n] \in {"unused", "private", "live", "freed"}
    BY <2>1, SafeParts, NodesTyped DEF RestInv
  <2>3. ~HandleLeft
    BY <2>1 DEF HandleLeft, Held
  <2>4. \A t \in Threads : pc[t] = "idle" /\ ~InCharge(t)
    BY <2>1 DEF AtRest, InCharge
  <2>5. ~Live(n)
    BY <2>1, <2>3, <2>4 DEF LeakInv, Attended
  <2>6. \A t \in Threads : ~Linking(pc[t], av[t])
    BY <2>2, <2>4, SafeParts, IdleKnows DEF Linking
  <2>7. mem[n] # "private"
    BY <2>1, <2>6 DEF LeakInv, NewOwned
  <2>8. mem[n] \in {"unused", "freed"}
    BY <2>2, <2>5, <2>7 DEF Live
  <2>9. (mem[n] = "freed" => drops[n] = 1) /\ (mem[n] = "unused" => drops[n] = 0)
    BY <2>2, SafeParts DEF PayloadsSafe, PrivateFresh
  <2> QED BY <2>8, <2>9
<1> QED BY <1>1, NodesStayAttended, PTL
=============================================================================
