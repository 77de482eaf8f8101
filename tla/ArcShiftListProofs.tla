-------------------------- MODULE ArcShiftListProofs --------------------------
(***************************************************************************)
(* The nodes stay a list, and every reference is to a live node.           *)
(***************************************************************************)
EXTENDS ArcShiftCountProofs

USE DEF Advancing, Dropping, Walking, Swapping, SwappedIn, SharedGetting

(* The list stays a list while any number of janitors lock, redirect, free *)
(* and unlink its nodes: what each of them has locked is its own.          *)

(* What the janitors rely on.                                               *)
Collecting(t) == Shape(t) /\ JanitorKnows(t) /\ (pc[t] \in Janitoring => Live(item[t]))
ListInv == OrderInv /\ Listed /\ LocksHeld /\ \A t \in Threads : Collecting(t)

(* Nodes of the list are in one line.                                       *)
LEMMA Line ==
  ASSUME OrderInv, Listed
  PROVE  /\ stamp \in [Nodes -> Nat] /\ prev \in [Nodes -> Ptrs] /\ next \in [Nodes -> NextWords]
         /\ \A n \in Nodes : n # Null
         /\ \A m, n \in Nodes : Live(m) /\ Live(n) => Before(m, n) \/ Before(n, m) \/ m = n
         /\ \A n \in Nodes : Live(n) /\ HasNext(n) => next[n].ptr \in Nodes /\ Live(next[n].ptr) /\ Before(n, next[n].ptr)
         /\ \A m, n \in Nodes : Live(m) /\ Live(n) /\ Before(m, n) => HasNext(m)
<1>1. TypeOK /\ ChainOrdered
  BY DEF OrderInv
<1>2. /\ stamp \in [Nodes -> Nat] /\ prev \in [Nodes -> Ptrs] /\ next \in [Nodes -> NextWords]
      /\ \A n \in Nodes : next[n].ptr \in Ptrs /\ n # Null
  <2>1. \A n \in Nodes : n # Null
    BY DEF Nodes, Null
  <2> QED BY <1>1, <2>1 DEF TypeOK, NextWords
<1>3. \A m, n \in Nodes : Live(m) /\ Live(n) => Before(m, n) \/ Before(n, m) \/ m = n
  BY <1>1, <1>2 DEF Listed, ChainOrdered, Before
<1>4. \A n \in Nodes : Live(n) /\ HasNext(n) => next[n].ptr \in Nodes /\ Live(next[n].ptr) /\ Before(n, next[n].ptr)
  BY <1>1, <1>2 DEF Listed, ChainOrdered, HasNext, Ptrs, Before
<1>5. ASSUME NEW m \in Nodes, NEW n \in Nodes, Live(m), Live(n), Before(m, n)
      PROVE  HasNext(m)
  <2>1. stamp[m] < stamp[n] /\ stamp[n] <= count /\ Published(m)
    BY <1>1, <1>5 DEF Listed, ChainOrdered, Before
  <2>2. count \in Nat /\ stamp[m] \in Nat /\ stamp[n] \in Nat
    BY <1>1 DEF TypeOK
  <2> QED BY <1>1, <2>1, <2>2 DEF ChainOrdered
<1> QED BY <1>2, <1>3, <1>4, <1>5

(* The node right of a gap is locked by the janitor that made the gap.      *)
LEMMA GapOwner ==
  ASSUME ListInv, NEW t \in Threads, Gap(t)
  PROVE  jn[t].right \in Nodes /\ Live(jn[t].right) /\ HasLocked(t, jn[t].right)
<1>1. jn[t] \in JanitorFrames
  BY DEF ListInv, OrderInv, TypeOK
<1>2. JanitorKnows(t)
  BY DEF ListInv, Collecting
<1> QED BY <1>1, <1>2 DEF Gap, JanitorKnows, HasLocked, JanitorFrames, Ptrs, Freeing, Redirecting, Janitoring

(* prev of a locked node is right, but for the owner's own gap.             *)
LEMMA PrevAdjacent ==
  ASSUME ListInv, NEW t \in Threads, NEW n \in Nodes, Live(n), HasLocked(t, n), ~(Gap(t) /\ jn[t].right = n)
  PROVE  Adjacent(n, prev[n])
<1>1. \A u \in Threads : ~(Gap(u) /\ jn[u].right = n)
  BY GapOwner DEF ListInv, LocksHeld
<1> QED BY <1>1 DEF ListInv, Listed

(* prev of a node that is not locked is right.                              *)
LEMMA UnlockedAdjacent ==
  ASSUME ListInv, NEW n \in Nodes, Live(n), ~next[n].locked
  PROVE  Adjacent(n, prev[n])
<1>1. \A u \in Threads : ~(Gap(u) /\ jn[u].right = n)
  BY GapOwner DEF ListInv, LocksHeld
<1> QED BY <1>1 DEF ListInv, Listed

-----------------------------------------------------------------------------
(* Locks are taken and given back.                                          *)

LockEffect(t) ==
  \A n \in Nodes : Live(n)' =>
    /\ Live(n)
    /\ HasLocked(t, n)' => next'[n].locked /\ (HasLocked(t, n) \/ ~next[n].locked)
    /\ next'[n].locked # next[n].locked => next'[n].locked \/ HasLocked(t, n)

(* A janitor that unlocks nothing but what it has locked, and locks nothing *)
(* but what nobody has, leaves every lock with one owner.                   *)
LEMMA LocksStayHeld ==
  ASSUME TypeOK, TypeOK', LocksHeld, NEW t \in Threads, \A u \in Threads \ {t} : Still(u), UNCHANGED stamp, LockEffect(t)
  PROVE  LocksHeld'
<1>1. ASSUME NEW u \in Threads \ {t}, NEW n \in Nodes
      PROVE  HasLocked(u, n)' <=> HasLocked(u, n)
  BY DEF Still, HasLocked, Before
<1>2. \A n \in Nodes : next'[n].locked \in BOOLEAN /\ next[n].locked \in BOOLEAN
  BY DEF TypeOK, NextWords
<1>3. ASSUME NEW u \in Threads, NEW n \in Nodes, Live(n)', HasLocked(u, n)'
      PROVE  next'[n].locked
  BY <1>1, <1>2, <1>3 DEF LockEffect, LocksHeld
<1>4. ASSUME NEW u \in Threads, NEW v \in Threads, NEW n \in Nodes, Live(n)', HasLocked(u, n)', HasLocked(v, n)'
      PROVE  u = v
  BY <1>1, <1>2, <1>4 DEF LockEffect, LocksHeld
<1> QED BY <1>3, <1>4 DEF LocksHeld

(* What a proof about a step of a janitor starts from.                      *)
LEMMA JanitorFacts ==
  ASSUME ListInv, NEW t \in Threads
  PROVE  /\ TypeOK /\ jn[t] \in JanitorFrames /\ item[t] \in Nodes /\ next \in [Nodes -> NextWords]
         /\ prev \in [Nodes -> Ptrs] /\ stamp \in [Nodes -> Nat]
         /\ \A n \in Nodes : n # Null
         /\ \A m, n \in Nodes : Live(m) /\ Live(n) => Before(m, n) \/ Before(n, m) \/ m = n
         /\ jn[t].cur \in Ptrs /\ jn[t].cand \in Ptrs /\ jn[t].prv \in Ptrs /\ jn[t].fail \in Ptrs
         /\ jn[t].rdel \in Ptrs /\ jn[t].right \in Ptrs /\ jn[t].carry \in Ptrs /\ jn[t].del \in Ptrs
         /\ JanitorKnows(t) /\ LocksHeld /\ Listed /\ Shape(t) /\ (pc[t] \in Janitoring => Live(item[t]))
         /\ pc[t] \in Janitoring => jn[t].ret \in {"dw_weak", "upd_done", "get_done"}
         /\ JanitorOrdered(pc[t], item[t], jn[t])
<1>1. TypeOK /\ jn[t] \in JanitorFrames /\ item[t] \in Nodes /\ JanitorKnows(t) /\ LocksHeld /\ Listed
      /\ Shape(t) /\ (pc[t] \in Janitoring => Live(item[t]))
  BY DEF ListInv, OrderInv, TypeOK, Collecting
<1>2. pc[t] \in Janitoring => jn[t].ret \in {"dw_weak", "upd_done", "get_done"}
  BY <1>1 DEF Shape, Continues
<1>3. /\ jn[t].cur \in Ptrs /\ jn[t].cand \in Ptrs /\ jn[t].prv \in Ptrs /\ jn[t].fail \in Ptrs
      /\ jn[t].rdel \in Ptrs /\ jn[t].right \in Ptrs /\ jn[t].carry \in Ptrs /\ jn[t].del \in Ptrs
  BY <1>1 DEF JanitorFrames
<1>4. JanitorOrdered(pc[t], item[t], jn[t])
  BY DEF ListInv, OrderInv, Local, Knows
<1> QED BY <1>1, <1>2, <1>3, <1>4, Line DEF ListInv

(* A janitor locks only what nobody has locked and unlocks only what it has *)
(* locked itself.                                                           *)
LEMMA JanitorLocks ==
  ASSUME ListInv, TypeOK', NEW t \in Threads, JanitorStep(t)
  PROVE  LockEffect(t)
<1>k. /\ TypeOK /\ jn[t] \in JanitorFrames /\ item[t] \in Nodes /\ next \in [Nodes -> NextWords]
      /\ prev \in [Nodes -> Ptrs] /\ stamp \in [Nodes -> Nat]
      /\ \A n \in Nodes : n # Null
      /\ \A m, n \in Nodes : Live(m) /\ Live(n) => Before(m, n) \/ Before(n, m) \/ m = n
      /\ jn[t].cur \in Ptrs /\ jn[t].cand \in Ptrs /\ jn[t].prv \in Ptrs /\ jn[t].fail \in Ptrs
      /\ jn[t].rdel \in Ptrs /\ jn[t].right \in Ptrs /\ jn[t].carry \in Ptrs /\ jn[t].del \in Ptrs
      /\ JanitorKnows(t) /\ LocksHeld /\ Listed /\ Shape(t) /\ (pc[t] \in Janitoring => Live(item[t]))
      /\ pc[t] \in Janitoring => jn[t].ret \in {"dw_weak", "upd_done", "get_done"}
      /\ JanitorOrdered(pc[t], item[t], jn[t])
  BY JanitorFacts
<1>p. \A n \in Nodes : Live(n) /\ HasLocked(t, n) /\ ~(Gap(t) /\ jn[t].right = n) => Adjacent(n, prev[n])
  BY PrevAdjacent
<1>q. \A n \in Nodes : Live(n) /\ ~next[n].locked => Adjacent(n, prev[n])
  BY UnlockedAdjacent
<1>t. \A n \in Nodes : next[n].locked \in BOOLEAN /\ next'[n].locked \in BOOLEAN
  BY DEF ListInv, OrderInv, TypeOK, NextWords
<1>n. ASSUME KeepsLocks,
             \A n \in Nodes : Live(n)' => Live(n),
             \A n \in Nodes : Live(n)' /\ HasLocked(t, n)' => HasLocked(t, n)
      PROVE  LockEffect(t)
  BY <1>n, <1>k DEF LockEffect, LocksHeld, KeepsLocks
<1>u. ASSUME NEW m \in Nodes, Unlocks(m), HasLocked(t, m),
             \A n \in Nodes : Live(n)' => Live(n),
             \A n \in Nodes : Live(n)' /\ HasLocked(t, n)' => HasLocked(t, n) /\ n # m
      PROVE  LockEffect(t)
  BY <1>u, <1>k, <1>t DEF LockEffect, LocksHeld, Unlocks
<1>a. ASSUME NEW m \in Nodes, Locks(m), ~next[m].locked,
             \A n \in Nodes : Live(n)' => Live(n),
             \A n \in Nodes : Live(n)' /\ HasLocked(t, n)' => HasLocked(t, n) \/ n = m
      PROVE  LockEffect(t)
  BY <1>a, <1>k, <1>t DEF LockEffect, LocksHeld, Locks
<1> USE DEF Janitoring, Redirecting, Freeing, Live, Before
<1>1. CASE JanitorLockStart(t)
  <2>1. CASE next[item[t]].locked
    <3>1. pc'[t] \in {"dw_weak", "upd_done", "get_done"} /\ KeepsLocks /\ mem' = mem
      BY <1>1, <2>1, <1>k, JanitorLockStartMoves DEF KeepsNext
    <3> QED BY <3>1, <1>n DEF HasLocked
  <2>2. CASE ~next[item[t]].locked
    <3>1. /\ pc'[t] \in {"jan_unlock", "jan_sweep"} /\ Locks(item[t]) /\ UNCHANGED <<mem, prev, stamp, item>>
          /\ jn'[t].cur = prev[item[t]]
      BY <1>1, <2>2, <1>k, JanitorLockStartMoves
    <3>2. Adjacent(item[t], prev[item[t]]) /\ pc[t] = "jan_lock"
      BY <2>2, <1>1, <1>k, <1>q, JanitorLockStartMoves
    <3>3. \A n \in Nodes : Live(n)' /\ HasLocked(t, n)' => n = item[t]
      <4>1. pc'[t] = IF prev[item[t]] = Null THEN "jan_unlock" ELSE "jan_sweep"
        BY <1>1, <2>2, <1>k, JanitorLockStartMoves
      <4> QED BY <3>1, <3>2, <4>1, <1>k DEF HasLocked, Adjacent
    <3> QED BY <2>2, <3>1, <3>3, <1>k, <1>a
  <2> QED BY <2>1, <2>2
<1>2. CASE JanitorSweep(t)
  <2>0. pc[t] = "jan_sweep" /\ jn[t].cur \in Nodes /\ Live(jn[t].cur)
    BY <1>2, <1>k DEF JanitorSweep, Janitor, JanitorKnows, Ptrs
  <2>1. CASE next[jn[t].cur].locked
    <3>1. /\ pc'[t] = "jan_clean" /\ KeepsLocks /\ UNCHANGED <<mem, prev, stamp, item>>
          /\ jn'[t].cur = jn[t].cand /\ jn'[t].fail = jn[t].cur
      BY <1>2, <2>0, <2>1, <1>k, JanitorSweepMoves DEF KeepsNext
    <3>2. Before(jn[t].cand, item[t]) /\ jn[t].cand \in Nodes
      BY <1>k, <2>0 DEF JanitorKnows, JanitorOrdered, Older, Ptrs
    <3>3. \A n \in Nodes : Live(n)' /\ HasLocked(t, n)' => HasLocked(t, n)
      BY <3>1, <3>2, <2>0, <1>k DEF HasLocked, JanitorKnows
    <3> QED BY <3>1, <3>3, <1>n
  <2>2. CASE ~next[jn[t].cur].locked /\ prev[jn[t].cur] = Null
    <3>1. /\ pc'[t] = "jan_strong" /\ Locks(jn[t].cur) /\ UNCHANGED <<mem, prev, stamp, item>>
          /\ jn'[t].cur = jn[t].cand
      BY <1>2, <2>0, <2>2, <1>k, JanitorSweepMoves
    <3>2. Adjacent(jn[t].cur, Null)
      BY <2>0, <2>2, <1>q
    <3>3. \A n \in Nodes : Live(n)' /\ HasLocked(t, n)' => HasLocked(t, n) \/ n = jn[t].cur
      BY <3>1, <3>2, <2>0, <1>k DEF HasLocked, Adjacent
    <3> QED BY <2>0, <2>2, <3>1, <3>3, <1>a
  <2>3. CASE ~next[jn[t].cur].locked /\ prev[jn[t].cur] # Null
    <3>1. /\ pc'[t] = "jan_sweep" /\ Locks(jn[t].cur) /\ UNCHANGED <<mem, prev, stamp, item>>
          /\ jn'[t].cur = prev[jn[t].cur]
      BY <1>2, <2>0, <2>3, <1>k, JanitorSweepMoves
    <3>2. Adjacent(jn[t].cur, prev[jn[t].cur])
      BY <2>0, <2>3, <1>q
    <3>3. \A n \in Nodes : Live(n)' /\ HasLocked(t, n)' => HasLocked(t, n) \/ n = jn[t].cur
      BY <3>1, <3>2, <2>0, <1>k DEF HasLocked, Adjacent
    <3> QED BY <2>0, <2>3, <3>1, <3>3, <1>a
  <2> QED BY <2>1, <2>2, <2>3
<1>3. CASE JanitorCleanup(t)
  <2>0. pc[t] = "jan_clean" /\ jn[t].cur \in Nodes /\ jn[t].fail \in Nodes
    BY <1>3, <1>k DEF JanitorCleanup, Janitor, JanitorKnows, Ptrs
  <2>1. CASE jn[t].cur # jn[t].fail
    <3>1. /\ pc'[t] = "jan_clean" /\ Unlocks(jn[t].cur) /\ UNCHANGED <<mem, prev, stamp, item>>
          /\ jn'[t].cur = prev[jn[t].cur] /\ jn'[t].fail = jn[t].fail
      BY <1>3, <2>0, <2>1, <1>k, JanitorCleanupMoves
    <3>2. HasLocked(t, jn[t].cur) /\ Live(jn[t].cur) /\ Before(jn[t].cur, item[t])
      BY <2>0, <2>1, <1>k DEF HasLocked, JanitorKnows
    <3>3. Adjacent(jn[t].cur, prev[jn[t].cur])
      BY <2>0, <3>2, <1>p DEF Gap
    <3>4. prev[jn[t].cur] # Null /\ prev[jn[t].cur] \in Nodes
      BY <2>0, <2>1, <3>3, <1>k DEF JanitorKnows, Adjacent, Ptrs
    <3>5. \A n \in Nodes : Live(n)' /\ HasLocked(t, n)' => HasLocked(t, n) /\ n # jn[t].cur
      BY <3>1, <3>2, <3>3, <3>4, <2>0, <1>k DEF HasLocked, Adjacent
    <3> QED BY <2>0, <3>1, <3>2, <3>5, <1>u
  <2>2. CASE jn[t].cur = jn[t].fail
    <3>1. /\ pc'[t] = "jan_unlock" /\ KeepsLocks /\ UNCHANGED <<mem, prev, stamp, item>>
      BY <1>3, <2>0, <2>2, <1>k, JanitorCleanupMoves DEF KeepsNext
    <3> QED BY <2>0, <3>1, <1>n, <1>k DEF HasLocked
  <2> QED BY <2>1, <2>2
<1>4. CASE JanitorUnlockStart(t)
  <2>1. /\ pc[t] = "jan_unlock" /\ Unlocks(item[t]) /\ pc'[t] \in {"dw_weak", "upd_done", "get_done"} /\ mem' = mem
    BY <1>4, <1>k, JanitorUnlockStartMoves
  <2> QED BY <2>1, <1>k, <1>u DEF HasLocked
<1>5. CASE JanitorStrong(t)
  <2>0. pc[t] = "jan_strong" /\ jn[t].cur \in Nodes /\ Live(jn[t].cur)
    BY <1>5, <1>k DEF JanitorStrong, Janitor, JanitorKnows, Ptrs
  <2>1. CASE prev[jn[t].cur] # Null
    <3>1. /\ pc'[t] = "jan_setnext" /\ KeepsLocks /\ UNCHANGED <<mem, prev, stamp, item>>
      BY <1>5, <2>1, <1>k, JanitorStrongMoves DEF KeepsNext
    <3> QED BY <2>0, <3>1, <1>n, <1>k DEF HasLocked
  <2>2. CASE prev[jn[t].cur] = Null
    <3>1. /\ pc'[t] = "jan_final" /\ KeepsLocks /\ UNCHANGED <<mem, prev, stamp, item>>
          /\ jn'[t].cur = jn[t].cand /\ jn'[t].carry = Null
      BY <1>5, <2>0, <2>2, <1>k, JanitorStrongMoves DEF KeepsNext, JanitorKnows
    <3>2. Before(jn[t].cand, item[t]) /\ jn[t].cand \in Nodes
      BY <1>k, <2>0 DEF JanitorKnows, JanitorOrdered, Older, Ptrs
    <3>3. \A n \in Nodes : Live(n)' /\ HasLocked(t, n)' => HasLocked(t, n)
      BY <2>0, <3>1, <3>2, <1>k DEF HasLocked
    <3> QED BY <3>1, <3>3, <1>n
  <2> QED BY <2>1, <2>2
<1>6. CASE JanitorSetNext(t)
  <2>1. /\ pc[t] = "jan_setnext" /\ pc'[t] = "jan_adv" /\ KeepsLocks /\ UNCHANGED <<mem, prev, stamp, item>>
    BY <1>6, <1>k, JanitorSetNextMoves
  <2> QED BY <2>1, <1>n, <1>k DEF HasLocked
<1>7. CASE JanitorCheckAdvance(t)
  <2>1. /\ pc[t] = "jan_adv" /\ pc'[t] = "jan_strong" /\ KeepsLocks /\ UNCHANGED <<mem, prev, stamp, item>>
    BY <1>7, <1>k, JanitorCheckAdvanceMoves DEF KeepsNext
  <2> QED BY <2>1, <1>n, <1>k DEF HasLocked
<1>8. CASE JanitorFinal(t)
  <2>0. pc[t] = "jan_final" /\ jn[t].cur \in Nodes /\ Live(jn[t].cur) /\ jn[t].carry = jn'[t].carry /\ jn'[t].cur = jn[t].cur
        /\ KeepsLocks /\ UNCHANGED <<mem, prev, stamp, item>>
    BY <1>8, <1>k, JanitorFinalMoves DEF KeepsNext, JanitorKnows, Ptrs
  <2>1. CASE pc'[t] = "jan_del"
    BY <2>0, <2>1, <1>n, <1>k DEF HasLocked
  <2>2. CASE pc'[t] = "jan_carry" /\ jn'[t].right = jn[t].cur
    BY <2>0, <2>2, <1>n, <1>k DEF HasLocked
  <2> QED BY <1>8, <2>1, <2>2, <1>k, JanitorFinalMoves
<1>9. CASE JanitorDelete(t)
  <2>0. pc[t] = "jan_del" /\ jn[t].del \in Nodes /\ Live(jn[t].del) /\ jn[t].carry = jn'[t].carry /\ jn'[t].cur = jn[t].cur
        /\ KeepsLocks /\ UNCHANGED <<mem, prev, stamp, item>> /\ jn'[t].del = jn[t].del
    BY <1>9, <1>k, JanitorDeleteMoves DEF KeepsNext, JanitorKnows, Ptrs
  <2>1. CASE pc'[t] = "jan_free"
    BY <2>0, <2>1, <1>n, <1>k DEF HasLocked
  <2>2. CASE pc'[t] = "jan_unlink" /\ jn[t].del # jn[t].cur
    <3>1. jn[t].cur \in Nodes /\ Before(jn[t].del, jn[t].cur)
      BY <2>0, <2>2, <1>k DEF JanitorKnows, Ptrs
    <3>2. \A n \in Nodes : Live(n)' /\ HasLocked(t, n)' => HasLocked(t, n)
      BY <2>0, <2>2, <3>1, <1>k DEF HasLocked
    <3> QED BY <2>0, <3>2, <1>n
  <2>3. CASE pc'[t] = "jan_carry" /\ jn'[t].right = jn[t].del /\ jn[t].del = jn[t].cur
    BY <2>0, <2>3, <1>n, <1>k DEF HasLocked
  <2> QED BY <1>9, <2>1, <2>2, <2>3, <1>k, JanitorDeleteMoves
<1>10. CASE JanitorFree(t)
  <2>0. pc[t] = "jan_free" /\ jn[t].del \in Nodes /\ jn[t].carry = jn'[t].carry /\ jn'[t].cur = jn[t].cur
        /\ KeepsLocks /\ UNCHANGED <<prev, stamp, item>> /\ mem' = [mem EXCEPT ![jn[t].del] = "freed"]
    BY <1>10, <1>k, JanitorFreeMoves DEF KeepsNext, JanitorKnows, Ptrs
  <2>1. CASE pc'[t] = "jan_clearprev"
    BY <2>0, <2>1, <1>n, <1>k DEF HasLocked, TypeOK
  <2>2. CASE pc'[t] = "jan_del"
    BY <2>0, <2>2, <1>n, <1>k DEF HasLocked, TypeOK
  <2> QED BY <1>10, <2>1, <2>2, <1>k, JanitorFreeMoves
<1>11. CASE JanitorClearPrev(t)
  <2>1. /\ pc[t] = "jan_clearprev" /\ pc'[t] = "jan_unlink" /\ KeepsLocks /\ UNCHANGED <<mem, prev, stamp, item>>
        /\ jn'[t].carry = jn[t].carry /\ jn'[t].del = Null
    BY <1>11, <1>k, JanitorClearPrevMoves DEF KeepsNext, ListInv, OrderInv, Local, Knows, JanitorOrdered
  <2> QED BY <2>1, <1>n, <1>k DEF HasLocked
<1>12. CASE JanitorUnlink(t)
  <2>0. pc[t] = "jan_unlink" /\ KeepsLocks /\ UNCHANGED <<mem, stamp, item>> /\ jn'[t].carry = jn[t].carry
    BY <1>12, <1>k, JanitorUnlinkMoves DEF KeepsNext
  <2>1. CASE pc'[t] = "jan_uncarry"
    BY <2>0, <2>1, <1>n, <1>k DEF HasLocked
  <2>2. CASE pc'[t] = "jan_carry" /\ jn'[t].right = jn[t].del /\ jn[t].del # Null
    BY <2>0, <2>2, <1>n, <1>k DEF HasLocked
  <2> QED BY <1>12, <2>1, <2>2, <1>k, JanitorUnlinkMoves
<1>13. CASE JanitorCarry(t)
  <2>0. /\ pc[t] = "jan_carry" /\ UNCHANGED <<mem, prev, stamp, item>> /\ jn'[t].carry = jn[t].right
        /\ jn'[t].cur = prev[jn[t].right] /\ jn[t].right \in Nodes /\ Live(jn[t].right)
        /\ IF jn[t].carry = Null THEN KeepsNext ELSE Unlocks(jn[t].carry)
        /\ pc'[t] = IF prev[jn[t].right] = Null THEN "jan_uncarry" ELSE "jan_final"
    BY <1>13, <1>k, JanitorCarryMoves DEF JanitorKnows, Ptrs
  <2>1. HasLocked(t, jn[t].right) /\ Adjacent(jn[t].right, prev[jn[t].right])
    <3>1. HasLocked(t, jn[t].right)
      BY <2>0, <1>k DEF HasLocked
    <3> QED BY <2>0, <3>1, <1>p DEF Gap
  <2>2. \A n \in Nodes : Live(n)' /\ HasLocked(t, n)' => n = item[t] \/ n = jn[t].right \/ Before(n, jn[t].right)
    BY <2>0, <2>1, <1>k DEF HasLocked, Adjacent, Ptrs
  <2>3. \A n \in Nodes : Live(n)' /\ HasLocked(t, n)' => HasLocked(t, n) /\ (jn[t].carry # Null => n # jn[t].carry)
    BY <2>0, <2>2, <1>k DEF HasLocked, JanitorKnows, Ptrs
  <2>4. jn[t].carry # Null => HasLocked(t, jn[t].carry) /\ jn[t].carry \in Nodes
    BY <2>0, <1>k DEF HasLocked, Ptrs
  <2> QED BY <2>0, <2>3, <2>4, <1>n, <1>u DEF KeepsNext
<1>14. CASE JanitorUncarry(t)
  <2>0. /\ pc[t] = "jan_uncarry" /\ UNCHANGED <<mem, prev, stamp, item>> /\ jn'[t].carry = Null
        /\ IF jn[t].carry = Null THEN KeepsNext ELSE Unlocks(jn[t].carry)
        /\ pc'[t] = "jan_unlock"
    BY <1>14, <1>k, JanitorUncarryMoves
  <2>3. \A n \in Nodes : Live(n)' /\ HasLocked(t, n)' => HasLocked(t, n) /\ (jn[t].carry # Null => n # jn[t].carry)
    BY <2>0, <1>k DEF HasLocked, JanitorKnows, Ptrs
  <2>4. jn[t].carry # Null => HasLocked(t, jn[t].carry) /\ jn[t].carry \in Nodes
    BY <2>0, <1>k DEF HasLocked, Ptrs
  <2> QED BY <2>0, <2>3, <2>4, <1>n, <1>u DEF KeepsNext
<1> QED BY <1>1, <1>2, <1>3, <1>4, <1>5, <1>6, <1>7, <1>8, <1>9, <1>10, <1>11, <1>12, <1>13, <1>14 DEF JanitorStep

(* What other janitors know survives a step that unlinks and frees nothing  *)
(* but what its own janitor has locked.                                     *)
\* a node that the step leaves in the list
StaysLive(n) == mem'[n] = "live"

OwnEffect(t) ==
  /\ UNCHANGED stamp
  /\ \A n \in Nodes : Live(n)' => Live(n)
  /\ \A n \in Nodes : mem[n] = "freed" => mem'[n] = "freed"
  /\ \A n \in Nodes : Live(n) /\ prev'[n] # prev[n] => HasLocked(t, n)
  /\ \A n \in Nodes : Live(n) /\ ~Live(n)' => HasLocked(t, n) /\ Gap(t)' /\ Adjacent(jn'[t].right, n)
       /\ HasLocked(t, jn'[t].right) /\ Live(jn'[t].right) /\ jn'[t].right \in Nodes

(* What a janitor does to the nodes it has locked, no other janitor relies *)
(* on.                                                                     *)
LEMMA OthersKnow ==
  ASSUME ListInv, NEW t \in Threads, NEW u \in Threads \ {t}, Still(u), OwnEffect(t)
  PROVE  JanitorKnows(u)'
<1>k. /\ TypeOK /\ jn[u] \in JanitorFrames /\ item[u] \in Nodes /\ next \in [Nodes -> NextWords]
      /\ prev \in [Nodes -> Ptrs] /\ stamp \in [Nodes -> Nat]
      /\ \A n \in Nodes : n # Null
      /\ \A m, n \in Nodes : Live(m) /\ Live(n) => Before(m, n) \/ Before(n, m) \/ m = n
      /\ jn[u].cur \in Ptrs /\ jn[u].cand \in Ptrs /\ jn[u].prv \in Ptrs /\ jn[u].fail \in Ptrs
      /\ jn[u].rdel \in Ptrs /\ jn[u].right \in Ptrs /\ jn[u].carry \in Ptrs /\ jn[u].del \in Ptrs
      /\ JanitorKnows(u) /\ (pc[u] \in Janitoring => Live(item[u]))
      /\ JanitorOrdered(pc[u], item[u], jn[u])
  BY JanitorFacts
<1>s. pc'[u] = pc[u] /\ jn'[u] = jn[u] /\ item'[u] = item[u] /\ stamp' = stamp
  BY DEF Still, OwnEffect
<1>o. ASSUME NEW n \in Nodes, Live(n), HasLocked(u, n)
      PROVE  StaysLive(n) /\ prev'[n] = prev[n]
  <2>1. ~HasLocked(t, n)
    BY <1>o DEF ListInv, LocksHeld
  <2> QED BY <1>o, <2>1 DEF OwnEffect, StaysLive, Live
<1>p. ASSUME NEW n \in Nodes, Live(n), ~StaysLive(n)
      PROVE  \E r \in Nodes : /\ Live(r) /\ HasLocked(t, r) /\ Before(n, r)
                              /\ \A m \in Nodes : Live(m) /\ Before(m, r) => m = n \/ Before(m, n)
  <2>1. Adjacent(jn'[t].right, n) /\ HasLocked(t, jn'[t].right) /\ Live(jn'[t].right) /\ jn'[t].right \in Nodes
    BY <1>p DEF OwnEffect, StaysLive, Live
  <2> QED BY <2>1, <1>p, <1>k DEF Adjacent
<1>q. ASSUME NEW n \in Nodes, Live(n), HasLocked(u, n)
      PROVE  ~HasLocked(t, n)
  BY <1>q DEF ListInv, LocksHeld
<1>a. \A m, p \in Ptrs : Adjacent(m, p) /\ (p # Null => StaysLive(p)) => Adjacent(m, p)'
  BY <1>s DEF Adjacent, OwnEffect, Before, Live, StaysLive
<1>f. \A n \in Nodes : mem[n] = "freed" => mem'[n] = "freed"
  BY DEF OwnEffect
<1>b. \A m, n : Before(m, n)' <=> Before(m, n)
  BY <1>s DEF Before
<1> USE DEF Janitoring, Redirecting, Freeing
<1>1. CASE pc[u] = "jan_sweep"
  <2>1. /\ jn[u].cur \in Nodes /\ Live(jn[u].cur) /\ jn[u].cand \in Nodes /\ Live(jn[u].cand)
        /\ Before(jn[u].cand, item[u]) /\ ~Before(jn[u].cand, jn[u].cur) /\ prev[item[u]] = jn[u].cand
        /\ Live(item[u])
    BY <1>1, <1>k DEF JanitorKnows, JanitorOrdered, Older, Ptrs
  <2>2. HasLocked(u, item[u]) /\ \A n \in Nodes : Before(jn[u].cur, n) /\ Before(n, item[u]) => HasLocked(u, n)
    BY <1>1 DEF HasLocked
  <2>3. StaysLive(jn[u].cur)
    <3> SUFFICES ASSUME ~StaysLive(jn[u].cur) PROVE FALSE
      OBVIOUS
    <3>1. PICK r \in Nodes : /\ Live(r) /\ HasLocked(t, r) /\ Before(jn[u].cur, r)
                             /\ \A m \in Nodes : Live(m) /\ Before(m, r) => m = jn[u].cur \/ Before(m, jn[u].cur)
      BY <2>1, <1>p
    <3>2. Before(jn[u].cur, item[u])
      BY <2>1, <1>k DEF Before
    <3>3. r = item[u] \/ Before(r, item[u])
      BY <3>1, <3>2, <2>1, <1>k DEF Before
    <3> QED BY <3>1, <3>3, <2>1, <2>2, <1>q, <1>k
  <2>4. StaysLive(jn[u].cand)
    <3> SUFFICES ASSUME ~StaysLive(jn[u].cand), jn[u].cand # jn[u].cur PROVE FALSE
      BY <2>3
    <3>1. Before(jn[u].cur, jn[u].cand)
      BY <2>1, <1>k
    <3> QED BY <3>1, <2>1, <2>2, <1>o
  <2>5. prev'[item[u]] = prev[item[u]]
    BY <2>1, <2>2, <1>o, <1>k
  <2> QED BY <2>1, <2>3, <2>4, <2>5, <1>1, <1>s, <1>b, <1>k DEF JanitorKnows, StaysLive, Live
<1>2. CASE pc[u] = "jan_clean"
  <2>1. CASE jn[u].cur = jn[u].fail
    BY <2>1, <1>2, <1>s, <1>k DEF JanitorKnows
  <2>2. CASE jn[u].cur # jn[u].fail
    <3>1. /\ jn[u].cur \in Nodes /\ jn[u].fail \in Nodes /\ Live(jn[u].cur) /\ Live(jn[u].fail)
          /\ Before(jn[u].fail, jn[u].cur) /\ Before(jn[u].cur, item[u])
      BY <1>2, <2>2, <1>k DEF JanitorKnows, Ptrs
    <3>2. \A n \in Nodes : Before(jn[u].fail, n) /\ ~Before(jn[u].cur, n) => HasLocked(u, n)
      BY <1>2 DEF HasLocked
    <3>3. StaysLive(jn[u].cur)
      BY <3>1, <3>2, <1>o, <1>k DEF Before
    <3>4. StaysLive(jn[u].fail)
      <4> SUFFICES ASSUME ~StaysLive(jn[u].fail) PROVE FALSE
        OBVIOUS
      <4>1. PICK r \in Nodes : /\ Live(r) /\ HasLocked(t, r) /\ Before(jn[u].fail, r)
                               /\ \A m \in Nodes : Live(m) /\ Before(m, r) => m = jn[u].fail \/ Before(m, jn[u].fail)
        BY <3>1, <1>p
      <4>2. ~Before(jn[u].cur, r)
        BY <4>1, <3>1, <1>k DEF Before
      <4> QED BY <4>1, <4>2, <3>2, <1>q, <1>k
    <3> QED BY <3>1, <3>3, <3>4, <1>2, <1>s, <1>b, <1>k DEF JanitorKnows, StaysLive, Live
  <2> QED BY <2>1, <2>2
<1>3. CASE pc[u] \in Redirecting
  <2>1. /\ jn[u].cur \in Nodes /\ Live(jn[u].cur) /\ jn[u].cand \in Nodes /\ Live(jn[u].cand)
        /\ Before(jn[u].cand, item[u]) /\ Before(jn[u].cur, item[u]) /\ Live(item[u])
    BY <1>3, <1>k DEF JanitorKnows, JanitorOrdered, Older, Ptrs, Before
  <2>2. HasLocked(u, item[u]) /\ \A n \in Nodes : Before(n, item[u]) => HasLocked(u, n)
    BY <1>3 DEF HasLocked
  <2>3. /\ StaysLive(jn[u].cur) /\ StaysLive(jn[u].cand) /\ prev'[item[u]] = prev[item[u]]
        /\ prev'[jn[u].cur] = prev[jn[u].cur]
    BY <2>1, <2>2, <1>o, <1>k
  <2> QED BY <2>1, <2>3, <1>3, <1>s, <1>b, <1>k DEF JanitorKnows, StaysLive, Live
<1>4. CASE pc[u] \in Freeing \ {"jan_carry", "jan_uncarry"}
  <2>1. /\ jn[u].right \in Nodes /\ Live(jn[u].right) /\ HasLocked(u, jn[u].right)
        /\ Live(item[u]) /\ HasLocked(u, item[u])
    BY <1>4, <1>k DEF JanitorKnows, HasLocked, Ptrs
  <2>2. StaysLive(jn[u].right) /\ prev'[jn[u].right] = prev[jn[u].right]
    BY <2>1, <1>o
  <2>3. pc[u] = "jan_final" => StaysLive(jn[u].cur)
    <3>1. pc[u] = "jan_final" => jn[u].cur \in Nodes /\ Live(jn[u].cur) /\ HasLocked(u, jn[u].cur)
      BY <1>k DEF JanitorKnows, HasLocked, Ptrs, Before
    <3> QED BY <3>1, <1>o
  <2>4. pc[u] \in {"jan_del", "jan_free"} => StaysLive(jn[u].del)
    <3>1. pc[u] \in {"jan_del", "jan_free"} => jn[u].del \in Nodes /\ Live(jn[u].del) /\ HasLocked(u, jn[u].del)
      BY <1>k DEF JanitorKnows, HasLocked, Ptrs, Before
    <3> QED BY <3>1, <1>o
  <2>5. pc[u] \in {"jan_clearprev", "jan_unlink"} /\ jn[u].del # Null => StaysLive(jn[u].del)
    <3>1. pc[u] \in {"jan_clearprev", "jan_unlink"} /\ jn[u].del # Null =>
            jn[u].del \in Nodes /\ Live(jn[u].del) /\ HasLocked(u, jn[u].del)
      BY <1>k DEF JanitorKnows, JanitorOrdered, HasLocked, Ptrs, Before, Adjacent
    <3> QED BY <3>1, <1>o
  <2>6. jn[u].cur \in Nodes /\ (mem[jn[u].cur] = "freed" => mem'[jn[u].cur] = "freed")
    BY <1>4, <1>k, <1>f DEF JanitorKnows, Ptrs
  <2>7. /\ pc[u] \in {"jan_del", "jan_free"} /\ jn[u].del # jn[u].cur => Adjacent(jn[u].right, jn[u].del)'
        /\ pc[u] \in {"jan_clearprev", "jan_unlink"} => Adjacent(jn[u].right, jn[u].del)'
    BY <2>4, <2>5, <1>a, <1>k, <1>s DEF JanitorKnows
  <2> QED BY <2>2, <2>3, <2>4, <2>5, <2>6, <2>7, <1>4, <1>s, <1>b, <1>k DEF JanitorKnows, StaysLive, Live
<1>5. CASE pc[u] = "jan_carry"
  <2>1. /\ jn[u].right \in Nodes /\ Live(jn[u].right) /\ HasLocked(u, jn[u].right)
        /\ jn[u].carry # Null => jn[u].carry \in Nodes /\ Live(jn[u].carry) /\ HasLocked(u, jn[u].carry)
    BY <1>5, <1>k DEF JanitorKnows, HasLocked, Ptrs, Before
  <2> QED BY <2>1, <1>o, <1>5, <1>s, <1>b, <1>k DEF JanitorKnows, StaysLive, Live
<1>6. CASE pc[u] = "jan_uncarry"
  <2>1. jn[u].carry # Null => jn[u].carry \in Nodes /\ Live(jn[u].carry) /\ HasLocked(u, jn[u].carry)
    BY <1>6, <1>k DEF JanitorKnows, HasLocked, Ptrs
  <2> QED BY <2>1, <1>o, <1>6, <1>s, <1>b, <1>k DEF JanitorKnows, StaysLive, Live
<1>7. CASE pc[u] \notin {"jan_sweep", "jan_clean"} \cup Redirecting \cup Freeing
  BY <1>7, <1>s DEF JanitorKnows
<1> QED BY <1>1, <1>2, <1>3, <1>4, <1>5, <1>6, <1>7

(* A janitor goes on knowing what it has to.                                *)
LEMMA OwnKnows ==
  ASSUME ListInv, NEW t \in Threads, JanitorStep(t)
  PROVE  JanitorKnows(t)'
<1>k. /\ TypeOK /\ jn[t] \in JanitorFrames /\ item[t] \in Nodes /\ next \in [Nodes -> NextWords]
      /\ prev \in [Nodes -> Ptrs] /\ stamp \in [Nodes -> Nat]
      /\ \A n \in Nodes : n # Null
      /\ \A m, n \in Nodes : Live(m) /\ Live(n) => Before(m, n) \/ Before(n, m) \/ m = n
      /\ jn[t].cur \in Ptrs /\ jn[t].cand \in Ptrs /\ jn[t].prv \in Ptrs /\ jn[t].fail \in Ptrs
      /\ jn[t].rdel \in Ptrs /\ jn[t].right \in Ptrs /\ jn[t].carry \in Ptrs /\ jn[t].del \in Ptrs
      /\ JanitorKnows(t) /\ LocksHeld /\ Listed /\ Shape(t) /\ (pc[t] \in Janitoring => Live(item[t]))
      /\ pc[t] \in Janitoring => jn[t].ret \in {"dw_weak", "upd_done", "get_done"}
      /\ JanitorOrdered(pc[t], item[t], jn[t])
  BY JanitorFacts
<1>p. \A n \in Nodes : Live(n) /\ HasLocked(t, n) /\ ~(Gap(t) /\ jn[t].right = n) => Adjacent(n, prev[n])
  BY PrevAdjacent
<1>q. \A n \in Nodes : Live(n) /\ ~next[n].locked => Adjacent(n, prev[n])
  BY UnlockedAdjacent
<1>g. mem \in [Nodes -> {"unused", "private", "live", "freed"}]
  BY <1>k DEF TypeOK
<1> USE DEF Janitoring, Redirecting, Freeing, Live, Before
<1>e. pc'[t] \notin {"jan_sweep", "jan_clean"} \cup Redirecting \cup Freeing => JanitorKnows(t)'
  BY DEF JanitorKnows
<1>1. CASE JanitorLockStart(t)
  <2>1. CASE next[item[t]].locked
    <3>1. pc'[t] \in {"dw_weak", "upd_done", "get_done"}
      BY <1>1, <2>1, <1>k, JanitorLockStartMoves
    <3> QED BY <3>1, <1>e
  <2>2. CASE ~next[item[t]].locked
    <3>1. /\ pc[t] = "jan_lock" /\ UNCHANGED <<mem, prev, stamp, item>>
          /\ pc'[t] = IF prev[item[t]] = Null THEN "jan_unlock" ELSE "jan_sweep"
          /\ jn'[t].cur = prev[item[t]] /\ jn'[t].cand = prev[item[t]] /\ jn'[t].fail = Null
          /\ jn'[t].rdel = Null /\ jn'[t].carry = Null /\ ~jn'[t].seen
      BY <1>1, <2>2, <1>k, JanitorLockStartMoves
    <3>2. Adjacent(item[t], prev[item[t]])
      BY <2>2, <3>1, <1>k, <1>q
    <3>3. CASE prev[item[t]] = Null
      BY <3>1, <3>3, <1>e
    <3>4. CASE prev[item[t]] # Null
      <4>1. pc'[t] = "jan_sweep" /\ mem[prev[item[t]]] = "live" /\ prev[item[t]] \in Nodes
            /\ stamp[prev[item[t]]] < stamp[item[t]]
        BY <3>1, <3>2, <3>4, <1>k DEF Adjacent, Ptrs
      <4> QED BY <3>1, <4>1, <1>k DEF JanitorKnows
    <3> QED BY <3>3, <3>4
  <2> QED BY <2>1, <2>2
<1>2. CASE JanitorSweep(t)
  <2>0. /\ pc[t] = "jan_sweep" /\ jn[t].cur \in Nodes /\ Live(jn[t].cur) /\ jn[t].cand \in Nodes /\ Live(jn[t].cand)
        /\ Before(jn[t].cand, item[t]) /\ ~Before(jn[t].cand, jn[t].cur) /\ prev[item[t]] = jn[t].cand
        /\ jn[t].carry = Null /\ jn[t].fail = Null /\ jn[t].rdel = Null /\ ~jn[t].seen
    BY <1>2, <1>k DEF JanitorSweep, Janitor, JanitorKnows, JanitorOrdered, Older, Ptrs
  <2>1. CASE next[jn[t].cur].locked
    <3>1. /\ pc'[t] = "jan_clean" /\ UNCHANGED <<mem, prev, stamp, item>>
          /\ jn'[t].cur = jn[t].cand /\ jn'[t].fail = jn[t].cur
      BY <1>2, <2>0, <2>1, <1>k, JanitorSweepMoves
    <3> QED BY <2>0, <3>1, <1>k DEF JanitorKnows
  <2>2. CASE ~next[jn[t].cur].locked /\ prev[jn[t].cur] = Null
    <3>1. /\ pc'[t] = "jan_strong" /\ UNCHANGED <<mem, prev, stamp, item>>
          /\ jn'[t].cur = jn[t].cand /\ jn'[t].cand = jn[t].cand /\ jn'[t].fail = jn[t].fail
          /\ jn'[t].rdel = jn[t].rdel /\ jn'[t].carry = jn[t].carry
      BY <1>2, <2>0, <2>2, <1>k, JanitorSweepMoves
    <3> QED BY <2>0, <3>1, <1>k DEF JanitorKnows
  <2>3. CASE ~next[jn[t].cur].locked /\ prev[jn[t].cur] # Null
    <3>1. /\ pc'[t] = "jan_sweep" /\ UNCHANGED <<mem, prev, stamp, item>>
          /\ jn'[t].cur = prev[jn[t].cur] /\ jn'[t].cand = jn[t].cand /\ jn'[t].fail = jn[t].fail
          /\ jn'[t].rdel = jn[t].rdel /\ jn'[t].carry = jn[t].carry /\ jn'[t].seen = jn[t].seen
      BY <1>2, <2>0, <2>3, <1>k, JanitorSweepMoves
    <3>2. Adjacent(jn[t].cur, prev[jn[t].cur])
      BY <2>0, <2>3, <1>q
    <3>3. prev[jn[t].cur] \in Nodes /\ Live(prev[jn[t].cur]) /\ ~Before(jn[t].cand, prev[jn[t].cur])
      BY <3>2, <2>0, <2>3, <1>k DEF Adjacent, Ptrs
    <3> QED BY <2>0, <3>1, <3>3, <2>3, <1>k DEF JanitorKnows
  <2> QED BY <2>1, <2>2, <2>3
<1>3. CASE JanitorCleanup(t)
  <2>0. pc[t] = "jan_clean" /\ jn[t].cur \in Nodes /\ jn[t].fail \in Nodes
    BY <1>3, <1>k DEF JanitorCleanup, Janitor, JanitorKnows, Ptrs
  <2>1. CASE jn[t].cur # jn[t].fail
    <3>1. /\ pc'[t] = "jan_clean" /\ UNCHANGED <<mem, prev, stamp, item>>
          /\ jn'[t].cur = prev[jn[t].cur] /\ jn'[t].fail = jn[t].fail
      BY <1>3, <2>0, <2>1, <1>k, JanitorCleanupMoves
    <3>2. HasLocked(t, jn[t].cur) /\ Live(jn[t].cur) /\ Before(jn[t].cur, item[t])
          /\ Live(jn[t].fail) /\ Before(jn[t].fail, jn[t].cur)
      BY <2>0, <2>1, <1>k DEF HasLocked, JanitorKnows
    <3>3. Adjacent(jn[t].cur, prev[jn[t].cur])
      BY <2>0, <3>2, <1>p DEF Gap
    <3>4. /\ prev[jn[t].cur] # Null /\ prev[jn[t].cur] \in Nodes /\ Live(prev[jn[t].cur])
          /\ ~Before(prev[jn[t].cur], jn[t].fail) /\ Before(prev[jn[t].cur], item[t])
      BY <2>0, <3>2, <3>3, <1>k DEF Adjacent, Ptrs
    <3>5. prev[jn[t].cur] # jn[t].fail => Before(jn[t].fail, prev[jn[t].cur])
      BY <2>0, <3>2, <3>4, <1>k
    <3> QED BY <2>0, <3>1, <3>2, <3>4, <3>5, <1>k DEF JanitorKnows
  <2>2. CASE jn[t].cur = jn[t].fail
    <3>1. pc'[t] = "jan_unlock"
      BY <1>3, <2>0, <2>2, <1>k, JanitorCleanupMoves
    <3> QED BY <3>1, <1>e
  <2> QED BY <2>1, <2>2
<1>4. CASE JanitorUnlockStart(t)
  <2>1. pc'[t] \in {"dw_weak", "upd_done", "get_done"}
    BY <1>4, <1>k, JanitorUnlockStartMoves
  <2> QED BY <2>1, <1>e
<1>5. CASE JanitorStrong(t)
  <2>0. /\ pc[t] = "jan_strong" /\ jn[t].cur \in Nodes /\ Live(jn[t].cur) /\ jn[t].cand \in Nodes /\ Live(jn[t].cand)
        /\ Before(jn[t].cand, item[t]) /\ ~Before(jn[t].cand, jn[t].cur) /\ prev[item[t]] = jn[t].cand
        /\ jn[t].carry = Null /\ jn[t].fail = Null /\ UNCHANGED <<mem, prev, stamp, item>>
        /\ jn[t].rdel # Null => Before(jn[t].cur, jn[t].rdel) /\ ~Before(item[t], jn[t].rdel)
    BY <1>5, <1>k, JanitorStrongMoves DEF JanitorKnows, JanitorOrdered, Older, Ptrs
  <2>1. CASE prev[jn[t].cur] # Null
    <3>1. /\ pc'[t] = "jan_setnext" /\ jn'[t].prv = prev[jn[t].cur] /\ jn'[t].cur = jn[t].cur
          /\ jn'[t].cand = jn[t].cand /\ jn'[t].fail = jn[t].fail /\ jn'[t].rdel = jn[t].rdel /\ jn'[t].carry = jn[t].carry
      BY <1>5, <2>1, <1>k, JanitorStrongMoves
    <3> QED BY <2>0, <2>1, <3>1, <1>k DEF JanitorKnows
  <2>2. CASE prev[jn[t].cur] = Null
    <3>1. /\ pc'[t] = "jan_final" /\ jn'[t].cur = jn[t].cand /\ jn'[t].right = item[t]
          /\ jn'[t].fail = jn[t].fail /\ jn'[t].carry = jn[t].carry
      BY <1>5, <2>2, <1>k, JanitorStrongMoves
    <3> QED BY <2>0, <3>1, <1>k DEF JanitorKnows
  <2> QED BY <2>1, <2>2
<1>6. CASE JanitorSetNext(t)
  <2>1. /\ pc[t] = "jan_setnext" /\ pc'[t] = "jan_adv" /\ UNCHANGED <<mem, prev, stamp, item>>
        /\ jn'[t].prv = jn[t].prv /\ jn'[t].cur = jn[t].cur
        /\ jn'[t].cand = jn[t].cand /\ jn'[t].fail = jn[t].fail /\ jn'[t].rdel = jn[t].rdel /\ jn'[t].carry = jn[t].carry
    BY <1>6, <1>k, JanitorSetNextMoves
  <2> QED BY <2>1, <1>k DEF JanitorKnows
<1>7. CASE JanitorCheckAdvance(t)
  <2>1. /\ pc[t] = "jan_adv" /\ pc'[t] = "jan_strong" /\ UNCHANGED <<mem, prev, stamp, item>>
        /\ jn'[t].cur = jn[t].prv /\ jn'[t].rdel \in {jn[t].cur, jn[t].rdel}
        /\ jn'[t].cand = jn[t].cand /\ jn'[t].fail = jn[t].fail /\ jn'[t].carry = jn[t].carry
    BY <1>7, <1>k, JanitorCheckAdvanceMoves
  <2>2. /\ jn[t].cur \in Nodes /\ Live(jn[t].cur) /\ jn[t].cand \in Nodes /\ Live(jn[t].cand)
        /\ Before(jn[t].cand, item[t]) /\ ~Before(jn[t].cand, jn[t].cur) /\ prev[item[t]] = jn[t].cand
        /\ jn[t].carry = Null /\ jn[t].fail = Null /\ jn[t].prv = prev[jn[t].cur] /\ jn[t].prv # Null
        /\ jn[t].rdel # Null => Before(jn[t].cur, jn[t].rdel) /\ ~Before(item[t], jn[t].rdel)
    BY <2>1, <1>k DEF JanitorKnows, JanitorOrdered, Older, Ptrs
  <2>3. Adjacent(jn[t].cur, jn[t].prv) /\ Before(jn[t].cur, item[t])
    <3>1. Before(jn[t].cur, item[t])
      BY <2>2, <1>k
    <3>2. HasLocked(t, jn[t].cur)
      BY <2>1, <3>1 DEF HasLocked
    <3> QED BY <2>1, <2>2, <3>1, <3>2, <1>p DEF Gap
  <2>4. jn[t].prv \in Nodes /\ Live(jn[t].prv) /\ Before(jn[t].prv, jn[t].cur)
    BY <2>2, <2>3, <1>k DEF Adjacent, Ptrs
  <2>5. CASE jn'[t].rdel = jn[t].cur
    BY <2>1, <2>2, <2>3, <2>4, <2>5, <1>k DEF JanitorKnows
  <2>6. CASE jn'[t].rdel = jn[t].rdel
    <3>1. jn[t].rdel # Null => jn[t].rdel \in Nodes /\ Before(jn[t].prv, jn[t].rdel)
      BY <2>2, <2>4, <1>k DEF Ptrs
    <3> QED BY <2>1, <2>2, <2>3, <2>4, <2>6, <3>1, <1>k DEF JanitorKnows
  <2> QED BY <2>1, <2>5, <2>6
<1>f. CASE pc[t] \in Freeing \ {"jan_carry", "jan_uncarry"}
  <2> DEFINE right == jn[t].right
             i == item[t]
  <2>1. /\ jn[t].right \in Nodes /\ Live(jn[t].right) /\ ~Before(item[t], jn[t].right) /\ jn[t].fail = Null
        /\ jn[t].carry = IF jn[t].right = item[t] THEN Null ELSE jn[t].right
        /\ jn[t].cur \in Nodes /\ prev[jn[t].right] = jn[t].cur /\ HasLocked(t, jn[t].right)
        /\ Live(item[t])
    BY <1>f, <1>k DEF JanitorKnows, HasLocked, Ptrs
  <2>2. jn[t].right # item[t] => Before(jn[t].right, item[t])
    BY <2>1, <1>k
  <2>3. ~Gap(t) => Adjacent(jn[t].right, jn[t].cur)
    BY <2>1, <1>p
  <2>8. CASE JanitorFinal(t)
    <3>1. /\ pc[t] = "jan_final" /\ UNCHANGED <<mem, prev, stamp, item>> /\ Live(jn[t].cur)
          /\ jn'[t].carry = jn[t].carry /\ jn'[t].cur = jn[t].cur /\ jn'[t].fail = jn[t].fail
      BY <2>8, <1>k, JanitorFinalMoves DEF JanitorKnows
    <3>2. Before(jn[t].cur, jn[t].right)
      BY <3>1, <1>k DEF JanitorOrdered, Older
    <3>3. CASE jn[t].rdel = Null
      <4>1. pc'[t] = "jan_del" /\ jn'[t].del = jn[t].cur /\ jn'[t].right = jn[t].right /\ jn'[t].rdel = Null
        BY <2>8, <3>3, <1>k, JanitorFinalMoves
      <4> QED BY <2>1, <3>1, <3>2, <4>1, <1>k DEF JanitorKnows
    <3>4. CASE jn[t].rdel # Null
      <4>1. pc'[t] = "jan_carry" /\ jn'[t].right = jn[t].cur
        BY <2>8, <3>4, <1>k, JanitorFinalMoves
      <4>2. Before(jn[t].cur, item[t])
        BY <2>1, <3>2, <1>k
      <4> QED BY <2>1, <2>2, <3>1, <3>2, <4>1, <4>2, <1>k DEF JanitorKnows
    <3> QED BY <3>3, <3>4
  <2>9. CASE JanitorDelete(t)
    <3>1. /\ pc[t] = "jan_del" /\ UNCHANGED <<mem, prev, stamp, item>>
          /\ jn'[t].carry = jn[t].carry /\ jn'[t].cur = jn[t].cur /\ jn'[t].fail = jn[t].fail
          /\ jn'[t].del = jn[t].del /\ jn'[t].rdel = jn[t].rdel
      BY <2>9, <1>k, JanitorDeleteMoves
    <3>2. /\ jn[t].rdel = Null /\ jn[t].del \in Nodes /\ Live(jn[t].del) /\ Before(jn[t].del, jn[t].right)
          /\ IF jn[t].del = jn[t].cur THEN TRUE
             ELSE mem[jn[t].cur] = "freed" /\ Adjacent(jn[t].right, jn[t].del) /\ Before(jn[t].del, jn[t].cur)
      BY <3>1, <1>k DEF JanitorKnows, Ptrs
    <3>3. CASE pc'[t] \in {"jan_free", "jan_unlink"} /\ jn'[t].right = jn[t].right /\ (pc'[t] = "jan_unlink" => jn[t].del # jn[t].cur)
      <4>1. Adjacent(jn[t].right, jn[t].del) => Adjacent(jn[t].right, jn[t].del)'
        BY <3>1, <3>3 DEF Adjacent
      <4> QED BY <2>1, <3>1, <3>2, <3>3, <4>1, <1>k DEF JanitorKnows
    <3>4. CASE pc'[t] = "jan_carry" /\ jn'[t].right = jn[t].del
      <4>1. Before(jn[t].del, item[t])
        BY <2>1, <3>2, <1>k
      <4> QED BY <2>1, <2>2, <3>1, <3>2, <3>4, <4>1, <1>k DEF JanitorKnows
    <3> QED BY <2>9, <3>3, <3>4, <1>k, JanitorDeleteMoves
  <2>10. CASE JanitorFree(t)
    <3>1. /\ pc[t] = "jan_free" /\ UNCHANGED <<prev, stamp, item>> /\ mem' = [mem EXCEPT ![jn[t].del] = "freed"]
          /\ jn'[t].carry = jn[t].carry /\ jn'[t].cur = jn[t].cur /\ jn'[t].fail = jn[t].fail
          /\ jn'[t].del = prev[jn[t].del] /\ jn'[t].rdel = jn[t].rdel /\ jn'[t].right = jn[t].right
          /\ pc'[t] = IF prev[jn[t].del] = Null THEN "jan_clearprev" ELSE "jan_del"
      BY <2>10, <1>k, JanitorFreeMoves
    <3>2. /\ jn[t].rdel = Null /\ jn[t].del \in Nodes /\ Live(jn[t].del) /\ Before(jn[t].del, jn[t].right)
          /\ IF jn[t].del = jn[t].cur THEN TRUE
             ELSE mem[jn[t].cur] = "freed" /\ Adjacent(jn[t].right, jn[t].del) /\ Before(jn[t].del, jn[t].cur)
      BY <3>1, <1>k DEF JanitorKnows, Ptrs
    <3>3. Adjacent(jn[t].right, jn[t].del) /\ ~Before(jn[t].cur, jn[t].del)
      <4>1. CASE jn[t].del = jn[t].cur
        BY <4>1, <3>1, <2>3, <3>2, <1>k DEF Gap
      <4>2. CASE jn[t].del # jn[t].cur
        BY <4>2, <3>2, <2>1, <1>k
      <4> QED BY <4>1, <4>2
    <3>4. Adjacent(jn[t].del, prev[jn[t].del])
      <4>1. HasLocked(t, jn[t].del)
        BY <3>1, <3>3 DEF HasLocked
      <4>2. jn[t].right # jn[t].del
        BY <3>2, <1>k
      <4> QED BY <4>1, <4>2, <3>2, <1>p
    <3>5. PICK p \in Ptrs : p = prev[jn[t].del]
      BY <3>2, <1>k
    <3>6. p # Null => p \in Nodes /\ mem[p] = "live" /\ stamp[p] < stamp[jn[t].del] /\ p # jn[t].del
                      /\ stamp[p] < stamp[jn[t].cur] /\ stamp[p] < stamp[jn[t].right]
      BY <3>2, <3>3, <3>4, <3>5, <2>1, <1>k DEF Adjacent, Ptrs
    <3>7. /\ mem'[jn[t].cur] = "freed" /\ mem'[jn[t].right] = "live" /\ (p # Null => mem'[p] = "live")
      <4>1. jn[t].right # jn[t].del
        BY <3>2, <1>k
      <4>2. CASE jn[t].cur = jn[t].del
        BY <4>1, <4>2, <3>1, <3>2, <3>6, <2>1, <1>g
      <4>3. CASE jn[t].cur # jn[t].del
        BY <4>1, <4>3, <3>1, <3>2, <3>6, <2>1, <1>g
      <4> QED BY <4>2, <4>3
    <3>8. \A m \in Nodes : mem'[m] = "live" => mem[m] = "live" /\ m # jn[t].del
      BY <3>1, <3>2, <1>g
    <3>9. \A m \in Nodes : mem'[m] = "live" /\ stamp[m] < stamp[jn[t].right] => p # Null /\ ~(stamp[p] < stamp[m])
      BY <3>2, <3>3, <3>4, <3>5, <3>8, <1>k DEF Adjacent
    <3>a. /\ jn'[t].right = jn[t].right /\ jn'[t].del = p /\ jn'[t].cur = jn[t].cur /\ stamp' = stamp
      BY <3>1, <3>5
    <3>b. Adjacent(jn[t].right, jn[t].del)'
      BY <3>a, <3>6, <3>7, <3>9 DEF Adjacent
    <3>c. CASE p = Null
      BY <3>1, <3>2, <3>5, <3>c, <3>7, <3>b, <2>1, <1>k DEF JanitorKnows
    <3>d. CASE p # Null
      <4>1. p # jn[t].cur
        BY <3>d, <3>6, <2>1, <1>k
      <4> QED BY <3>1, <3>2, <3>5, <3>6, <3>7, <3>b, <3>d, <4>1, <2>1, <1>k DEF JanitorKnows
    <3> QED BY <3>c, <3>d
  <2>11. CASE JanitorClearPrev(t)
    <3>1. /\ pc[t] = "jan_clearprev" /\ UNCHANGED <<mem, prev, stamp, item>> /\ pc'[t] = "jan_unlink"
          /\ jn'[t].carry = jn[t].carry /\ jn'[t].cur = jn[t].cur /\ jn'[t].fail = jn[t].fail
          /\ jn'[t].del = jn[t].del /\ jn'[t].rdel = jn[t].rdel /\ jn'[t].right = jn[t].right
      BY <2>11, <1>k, JanitorClearPrevMoves
    <3>2. jn[t].rdel = Null /\ mem[jn[t].cur] = "freed" /\ Adjacent(jn[t].right, jn[t].del)
      BY <3>1, <1>k DEF JanitorKnows
    <3>3. Adjacent(jn[t].right, jn[t].del)'
      BY <3>1, <3>2 DEF Adjacent
    <3> QED BY <2>1, <3>1, <3>2, <3>3, <1>k DEF JanitorKnows
  <2>12. CASE JanitorUnlink(t)
    <3>1. /\ pc[t] = "jan_unlink" /\ UNCHANGED <<mem, stamp, item>>
          /\ jn'[t].carry = jn[t].carry /\ jn'[t].fail = jn[t].fail
      BY <2>12, <1>k, JanitorUnlinkMoves
    <3>2. Adjacent(jn[t].right, jn[t].del)
      BY <3>1, <1>k DEF JanitorKnows
    <3>3. CASE jn[t].del = Null
      <4>1. pc'[t] = "jan_uncarry"
        BY <2>12, <3>3, <1>k, JanitorUnlinkMoves
      <4> QED BY <2>1, <2>2, <3>1, <4>1, <1>k DEF JanitorKnows
    <3>4. CASE jn[t].del # Null
      <4>1. pc'[t] = "jan_carry" /\ jn'[t].right = jn[t].del
        BY <2>12, <3>4, <1>k, JanitorUnlinkMoves
      <4>2. jn[t].del \in Nodes /\ Live(jn[t].del) /\ Before(jn[t].del, jn[t].right) /\ Before(jn[t].del, item[t])
        BY <2>1, <3>2, <3>4, <1>k DEF Adjacent, Ptrs
      <4> QED BY <2>1, <2>2, <3>1, <3>4, <4>1, <4>2, <1>k DEF JanitorKnows
    <3> QED BY <3>3, <3>4
  <2>13. ~JanitorLockStart(t) /\ ~JanitorSweep(t) /\ ~JanitorCleanup(t) /\ ~JanitorUnlockStart(t) /\ ~JanitorStrong(t)
         /\ ~JanitorSetNext(t) /\ ~JanitorCheckAdvance(t) /\ ~JanitorCarry(t) /\ ~JanitorUncarry(t)
    BY <1>f DEF JanitorLockStart, JanitorSweep, JanitorCleanup, JanitorUnlockStart, JanitorStrong, JanitorSetNext,
       JanitorCheckAdvance, JanitorCarry, JanitorUncarry, Janitor
  <2> QED BY <2>8, <2>9, <2>10, <2>11, <2>12, <2>13 DEF JanitorStep
<1>8. JanitorFinal(t) \/ JanitorDelete(t) \/ JanitorFree(t) \/ JanitorClearPrev(t) \/ JanitorUnlink(t)
        => pc[t] \in Freeing \ {"jan_carry", "jan_uncarry"}
  BY DEF JanitorFinal, JanitorDelete, JanitorFree, JanitorClearPrev, JanitorUnlink, Janitor
<1>13. CASE JanitorCarry(t)
  <2>0. /\ pc[t] = "jan_carry" /\ UNCHANGED <<mem, prev, stamp, item>> /\ jn'[t].carry = jn[t].right
        /\ jn'[t].cur = prev[jn[t].right] /\ jn'[t].right = jn[t].right /\ jn'[t].fail = jn[t].fail
        /\ jn[t].right \in Nodes /\ Live(jn[t].right) /\ Before(jn[t].right, item[t]) /\ jn[t].fail = Null
        /\ pc'[t] = IF prev[jn[t].right] = Null THEN "jan_uncarry" ELSE "jan_final"
    BY <1>13, <1>k, JanitorCarryMoves DEF JanitorKnows, Ptrs
  <2>1. Adjacent(jn[t].right, prev[jn[t].right])
    <3>1. HasLocked(t, jn[t].right)
      BY <2>0, <1>k DEF HasLocked
    <3> QED BY <2>0, <3>1, <1>p DEF Gap
  <2>2. prev[jn[t].right] # Null => mem[prev[jn[t].right]] = "live" /\ jn[t].right # item[t] /\ ~Before(item[t], jn[t].right)
    BY <2>0, <2>1, <1>k DEF Adjacent
  <2> QED BY <2>0, <2>2, <1>k DEF JanitorKnows
<1>14. CASE JanitorUncarry(t)
  <2>0. pc'[t] = "jan_unlock"
    BY <1>14, <1>k, JanitorUncarryMoves
  <2> QED BY <2>0, <1>e
<1> QED BY <1>1, <1>2, <1>3, <1>4, <1>5, <1>6, <1>7, <1>f, <1>8, <1>13, <1>14 DEF JanitorStep

-----------------------------------------------------------------------------
(* The list itself.                                                         *)

(* next of what a janitor has redirected leads to its start node, or on.    *)
RedirectsHold == \A t \in Threads : \A n \in Nodes : Live(n) /\ Redirected(t, n) => ~Before(next[n].ptr, item[t])

\* no gap but that of t begins or ends
GapKept(t) == Gap(t) => Gap(t)' /\ jn'[t].right = jn[t].right

(* A step that leaves the words of the list alone leaves it a list.         *)
LEMMA ListStays ==
  ASSUME Listed, NEW t \in Threads, \A u \in Threads \ {t} : Still(u), UNCHANGED <<mem, prev, stamp>>, KeepsPtrs, GapKept(t)
  PROVE  Listed'
<1>1. ASSUME NEW n \in Nodes, Live(n)', \A u \in Threads : ~(Gap(u)' /\ jn'[u].right = n)
      PROVE  Adjacent(n, prev[n])'
  <2>1. Live(n) /\ \A u \in Threads : ~(Gap(u) /\ jn[u].right = n)
    BY <1>1 DEF GapKept, Still, Gap, Live
  <2>2. Adjacent(n, prev[n])
    BY <2>1 DEF Listed
  <2> QED BY <2>2 DEF Adjacent, Live, Before
<1>2. ASSUME NEW n \in Nodes, Live(n)', HasNext(n)'
      PROVE  Live(next[n].ptr)'
  BY <1>2 DEF Listed, HasNext, Live, KeepsPtrs
<1>3. ASSUME NEW n \in Nodes, Live(n)'
      PROVE  Published(n)'
  BY <1>3 DEF Listed, Live, Published
<1> QED BY <1>1, <1>2, <1>3 DEF Listed

(* Freeing, unlinking and redirecting leave it a list.                      *)
LEMMA JanitorLists ==
  ASSUME ListInv, RedirectsHold, NEW t \in Threads, JanitorStep(t), \A u \in Threads \ {t} : Still(u)
  PROVE  Listed'
<1>k. /\ TypeOK /\ jn[t] \in JanitorFrames /\ item[t] \in Nodes /\ next \in [Nodes -> NextWords]
      /\ prev \in [Nodes -> Ptrs] /\ stamp \in [Nodes -> Nat]
      /\ \A n \in Nodes : n # Null
      /\ \A m, n \in Nodes : Live(m) /\ Live(n) => Before(m, n) \/ Before(n, m) \/ m = n
      /\ jn[t].cur \in Ptrs /\ jn[t].cand \in Ptrs /\ jn[t].prv \in Ptrs /\ jn[t].fail \in Ptrs
      /\ jn[t].rdel \in Ptrs /\ jn[t].right \in Ptrs /\ jn[t].carry \in Ptrs /\ jn[t].del \in Ptrs
      /\ JanitorKnows(t) /\ LocksHeld /\ Listed /\ Shape(t) /\ (pc[t] \in Janitoring => Live(item[t]))
      /\ pc[t] \in Janitoring => jn[t].ret \in {"dw_weak", "upd_done", "get_done"}
      /\ JanitorOrdered(pc[t], item[t], jn[t])
  BY JanitorFacts
<1>p. \A n \in Nodes : Live(n) /\ HasLocked(t, n) /\ ~(Gap(t) /\ jn[t].right = n) => Adjacent(n, prev[n])
  BY PrevAdjacent
<1>l. /\ \A n \in Nodes : Live(n) /\ HasNext(n) => next[n].ptr \in Nodes /\ Live(next[n].ptr) /\ Before(n, next[n].ptr)
      /\ \A m, n \in Nodes : Live(m) /\ Live(n) /\ Before(m, n) => HasNext(m)
  BY Line DEF ListInv
<1>g. mem \in [Nodes -> {"unused", "private", "live", "freed"}]
  BY <1>k DEF TypeOK
<1>n. ASSUME UNCHANGED <<mem, prev, stamp>>, KeepsNext, GapKept(t)
      PROVE  Listed'
  BY <1>n, <1>k, ListStays DEF KeepsNext
<1>u. ASSUME UNCHANGED <<mem, prev, stamp>>, NEW m, Unlocks(m) \/ Locks(m), GapKept(t)
      PROVE  Listed'
  BY <1>u, <1>k, ListStays DEF Unlocks, Locks
<1>1. CASE JanitorLockStart(t)
  BY <1>1, <1>k, <1>n, <1>u, JanitorLockStartMoves DEF GapKept, Gap
<1>2. CASE JanitorSweep(t)
  <2>0. pc[t] = "jan_sweep" /\ jn[t].cur \in Nodes
    BY <1>2, <1>k DEF JanitorSweep, Janitor, JanitorKnows, Ptrs
  <2> QED BY <2>0, <1>2, <1>k, <1>n, <1>u, JanitorSweepMoves DEF GapKept, Gap
<1>3. CASE JanitorCleanup(t)
  BY <1>3, <1>k, <1>n, <1>u, JanitorCleanupMoves DEF GapKept, Gap
<1>4. CASE JanitorUnlockStart(t)
  BY <1>4, <1>k, <1>n, <1>u, JanitorUnlockStartMoves DEF GapKept, Gap
<1>5. CASE JanitorStrong(t)
  BY <1>5, <1>k, <1>n, <1>u, JanitorStrongMoves DEF GapKept, Gap
<1>7. CASE JanitorCheckAdvance(t)
  BY <1>7, <1>k, <1>n, <1>u, JanitorCheckAdvanceMoves DEF GapKept, Gap
<1>8. CASE JanitorFinal(t)
  BY <1>8, <1>k, <1>n, <1>u, JanitorFinalMoves DEF GapKept, Gap
<1>9. CASE JanitorDelete(t)
  <2>1. UNCHANGED <<mem, prev, stamp>> /\ KeepsNext /\ pc[t] = "jan_del" /\ jn'[t].cur = jn[t].cur /\ jn'[t].del = jn[t].del
    BY <1>9, <1>k, JanitorDeleteMoves
  <2>2. jn[t].del # jn[t].cur => pc'[t] \in {"jan_free", "jan_unlink"} /\ jn'[t].right = jn[t].right
    BY <1>9, <1>k, JanitorDeleteMoves
  <2>3. GapKept(t)
    BY <2>1, <2>2 DEF GapKept, Gap
  <2> QED BY <2>1, <2>3, <1>n
<1>11. CASE JanitorClearPrev(t)
  BY <1>11, <1>k, <1>n, <1>u, JanitorClearPrevMoves DEF GapKept, Gap
<1>13. CASE JanitorCarry(t)
  BY <1>13, <1>k, <1>n, <1>u, JanitorCarryMoves DEF GapKept, Gap
<1>14. CASE JanitorUncarry(t)
  BY <1>14, <1>k, <1>n, <1>u, JanitorUncarryMoves DEF GapKept, Gap
<1>o. ASSUME NEW u \in Threads \ {t}
      PROVE  jn'[u] = jn[u] /\ (Gap(u)' <=> Gap(u))
  BY DEF Still, Gap
<1>6. CASE JanitorSetNext(t)
  <2>1. /\ pc[t] = "jan_setnext" /\ pc'[t] = "jan_adv" /\ UNCHANGED <<mem, prev, stamp, item>>
        /\ Redirects(jn[t].prv, item[t])
    BY <1>6, <1>k, JanitorSetNextMoves
  <2>2. \A n \in Nodes : next'[n].ptr = next[n].ptr \/ next'[n].ptr = item[t]
    BY <2>1 DEF Redirects
  <2>3. ASSUME NEW n \in Nodes, Live(n)', HasNext(n)'
        PROVE  Live(next[n].ptr)'
    BY <2>1, <2>2, <2>3, <1>k DEF Listed, HasNext, Live, Janitoring
  <2>4. ASSUME NEW n \in Nodes, Live(n)', \A u \in Threads : ~(Gap(u)' /\ jn'[u].right = n)
        PROVE  Adjacent(n, prev[n])'
    <3>1. Live(n) /\ \A u \in Threads : ~(Gap(u) /\ jn[u].right = n)
      BY <2>1, <2>4, <1>o DEF Gap, Live
    <3>2. Adjacent(n, prev[n])
      BY <3>1, <1>k DEF Listed
    <3> QED BY <3>2, <2>1 DEF Adjacent, Live, Before
  <2> QED BY <2>1, <2>3, <2>4, <1>k DEF Listed, Live, Published
<1>10. CASE JanitorFree(t)
  <2>1. /\ pc[t] = "jan_free" /\ UNCHANGED <<next, prev, stamp, item>> /\ mem' = [mem EXCEPT ![jn[t].del] = "freed"]
        /\ jn'[t].cur = jn[t].cur /\ jn'[t].del = prev[jn[t].del] /\ jn'[t].right = jn[t].right
        /\ pc'[t] = IF prev[jn[t].del] = Null THEN "jan_clearprev" ELSE "jan_del"
    BY <1>10, <1>k, JanitorFreeMoves
  <2>2. /\ jn[t].del \in Nodes /\ Live(jn[t].del) /\ Before(jn[t].del, jn[t].right) /\ jn[t].right \in Nodes
        /\ Live(jn[t].right) /\ ~Before(item[t], jn[t].right) /\ Live(item[t]) /\ jn[t].cur \in Nodes
        /\ IF jn[t].del = jn[t].cur THEN TRUE
           ELSE Adjacent(jn[t].right, jn[t].del) /\ Before(jn[t].del, jn[t].cur)
    BY <2>1, <1>k DEF JanitorKnows, Ptrs, Freeing, Redirecting, Janitoring
  <2>3. Adjacent(jn[t].right, jn[t].del) /\ ~Before(jn[t].cur, jn[t].del)
    <3>1. CASE jn[t].del = jn[t].cur
      <4>1. HasLocked(t, jn[t].right) /\ prev[jn[t].right] = jn[t].cur
        BY <2>1, <1>k DEF JanitorKnows, HasLocked, Freeing, Redirecting, Janitoring
      <4> QED BY <3>1, <4>1, <2>1, <2>2, <1>p, <1>k DEF Gap, Before
    <3>2. CASE jn[t].del # jn[t].cur
      BY <3>2, <2>2, <1>k DEF Before
    <3> QED BY <3>1, <3>2
  <2>4. jn[t].right # jn[t].del /\ HasLocked(t, jn[t].del)
    BY <2>1, <2>2, <2>3, <1>k DEF Before, HasLocked
  <2>5. Adjacent(jn[t].del, prev[jn[t].del])
    BY <2>2, <2>4, <1>p
  <2>6. prev[jn[t].del] # Null => prev[jn[t].del] \in Nodes /\ prev[jn[t].del] # jn[t].cur
    BY <2>2, <2>3, <2>5, <1>k DEF Adjacent, Ptrs, Before
  <2>7. Gap(t)'
    BY <2>1, <2>6 DEF Gap
  <2>8. \A m \in Nodes : mem'[m] = "live" <=> mem[m] = "live" /\ m # jn[t].del
    BY <2>1, <2>2, <1>g
  <2>9. ASSUME NEW n \in Nodes, Live(n)', \A u \in Threads : ~(Gap(u)' /\ jn'[u].right = n)
        PROVE  Adjacent(n, prev[n])'
    <3>1. n # jn[t].right /\ Live(n) /\ n # jn[t].del
      BY <2>1, <2>7, <2>8, <2>9 DEF Live
    <3>2. \A u \in Threads : ~(Gap(u) /\ jn[u].right = n)
      BY <3>1, <2>9, <1>o
    <3>3. Adjacent(n, prev[n])
      BY <3>1, <3>2, <1>k DEF Listed
    <3>4. prev[n] # jn[t].del
      <4> SUFFICES ASSUME prev[n] = jn[t].del PROVE FALSE
        OBVIOUS
      <4>1. Before(jn[t].del, n) /\ \A m \in Nodes : Live(m) /\ Before(m, n) => ~Before(jn[t].del, m)
        BY <3>3, <2>2, <1>k DEF Adjacent
      <4>2. Before(n, jn[t].right)
        BY <4>1, <3>1, <2>2, <1>k
      <4> QED BY <4>1, <4>2, <2>3, <3>1, <1>k DEF Adjacent
    <3>5. prev[n] # Null => prev[n] \in Nodes /\ mem'[prev[n]] = "live"
      BY <3>3, <3>4, <2>8, <1>k DEF Adjacent, Ptrs, Live
    <3> QED BY <3>3, <3>5, <2>1, <2>8 DEF Adjacent, Live, Before
  <2>10. ASSUME NEW n \in Nodes, Live(n)', HasNext(n)'
         PROVE  Live(next[n].ptr)'
    <3>1. Live(n) /\ n # jn[t].del /\ HasNext(n)
      BY <2>1, <2>8, <2>10 DEF Live, HasNext
    <3>2. next[n].ptr \in Nodes /\ Live(next[n].ptr) /\ Before(n, next[n].ptr)
      BY <3>1, <1>l
    <3>3. next[n].ptr # jn[t].del
      <4> SUFFICES ASSUME next[n].ptr = jn[t].del PROVE FALSE
        OBVIOUS
      <4>1. HasLocked(t, n) /\ Before(n, item[t]) /\ Before(jn[t].del, item[t])
        BY <3>2, <2>1, <2>2, <2>3, <1>k DEF HasLocked, Before
      <4>2. Redirected(t, n)
        BY <4>1, <2>1 DEF Redirected, Freeing
      <4> QED BY <4>1, <4>2, <3>1 DEF RedirectsHold
    <3> QED BY <3>2, <3>3, <2>1, <2>8 DEF Live
  <2>11. ASSUME NEW n \in Nodes, Live(n)'
         PROVE  Published(n)'
    BY <2>1, <2>8, <2>11, <1>k DEF Listed, Live, Published
  <2> QED BY <2>9, <2>10, <2>11 DEF Listed
<1>12. CASE JanitorUnlink(t)
  <2>1. /\ pc[t] = "jan_unlink" /\ UNCHANGED <<next, mem, stamp, item>>
        /\ prev' = [prev EXCEPT ![jn[t].right] = jn[t].del]
    BY <1>12, <1>k, JanitorUnlinkMoves
  <2>2. Adjacent(jn[t].right, jn[t].del) /\ jn[t].right \in Nodes
    BY <2>1, <1>k DEF JanitorKnows, Freeing, Redirecting, Ptrs
  <2>3. ASSUME NEW n \in Nodes, Live(n)', \A u \in Threads : ~(Gap(u)' /\ jn'[u].right = n)
        PROVE  Adjacent(n, prev[n])'
    <3>1. CASE n = jn[t].right
      <4>1. prev'[n] = jn[t].del
        BY <3>1, <2>1, <2>2, <1>k
      <4>2. PICK p \in Ptrs : p = jn[t].del
        BY <1>k
      <4>3. Adjacent(n, p)
        BY <3>1, <2>2, <4>2
      <4> QED BY <4>1, <4>2, <4>3, <2>1 DEF Adjacent, Live, Before
    <3>2. CASE n # jn[t].right
      <4>1. Live(n) /\ \A u \in Threads : ~(Gap(u) /\ jn[u].right = n)
        BY <3>2, <2>1, <2>3, <1>o DEF Live
      <4>2. Adjacent(n, prev[n]) /\ prev'[n] = prev[n]
        BY <4>1, <3>2, <2>1, <1>k DEF Listed
      <4> QED BY <4>2, <2>1 DEF Adjacent, Live, Before
    <3> QED BY <3>1, <3>2
  <2>4. ASSUME NEW n \in Nodes, Live(n)', HasNext(n)'
        PROVE  Live(next[n].ptr)'
    BY <2>1, <2>4, <1>k DEF Listed, HasNext, Live
  <2>5. ASSUME NEW n \in Nodes, Live(n)'
        PROVE  Published(n)'
    BY <2>1, <2>5, <1>k DEF Listed, Live, Published
  <2> QED BY <2>3, <2>4, <2>5 DEF Listed
<1> QED BY <1>1, <1>2, <1>3, <1>4, <1>5, <1>6, <1>7, <1>8, <1>9, <1>10, <1>11, <1>12, <1>13, <1>14 DEF JanitorStep

(* What a janitor has redirected it has locked.                             *)
LEMMA RedirectedLocked ==
  ASSUME NEW t \in Threads, NEW n, Redirected(t, n)
  PROVE  HasLocked(t, n) /\ Before(n, item[t])
  BY DEF Redirected, HasLocked, Redirecting

(* Redirecting leftwards, node after node, a janitor misses none.           *)
LEMMA JanitorRedirects ==
  ASSUME ListInv, RedirectsHold, NEW t \in Threads, JanitorStep(t), \A u \in Threads \ {t} : Still(u)
  PROVE  RedirectsHold'
<1>k. /\ TypeOK /\ jn[t] \in JanitorFrames /\ item[t] \in Nodes /\ next \in [Nodes -> NextWords]
      /\ prev \in [Nodes -> Ptrs] /\ stamp \in [Nodes -> Nat]
      /\ \A n \in Nodes : n # Null
      /\ \A m, n \in Nodes : Live(m) /\ Live(n) => Before(m, n) \/ Before(n, m) \/ m = n
      /\ jn[t].cur \in Ptrs /\ jn[t].cand \in Ptrs /\ jn[t].prv \in Ptrs /\ jn[t].fail \in Ptrs
      /\ jn[t].rdel \in Ptrs /\ jn[t].right \in Ptrs /\ jn[t].carry \in Ptrs /\ jn[t].del \in Ptrs
      /\ JanitorKnows(t) /\ LocksHeld /\ Listed /\ Shape(t) /\ (pc[t] \in Janitoring => Live(item[t]))
      /\ pc[t] \in Janitoring => jn[t].ret \in {"dw_weak", "upd_done", "get_done"}
      /\ JanitorOrdered(pc[t], item[t], jn[t])
  BY JanitorFacts
<1>p. \A n \in Nodes : Live(n) /\ HasLocked(t, n) /\ ~(Gap(t) /\ jn[t].right = n) => Adjacent(n, prev[n])
  BY PrevAdjacent
<1>l. /\ \A n \in Nodes : Live(n) /\ HasNext(n) => next[n].ptr \in Nodes /\ Live(next[n].ptr) /\ Before(n, next[n].ptr)
      /\ \A m, n \in Nodes : Live(m) /\ Live(n) /\ Before(m, n) => HasNext(m)
  BY Line DEF ListInv
<1>g. mem \in [Nodes -> {"unused", "private", "live", "freed"}]
  BY <1>k DEF TypeOK
<1>o. ASSUME NEW u \in Threads \ {t}, NEW n \in Nodes, stamp' = stamp
      PROVE  item'[u] = item[u] /\ (Redirected(u, n)' <=> Redirected(u, n))
  BY <1>o DEF Still, Redirected, HasLocked, Before
<1>n. ASSUME KeepsPtrs, UNCHANGED <<stamp, item>>,
             \A n \in Nodes : Live(n)' => Live(n),
             \A n \in Nodes : Live(n)' /\ Redirected(t, n)' => ~Before(next[n].ptr, item[t])
      PROVE  RedirectsHold'
  <2>1. ASSUME NEW u \in Threads \ {t}, NEW n \in Nodes, Live(n)', Redirected(u, n)'
        PROVE  ~Before(next[n].ptr, item[u])'
    BY <1>n, <1>o, <2>1 DEF RedirectsHold, KeepsPtrs, Before
  <2>2. ASSUME NEW n \in Nodes, Live(n)', Redirected(t, n)'
        PROVE  ~Before(next[n].ptr, item[t])'
    BY <1>n, <2>2 DEF KeepsPtrs, Before
  <2> QED BY <2>1, <2>2 DEF RedirectsHold
<1>t. \A n \in Nodes : next[n].locked \in BOOLEAN
  BY <1>k DEF NextWords
<1> DEFINE NoLock == \A n \in Nodes : next'[n].locked => next[n].locked
<1>h. ASSUME UNCHANGED <<stamp, item>>, pc[t] \in Freeing, pc'[t] \in Freeing \cup {"jan_unlock"}, KeepsPtrs, NoLock,
             \A n \in Nodes : Live(n)' => Live(n)
      PROVE  RedirectsHold'
  <2>0. TypeOK'
    BY NextKeeps DEF ListInv, Next, OrderInv, Step
  <2>1. LockEffect(t)
    BY <2>0, JanitorLocks
  <2>2. ASSUME NEW n \in Nodes, Live(n)', Redirected(t, n)'
        PROVE  Redirected(t, n)
    <3>1. HasLocked(t, n)' /\ Before(n, item[t])
      BY <1>h, <2>2 DEF Redirected, HasLocked, Before, Freeing, Redirecting
    <3>2. HasLocked(t, n)
      BY <1>h, <1>t, <2>1, <2>2, <3>1 DEF LockEffect, NoLock
    <3> QED BY <1>h, <3>1, <3>2 DEF Redirected
  <2> QED BY <1>h, <1>n, <2>2 DEF RedirectsHold
<1>f. ASSUME UNCHANGED <<stamp, item>>, KeepsPtrs, mem' = mem, pc'[t] \notin {"jan_strong", "jan_setnext", "jan_adv"} \cup Freeing
      PROVE  RedirectsHold'
  <2>1. \A n \in Nodes : ~Redirected(t, n)'
    BY <1>f DEF Redirected
  <2> QED BY <1>f, <2>1, <1>n DEF Live
<1>w. /\ \A m : Unlocks(m) => KeepsPtrs
      /\ \A m : Locks(m) => KeepsPtrs
      /\ KeepsNext => KeepsPtrs /\ NoLock
      /\ \A m : Unlocks(m) => NoLock
  <2>1. ASSUME NEW m, Unlocks(m), NEW n \in Nodes, next'[n].locked
        PROVE  next[n].locked
    <3>1. next'[n].locked = (next[n].locked /\ n # m)
      BY <2>1 DEF Unlocks
    <3> QED BY ONLY <2>1, <3>1
  <2>2. ASSUME KeepsLocks, NEW n \in Nodes, next'[n].locked
        PROVE  next[n].locked
    <3>1. next'[n].locked = next[n].locked
      BY <2>2 DEF KeepsLocks
    <3> QED BY ONLY <2>2, <3>1
  <2> QED BY <2>1, <2>2 DEF Unlocks, Locks, KeepsNext
<1> HIDE DEF NoLock
<1>1. CASE JanitorLockStart(t)
  <2>1. CASE next[item[t]].locked
    <3>1. pc'[t] \in {"dw_weak", "upd_done", "get_done"} /\ KeepsNext /\ UNCHANGED <<mem, stamp, item>>
      BY <1>1, <2>1, <1>k, JanitorLockStartMoves DEF Janitoring
    <3> QED BY <3>1, <1>f, <1>w DEF Freeing
  <2>2. CASE ~next[item[t]].locked
    <3>1. pc'[t] \in {"jan_unlock", "jan_sweep"} /\ Locks(item[t]) /\ UNCHANGED <<mem, stamp, item>>
      BY <1>1, <2>2, <1>k, JanitorLockStartMoves
    <3> QED BY <3>1, <1>f, <1>w DEF Freeing
  <2> QED BY <2>1, <2>2
<1>2. CASE JanitorSweep(t)
  <2>0. pc[t] = "jan_sweep" /\ jn[t].cur \in Nodes /\ UNCHANGED <<mem, stamp, item>> /\ KeepsPtrs
        /\ pc'[t] \in {"jan_clean", "jan_sweep", "jan_strong"}
    <3>1. pc[t] = "jan_sweep" /\ jn[t].cur \in Nodes
      BY <1>2, <1>k DEF JanitorSweep, Janitor, JanitorKnows, Ptrs
    <3> QED BY <3>1, <1>2, <1>k, <1>w, JanitorSweepMoves
  <2>1. CASE pc'[t] # "jan_strong"
    BY <2>0, <2>1, <1>f DEF Freeing
  <2>2. CASE pc'[t] = "jan_strong"
    <3>1. jn'[t].cur = jn[t].cand
      BY <1>2, <2>0, <2>2, <1>k, JanitorSweepMoves
    <3>2. /\ jn[t].cand \in Nodes /\ Live(jn[t].cand) /\ Before(jn[t].cand, item[t])
          /\ prev[item[t]] = jn[t].cand /\ Live(item[t])
      BY <2>0, <1>k DEF JanitorKnows, JanitorOrdered, Older, Ptrs, Janitoring
    <3>3. Adjacent(item[t], jn[t].cand)
      <4>1. HasLocked(t, item[t])
        BY <2>0 DEF HasLocked, Janitoring
      <4> QED BY <2>0, <3>2, <4>1, <1>p, <1>k DEF Gap
    <3>4. ASSUME NEW n \in Nodes, Live(n)', Redirected(t, n)'
          PROVE  ~Before(next[n].ptr, item[t])
      <4>1. Live(n) /\ ~Before(n, jn[t].cand) /\ Before(n, item[t])
        BY <2>0, <2>2, <3>1, <3>4 DEF Redirected, Live, Before, Freeing
      <4>2. n = jn[t].cand
        BY <4>1, <3>2, <3>3, <1>k DEF Adjacent
      <4>3. next[n].ptr \in Nodes /\ Live(next[n].ptr) /\ Before(n, next[n].ptr)
        BY <4>1, <3>2, <1>l, <1>k
      <4> QED BY <4>2, <4>3, <3>3, <1>k DEF Adjacent
    <3> QED BY <2>0, <3>4, <1>n DEF Live
  <2> QED BY <2>1, <2>2
<1>3. CASE JanitorCleanup(t)
  BY <1>3, <1>k, <1>f, <1>w, JanitorCleanupMoves DEF Freeing
<1>4. CASE JanitorUnlockStart(t)
  BY <1>4, <1>k, <1>f, <1>w, JanitorUnlockStartMoves DEF Freeing, Janitoring
<1>5. CASE JanitorStrong(t)
  <2>0. pc[t] = "jan_strong" /\ UNCHANGED <<mem, stamp, item>> /\ KeepsPtrs
    BY <1>5, <1>k, <1>w, JanitorStrongMoves
  <2>1. ASSUME NEW n \in Nodes, Live(n)', Redirected(t, n)'
        PROVE  Redirected(t, n)
    <3>1. CASE prev[jn[t].cur] # Null
      <4>1. pc'[t] = "jan_setnext" /\ jn'[t].cur = jn[t].cur
        BY <1>5, <3>1, <1>k, JanitorStrongMoves
      <4> QED BY <4>1, <2>0, <2>1 DEF Redirected, Before, Freeing
    <3>2. CASE prev[jn[t].cur] = Null
      <4>1. pc'[t] = "jan_final" /\ jn'[t].cur = jn[t].cand /\ jn'[t].carry = Null
        BY <1>5, <3>2, <2>0, <1>k, JanitorStrongMoves DEF JanitorKnows, Redirecting
      <4>2. /\ jn[t].cur \in Nodes /\ Live(jn[t].cur) /\ Before(jn[t].cur, item[t])
            /\ jn[t].cand \in Nodes /\ Before(jn[t].cand, item[t])
        BY <2>0, <1>k DEF JanitorKnows, JanitorOrdered, Older, Ptrs, Redirecting, Before
      <4>3. Adjacent(jn[t].cur, Null)
        <5>1. HasLocked(t, jn[t].cur)
          BY <2>0, <4>2 DEF HasLocked, Redirecting
        <5> QED BY <5>1, <2>0, <3>2, <4>2, <1>p DEF Gap
      <4>4. Live(n) /\ Before(n, item[t])
        BY <4>1, <2>0, <2>1 DEF Redirected, Before, Freeing, Live
      <4>5. ~Before(n, jn[t].cur)
        BY <4>3, <4>4 DEF Adjacent
      <4> QED BY <2>0, <4>4, <4>5 DEF Redirected
    <3> QED BY <3>1, <3>2
  <2> QED BY <2>0, <2>1, <1>n DEF RedirectsHold, Live
<1>6. CASE JanitorSetNext(t)
  <2>1. /\ pc[t] = "jan_setnext" /\ pc'[t] = "jan_adv" /\ UNCHANGED <<mem, prev, stamp, item>>
        /\ Redirects(jn[t].prv, item[t]) /\ jn'[t].prv = jn[t].prv
    BY <1>6, <1>k, JanitorSetNextMoves
  <2>2. /\ jn[t].cur \in Nodes /\ Live(jn[t].cur) /\ Before(jn[t].cur, item[t])
        /\ jn[t].prv \in Nodes /\ jn[t].prv = prev[jn[t].cur] /\ Before(jn[t].prv, item[t])
    BY <2>1, <1>k DEF JanitorKnows, JanitorOrdered, Older, Ptrs, Redirecting, Before
  <2>3. HasLocked(t, jn[t].cur) /\ HasLocked(t, jn[t].prv)
    BY <2>1, <2>2 DEF HasLocked, Redirecting
  <2>4. Adjacent(jn[t].cur, jn[t].prv)
    BY <2>1, <2>2, <2>3, <1>p DEF Gap
  <2>5. ASSUME NEW n \in Nodes, Live(n)', Redirected(t, n)'
        PROVE  ~Before(next[n].ptr, item[t])'
    <3>1. Live(n) /\ ~Before(n, jn[t].prv) /\ Before(n, item[t])
      BY <2>1, <2>5 DEF Redirected, Live, Before, Freeing
    <3>2. CASE n = jn[t].prv
      BY <3>2, <2>1, <2>2, <1>k DEF Redirects, Before
    <3>3. CASE n # jn[t].prv
      <4>1. ~Before(n, jn[t].cur)
        <5>1. Live(jn[t].prv)
          BY <2>2, <2>4, <1>k DEF Adjacent
        <5> QED BY <3>1, <3>3, <5>1, <2>2, <2>4, <1>k DEF Adjacent
      <4>2. Redirected(t, n)
        BY <2>1, <3>1, <4>1 DEF Redirected
      <4> QED BY <3>1, <3>3, <4>2, <2>1 DEF RedirectsHold, Redirects, Before
    <3> QED BY <3>2, <3>3
  <2>6. ASSUME NEW u \in Threads \ {t}, NEW n \in Nodes, Live(n)', Redirected(u, n)'
        PROVE  ~Before(next[n].ptr, item[u])'
    <3>1. Live(n) /\ Redirected(u, n) /\ item'[u] = item[u]
      BY <2>1, <2>6, <1>o DEF Live
    <3>2. n # jn[t].prv
      BY <3>1, <2>2, <2>3, RedirectedLocked, <1>k DEF LocksHeld
    <3> QED BY <3>1, <3>2, <2>1 DEF RedirectsHold, Redirects, Before
  <2> QED BY <2>5, <2>6 DEF RedirectsHold
<1>7. CASE JanitorCheckAdvance(t)
  <2>1. /\ pc[t] = "jan_adv" /\ pc'[t] = "jan_strong" /\ UNCHANGED <<mem, prev, stamp, item>> /\ KeepsPtrs
        /\ jn'[t].cur = jn[t].prv
    BY <1>7, <1>k, <1>w, JanitorCheckAdvanceMoves
  <2>2. ASSUME NEW n \in Nodes, Redirected(t, n)'
        PROVE  Redirected(t, n)
    BY <2>1, <2>2 DEF Redirected, Before, Freeing
  <2> QED BY <2>1, <2>2, <1>n DEF RedirectsHold, Live
<1>8. CASE JanitorFinal(t)
  BY <1>8, <1>k, <1>h, <1>w, JanitorFinalMoves DEF Freeing, Live
<1>9. CASE JanitorDelete(t)
  BY <1>9, <1>k, <1>h, <1>w, JanitorDeleteMoves DEF Freeing, Live
<1>10. CASE JanitorFree(t)
  <2>1. /\ pc[t] = "jan_free" /\ UNCHANGED <<prev, stamp, item>> /\ mem' = [mem EXCEPT ![jn[t].del] = "freed"]
        /\ pc'[t] = IF prev[jn[t].del] = Null THEN "jan_clearprev" ELSE "jan_del"
        /\ KeepsPtrs /\ NoLock
    BY <1>10, <1>k, <1>w, JanitorFreeMoves
  <2> QED BY <2>1, <1>g, <1>h DEF Freeing, Live
<1>11. CASE JanitorClearPrev(t)
  BY <1>11, <1>k, <1>h, <1>w, JanitorClearPrevMoves DEF Freeing, Live
<1>12. CASE JanitorUnlink(t)
  BY <1>12, <1>k, <1>h, <1>w, JanitorUnlinkMoves DEF Freeing, Live
<1>13. CASE JanitorCarry(t)
  BY <1>13, <1>k, <1>h, <1>w, JanitorCarryMoves DEF Freeing, Live
<1>14. CASE JanitorUncarry(t)
  BY <1>14, <1>k, <1>h, <1>w, JanitorUncarryMoves DEF Freeing, Live
<1> QED BY <1>1, <1>2, <1>3, <1>4, <1>5, <1>6, <1>7, <1>8, <1>9, <1>10, <1>11, <1>12, <1>13, <1>14 DEF JanitorStep

-----------------------------------------------------------------------------
(* The list under the steps of the calls that are not janitors.            *)

(* What a janitor changes in the list, it has locked; what it frees, its    *)
(* right neighbour no longer reaches.                                       *)
LEMMA JanitorOwn ==
  ASSUME ListInv, NEW t \in Threads, JanitorStep(t)
  PROVE  OwnEffect(t)
<1>k. /\ TypeOK /\ jn[t] \in JanitorFrames /\ item[t] \in Nodes /\ next \in [Nodes -> NextWords]
      /\ prev \in [Nodes -> Ptrs] /\ stamp \in [Nodes -> Nat]
      /\ \A n \in Nodes : n # Null
      /\ \A m, n \in Nodes : Live(m) /\ Live(n) => Before(m, n) \/ Before(n, m) \/ m = n
      /\ jn[t].cur \in Ptrs /\ jn[t].cand \in Ptrs /\ jn[t].prv \in Ptrs /\ jn[t].fail \in Ptrs
      /\ jn[t].rdel \in Ptrs /\ jn[t].right \in Ptrs /\ jn[t].carry \in Ptrs /\ jn[t].del \in Ptrs
      /\ JanitorKnows(t) /\ LocksHeld /\ Listed /\ Shape(t) /\ (pc[t] \in Janitoring => Live(item[t]))
      /\ pc[t] \in Janitoring => jn[t].ret \in {"dw_weak", "upd_done", "get_done"}
  BY JanitorFacts
<1>m. mem \in [Nodes -> {"unused", "private", "live", "freed"}]
  BY <1>k DEF TypeOK
<1>1. CASE JanitorLockStart(t)
  <2>1. UNCHANGED <<stamp, mem, prev>>
    BY <1>k, <1>1, JanitorLockStartMoves
  <2> QED BY <2>1 DEF OwnEffect, Live
<1>2. CASE JanitorSweep(t)
  <2>0. jn[t].cur \in Nodes
    BY <1>k, <1>2 DEF JanitorSweep, Janitor, JanitorKnows, Ptrs
  <2>1. UNCHANGED <<stamp, mem, prev>>
    BY <1>k, <1>2, <2>0, JanitorSweepMoves
  <2> QED BY <2>1 DEF OwnEffect, Live
<1>3. CASE JanitorCleanup(t)
  <2>1. UNCHANGED <<stamp, mem, prev>>
    BY <1>k, <1>3, JanitorCleanupMoves
  <2> QED BY <2>1 DEF OwnEffect, Live
<1>4. CASE JanitorUnlockStart(t)
  <2>1. UNCHANGED <<stamp, mem, prev>>
    BY <1>k, <1>4, JanitorUnlockStartMoves
  <2> QED BY <2>1 DEF OwnEffect, Live
<1>5. CASE JanitorStrong(t)
  <2>1. UNCHANGED <<stamp, mem, prev>>
    BY <1>k, <1>5, JanitorStrongMoves
  <2> QED BY <2>1 DEF OwnEffect, Live
<1>6. CASE JanitorSetNext(t)
  <2>1. UNCHANGED <<stamp, mem, prev>>
    BY <1>k, <1>6, JanitorSetNextMoves
  <2> QED BY <2>1 DEF OwnEffect, Live
<1>7. CASE JanitorCheckAdvance(t)
  <2>1. UNCHANGED <<stamp, mem, prev>>
    BY <1>k, <1>7, JanitorCheckAdvanceMoves
  <2> QED BY <2>1 DEF OwnEffect, Live
<1>8. CASE JanitorFinal(t)
  <2>1. UNCHANGED <<stamp, mem, prev>>
    BY <1>k, <1>8, JanitorFinalMoves
  <2> QED BY <2>1 DEF OwnEffect, Live
<1>9. CASE JanitorDelete(t)
  <2>1. UNCHANGED <<stamp, mem, prev>>
    BY <1>k, <1>9, JanitorDeleteMoves
  <2> QED BY <2>1 DEF OwnEffect, Live
<1>10. CASE JanitorFree(t)
  <2>1. /\ pc[t] = "jan_free" /\ UNCHANGED <<stamp, prev>> /\ mem' = [mem EXCEPT ![jn[t].del] = "freed"]
        /\ pc'[t] = IF prev[jn[t].del] = Null THEN "jan_clearprev" ELSE "jan_del"
        /\ jn'[t].cur = jn[t].cur /\ jn'[t].right = jn[t].right /\ jn'[t].del = prev[jn[t].del]
    BY <1>k, <1>10, JanitorFreeMoves
  <2>2. /\ jn[t].right \in Nodes /\ Live(jn[t].right) /\ HasLocked(t, jn[t].right) /\ prev[jn[t].right] = jn[t].cur
        /\ jn[t].del \in Nodes /\ Live(jn[t].del) /\ ~Before(jn[t].cur, jn[t].del)
        /\ jn[t].del # jn[t].cur => Adjacent(jn[t].right, jn[t].del) /\ Before(jn[t].del, jn[t].cur)
        /\ jn[t].cur # Null /\ jn[t].cur \in Nodes
    BY <1>k, <2>1 DEF JanitorKnows, Freeing, HasLocked, Janitoring, Ptrs, Before
  <2>3. HasLocked(t, jn[t].del)
    BY <2>1, <2>2 DEF HasLocked
  <2>4. ASSUME jn[t].del = jn[t].cur
        PROVE  Adjacent(jn[t].right, jn[t].del)
    <3>1. ~Gap(t)
      BY <2>1, <2>4 DEF Gap
    <3> QED BY <2>2, <2>4, <3>1, PrevAdjacent
  <2>5. prev[jn[t].del] # Null => Before(prev[jn[t].del], jn[t].del)
    <3>1. \A u \in Threads : ~(Gap(u) /\ jn[u].right = jn[t].del)
      <4>1. ASSUME NEW u \in Threads, Gap(u), jn[u].right = jn[t].del
            PROVE  FALSE
        <5>1. u = t
          BY <2>2, <2>3, <4>1, GapOwner DEF ListInv, LocksHeld
        <5> QED BY <2>1, <2>2, <1>k, <4>1, <5>1 DEF JanitorKnows, Before
      <4> QED BY <4>1
    <3>2. Adjacent(jn[t].del, prev[jn[t].del])
      BY <1>k, <2>2, <3>1 DEF Listed
    <3> QED BY <3>2 DEF Adjacent
  <2>6. Gap(t)'
    <3>1. CASE prev[jn[t].del] = Null
      BY <2>1, <3>1 DEF Gap
    <3>2. CASE prev[jn[t].del] # Null
      <4>1. prev[jn[t].del] # jn[t].cur
        BY <1>k, <2>2, <2>5, <3>2 DEF Before
      <4> QED BY <2>1, <3>2, <4>1 DEF Gap
    <3> QED BY <3>1, <3>2
  <2>7. Adjacent(jn[t].right, jn[t].del)
    BY <2>2, <2>4
  <2> QED BY <1>m, <2>1, <2>2, <2>3, <2>6, <2>7 DEF OwnEffect, Live
<1>11. CASE JanitorClearPrev(t)
  <2>1. UNCHANGED <<stamp, mem, prev>>
    BY <1>k, <1>11, JanitorClearPrevMoves
  <2> QED BY <2>1 DEF OwnEffect, Live
<1>12. CASE JanitorUnlink(t)
  <2>1. pc[t] = "jan_unlink" /\ UNCHANGED <<stamp, mem>> /\ prev' = [prev EXCEPT ![jn[t].right] = jn[t].del]
    BY <1>k, <1>12, JanitorUnlinkMoves
  <2>2. jn[t].right \in Nodes /\ Live(jn[t].right) /\ HasLocked(t, jn[t].right)
    <3>1. Gap(t)
      BY <2>1 DEF Gap
    <3> QED BY <3>1, GapOwner
  <2> QED BY <1>k, <2>1, <2>2 DEF OwnEffect, Live
<1>13. CASE JanitorCarry(t)
  <2>1. UNCHANGED <<stamp, mem, prev>>
    BY <1>k, <1>13, JanitorCarryMoves
  <2> QED BY <2>1 DEF OwnEffect, Live
<1>14. CASE JanitorUncarry(t)
  <2>1. UNCHANGED <<stamp, mem, prev>>
    BY <1>k, <1>14, JanitorUncarryMoves
  <2> QED BY <2>1 DEF OwnEffect, Live
<1> QED BY <1>1, <1>2, <1>3, <1>4, <1>5, <1>6, <1>7, <1>8, <1>9, <1>10, <1>11, <1>12, <1>13,
  <1>14 DEF JanitorStep

(* A step of a janitor keeps the list in order, for every janitor.          *)
LEMMA JanitorKeepsList ==
  ASSUME ListInv, RedirectsHold, TypeOK', NEW t \in Threads, JanitorStep(t)
  PROVE  Listed' /\ LocksHeld' /\ RedirectsHold' /\ \A u \in Threads : JanitorKnows(u)'
<1>1. TypeOK
  BY DEF ListInv, OrderInv
<1>2. \A u \in Threads \ {t} : Still(u)
  BY <1>1, JanitorStill
<1>3. OwnEffect(t)
  BY JanitorOwn
<1>4. LockEffect(t)
  BY JanitorLocks
<1>5. LocksHeld'
  BY <1>1, <1>2, <1>3, <1>4, LocksStayHeld DEF ListInv, OwnEffect
<1>6. \A u \in Threads \ {t} : JanitorKnows(u)'
  BY <1>2, <1>3, OthersKnow
<1>7. JanitorKnows(t)'
  BY OwnKnows
<1>8. Listed'
  BY <1>2, JanitorLists
<1>9. RedirectsHold'
  BY <1>2, JanitorRedirects
<1> QED BY <1>5, <1>6, <1>7, <1>8, <1>9

-----------------------------------------------------------------------------
(* Calls that are not janitors.                                             *)

\* the step leaves the nodes of the list, their links and their locks alone
Quiet(t) ==
  /\ UNCHANGED stamp
  /\ \A n \in Nodes : (mem'[n] = "live") = (mem[n] = "live")
  /\ \A n \in Nodes : mem[n] = "freed" => mem'[n] = "freed"
  /\ \A n \in Nodes : Live(n) => prev'[n] = prev[n]
  /\ KeepsNext
  /\ pc[t] \notin Janitoring \ {"jan_lock"} /\ pc'[t] \notin Janitoring \ {"jan_lock"}

(* A step that leaves the links, the locks and the nodes in place leaves   *)
(* the list as it is.                                                      *)
LEMMA QuietKeepsList ==
  ASSUME ListInv, RedirectsHold, TypeOK', NEW t \in Threads, \A u \in Threads \ {t} : Still(u), Quiet(t)
  PROVE  Listed' /\ LocksHeld' /\ RedirectsHold' /\ \A u \in Threads : JanitorKnows(u)'
<1>q. /\ UNCHANGED stamp
      /\ \A n \in Nodes : Live(n)' <=> Live(n)
      /\ \A n \in Nodes : mem[n] = "freed" => mem'[n] = "freed"
      /\ \A n \in Nodes : Live(n) => prev'[n] = prev[n]
      /\ \A n \in Nodes : next'[n].ptr = next[n].ptr /\ next'[n].locked = next[n].locked
      /\ pc[t] \notin Janitoring \ {"jan_lock"} /\ pc'[t] \notin Janitoring \ {"jan_lock"}
  BY DEF Quiet, Live, KeepsNext, KeepsLocks, KeepsPtrs
<1>0. TypeOK /\ jn \in [Threads -> JanitorFrames] /\ item \in [Threads -> Nodes]
  BY DEF ListInv, OrderInv, TypeOK
<1>1. OwnEffect(t)
  BY <1>q DEF OwnEffect
<1>2. ASSUME NEW u \in Threads, NEW n \in Nodes
      PROVE  /\ HasLocked(u, n)' <=> HasLocked(u, n)
             /\ Gap(u)' <=> Gap(u)
             /\ Redirected(u, n)' <=> Redirected(u, n)
             /\ Gap(u) => jn'[u].right = jn[u].right
             /\ Redirected(u, n) => item'[u] = item[u]
  <2>1. CASE u = t
    BY <1>q, <2>1 DEF HasLocked, Gap, Redirected, Redirecting, Freeing, Janitoring
  <2>2. CASE u # t
    <3>1. Still(u)
      BY <2>2
    <3>2. HasLocked(u, n)' <=> HasLocked(u, n)
      BY <1>q, <3>1 DEF Still, HasLocked, Before
    <3> QED BY <1>q, <3>1, <3>2 DEF Still, Gap, Redirected, Before
  <2> QED BY <2>1, <2>2
<1>3. \A m, p : Before(m, p)' <=> Before(m, p)
  BY <1>q DEF Before
<1>4. Listed'
  <2>1. ASSUME NEW n \in Nodes, Live(n)', \A u \in Threads : ~(Gap(u)' /\ jn'[u].right = n)
        PROVE  Adjacent(n, prev[n])'
    <3>1. Live(n) /\ \A u \in Threads : ~(Gap(u) /\ jn[u].right = n)
      BY <1>q, <1>2, <2>1
    <3>2. Adjacent(n, prev[n]) /\ prev[n] \in Ptrs
      BY <3>1 DEF ListInv, Listed, OrderInv, TypeOK
    <3>3. prev'[n] = prev[n]
      BY <1>q, <3>1
    <3> QED BY <1>q, <1>3, <3>2, <3>3 DEF Adjacent, Ptrs
  <2>2. ASSUME NEW n \in Nodes, Live(n)', HasNext(n)'
        PROVE  Live(next[n].ptr)'
    <3>1. next[n].ptr \in Nodes /\ Live(next[n].ptr)
      BY <1>q, <2>2, Line DEF HasNext, ListInv
    <3> QED BY <1>q, <3>1 DEF Live
  <2>3. \A n \in Nodes : Live(n)' => Published(n)'
    BY <1>q DEF ListInv, Listed, Published
  <2> QED BY <2>1, <2>2, <2>3 DEF Listed
<1>5. LocksHeld'
  BY <1>q, <1>2 DEF ListInv, LocksHeld
<1>6. RedirectsHold'
  BY <1>q, <1>2, <1>3 DEF RedirectsHold
<1>7. ASSUME NEW u \in Threads
      PROVE  JanitorKnows(u)'
  <2>1. CASE u = t
    BY <1>q, <2>1 DEF JanitorKnows, Redirecting, Freeing, Janitoring
  <2>2. CASE u # t
    BY <1>1, <2>2, OthersKnow
  <2> QED BY <2>1, <2>2
<1> QED BY <1>4, <1>5, <1>6, <1>7

(* A step of an advance leaves the list alone.*)
LEMMA AdvanceQuiet ==
  ASSUME OrderInv, NEW t \in Threads, Shape(t), AdvanceStep(t)
  PROVE  Quiet(t)
<1>k. TypeOK /\ Knows(pc[t], item[t], av[t], pd[t], jn[t], op[t])
  BY RegistersTyped DEF OrderInv
<1>r. /\ pc \in [Threads -> Labels] /\ item \in [Threads -> Nodes] /\ av \in [Threads -> AdvanceFrames]
      /\ pd \in [Threads -> PayloadFrames] /\ jn \in [Threads -> JanitorFrames]
      /\ dr \in [Threads -> DropFrames] /\ op \in [Threads -> CallFrames]
      /\ strong \in [Nodes -> 0..UsizeMax] /\ UsizeMax \in Nat /\ weak \in [Nodes -> WeakWords]
      /\ mem \in [Nodes -> {"unused", "private", "live", "freed"}] /\ prev \in [Nodes -> Ptrs]
      /\ stamp \in [Nodes -> Nat] /\ next \in [Nodes -> NextWords] /\ adv \in [Nodes -> Int]
      /\ handle \in [Handles -> HandleStates]
  BY HeapAssumption DEF OrderInv, TypeOK
<1>s. Shape(t)
  OBVIOUS
<1>1. CASE AdvanceLoad(t)
  BY <1>k, <1>r, <1>s, <1>1, SMTT(30) DEF AdvanceLoad, Goto, ReturnAdvance, ReadOnly,
     IdleAdvance, AdvanceFrames, Live, Quiet, KeepsNext, KeepsLocks, KeepsPtrs, Janitoring,
     Knows, Frames, NewNode, Linking, Shape, Continues, locals, client, heap
<1>2. CASE AdvanceInc(t)
  BY <1>k, <1>r, <1>s, <1>2, SMTT(30) DEF AdvanceInc, Goto, OnlyAdv, Live, Quiet, KeepsNext,
     KeepsLocks, KeepsPtrs, Janitoring, Knows, Frames, NewNode, Linking, Shape, Continues,
     locals, client, heap
<1>3. CASE AdvanceReload(t)
  BY <1>k, <1>r, <1>s, <1>3, SMTT(30) DEF AdvanceReload, Goto, ReadOnly, Live, Quiet, KeepsNext,
     KeepsLocks, KeepsPtrs, Janitoring, Knows, Frames, NewNode, Linking, Shape, Continues,
     locals, client, heap
<1>4. CASE AdvanceWeakInc(t)
  BY <1>k, <1>r, <1>s, <1>4, SMTT(30) DEF AdvanceWeakInc, AddWeak, Goto, OnlyWeak, Live, Quiet,
     KeepsNext, KeepsLocks, KeepsPtrs, Janitoring, Knows, Frames, NewNode, Linking, Shape,
     Continues, locals, client, heap
<1>5. CASE AdvanceDec(t)
  BY <1>k, <1>r, <1>s, <1>5, SMTT(30) DEF AdvanceDec, Goto, OnlyAdv, Live, Quiet, KeepsNext,
     KeepsLocks, KeepsPtrs, Janitoring, Knows, Frames, NewNode, Linking, Shape, Continues,
     locals, client, heap
<1>6. CASE AdvanceWeakDec(t)
  BY <1>k, <1>r, <1>s, <1>6, SMTT(30) DEF AdvanceWeakDec, SubWeak, Goto, OnlyWeak, Live, Quiet,
     KeepsNext, KeepsLocks, KeepsPtrs, Janitoring, Knows, Frames, NewNode, Linking, Shape,
     Continues, locals, client, heap
<1>7. CASE WeakLeaveStart(t)
  BY <1>k, <1>r, <1>s, <1>7, SMTT(30) DEF WeakLeaveStart, SubWeak, ReturnAdvance, OnlyWeak,
     Goto, IdleAdvance, AdvanceFrames, Live, Quiet, KeepsNext, KeepsLocks, KeepsPtrs,
     Janitoring, Knows, Frames, NewNode, Linking, Shape, Continues, locals, client, heap
<1>9. CASE PayloadDrop(t)
  <2>1. CASE pd[t].ret = "advs_a_decw"
    BY <1>k, <1>r, <1>s, <1>9, <2>1, SMTT(30) DEF PayloadDrop, DropPayload, Goto, IdlePayload,
     Live, Quiet, KeepsNext, KeepsLocks, KeepsPtrs, Janitoring, Knows, Frames, NewNode, Linking,
     Shape, Continues, locals, client, heap
  <2>2. CASE pd[t].ret = "dw_cas"
    BY <1>k, <1>r, <1>s, <1>9, <2>2, SMTT(30) DEF PayloadDrop, DropPayload, Goto, IdlePayload,
     Live, Quiet, KeepsNext, KeepsLocks, KeepsPtrs, Janitoring, Knows, Frames, NewNode, Linking,
     Shape, Continues, locals, client, heap
  <2>3. CASE pd[t].ret = "upd_decw"
    BY <1>k, <1>r, <1>s, <1>9, <2>3, SMTT(30) DEF PayloadDrop, DropPayload, Goto, IdlePayload,
     Live, Quiet, KeepsNext, KeepsLocks, KeepsPtrs, Janitoring, Knows, Frames, NewNode, Linking,
     Shape, Continues, locals, client, heap
  <2>r. pd[t].ret \in {"advs_a_decw", "dw_cas", "upd_decw"}
    BY <1>r, <1>s, <1>9 DEF
     PayloadFrames, Shape, PayloadDrop
  <2> QED BY <2>1, <2>2, <2>3, <2>r
<1>10. CASE StrongLoad(t)
  BY <1>k, <1>r, <1>s, <1>10, SMTT(30) DEF StrongLoad, TryStrong, ReadOnly, Goto, IdleAdvance,
     AdvanceFrames, Live, Quiet, KeepsNext, KeepsLocks, KeepsPtrs, Janitoring, Knows, Frames,
     NewNode, Linking, Shape, Continues, locals, client, heap
<1>11. CASE StrongIncWeak(t)
  BY <1>k, <1>r, <1>s, <1>11, SMTT(30) DEF StrongIncWeak, AddWeak, Goto, OnlyWeak, Live, Quiet,
     KeepsNext, KeepsLocks, KeepsPtrs, Janitoring, Knows, Frames, NewNode, Linking, Shape,
     Continues, locals, client, heap
<1>12. CASE StrongCas(t)
  <2>1. CASE strong[item[t]] = av[t].cs
    BY <1>k, <1>r, <1>s, <1>12, <2>1, SMTT(30) DEF StrongCas, AddStrong, Goto, TryStrong,
     OnlyStrong, IdleAdvance, AdvanceFrames, Live, Quiet, KeepsNext, KeepsLocks, KeepsPtrs,
     Janitoring, Knows, Frames, NewNode, Linking, Shape, Continues, locals, client, heap
  <2>2. CASE strong[item[t]] # av[t].cs /\ av[t].cs = 0
    BY <1>k, <1>r, <1>s, <1>12, <2>2, SMTT(30) DEF StrongCas, AddStrong, Goto, TryStrong,
     OnlyStrong, IdleAdvance, AdvanceFrames, Live, Quiet, KeepsNext, KeepsLocks, KeepsPtrs,
     Janitoring, Knows, Frames, NewNode, Linking, Shape, Continues, locals, client, heap
  <2>3. CASE strong[item[t]] # av[t].cs /\ av[t].cs # 0
    BY <1>k, <1>r, <1>s, <1>12, <2>3, SMTT(30) DEF StrongCas, AddStrong, Goto, TryStrong,
     OnlyStrong, IdleAdvance, AdvanceFrames, Live, Quiet, KeepsNext, KeepsLocks, KeepsPtrs,
     Janitoring, Knows, Frames, NewNode, Linking, Shape, Continues, locals, client, heap
  <2> QED BY <2>1, <2>2, <2>3
<1>13. CASE StrongRaceDecWeak(t)
  BY <1>k, <1>r, <1>s, <1>13, SMTT(30) DEF StrongRaceDecWeak, SubWeak, TryStrong, OnlyWeak,
     Goto, IdleAdvance, AdvanceFrames, Live, Quiet, KeepsNext, KeepsLocks, KeepsPtrs,
     Janitoring, Knows, Frames, NewNode, Linking, Shape, Continues, locals, client, heap
<1>14. CASE StrongRecheck(t)
  BY <1>k, <1>r, <1>s, <1>14, SMTT(30) DEF StrongRecheck, Goto, ReadOnly, Live, Quiet,
     KeepsNext, KeepsLocks, KeepsPtrs, Janitoring, Knows, Frames, NewNode, Linking, Shape,
     Continues, locals, client, heap
<1>15. CASE StrongUndo(t)
  <2>1. CASE LastStrong(item[t])
    BY <1>k, <1>r, <1>s, <1>15, <2>1, SMTT(30) DEF StrongUndo, SubStrong, Goto, RetryAdvance,
     OnlyStrong, IdleAdvance, AdvanceFrames, Live, Quiet, KeepsNext, KeepsLocks, KeepsPtrs,
     Janitoring, Knows, Frames, NewNode, Linking, Shape, Continues, locals, client, heap
  <2>2. CASE ~LastStrong(item[t])
    BY <1>k, <1>r, <1>s, <1>15, <2>2, SMTT(30) DEF StrongUndo, SubStrong, Goto, RetryAdvance,
     OnlyStrong, IdleAdvance, AdvanceFrames, Live, Quiet, KeepsNext, KeepsLocks, KeepsPtrs,
     Janitoring, Knows, Frames, NewNode, Linking, Shape, Continues, locals, client, heap
  <2> QED BY <2>1, <2>2
<1>16. CASE StrongUndoDecWeak(t)
  BY <1>k, <1>r, <1>s, <1>16, SMTT(30) DEF StrongUndoDecWeak, SubWeak, RetryAdvance, OnlyWeak,
     Goto, IdleAdvance, AdvanceFrames, Live, Quiet, KeepsNext, KeepsLocks, KeepsPtrs,
     Janitoring, Knows, Frames, NewNode, Linking, Shape, Continues, locals, client, heap
<1>17. CASE StrongDecWeakB(t)
  BY <1>k, <1>r, <1>s, <1>17, SMTT(30) DEF StrongDecWeakB, SubWeak, Goto, OnlyWeak, Live, Quiet,
     KeepsNext, KeepsLocks, KeepsPtrs, Janitoring, Knows, Frames, NewNode, Linking, Shape,
     Continues, locals, client, heap
<1>18. CASE StrongLeaveStart(t)
  <2>1. CASE LastStrong(av[t].start)
    BY <1>k, <1>r, <1>s, <1>18, <2>1, SMTT(30) DEF StrongLeaveStart, SubStrong,
     StartPayloadDrop, ReturnAdvance, OnlyStrong, Goto, IdleAdvance, AdvanceFrames, Live, Quiet,
     KeepsNext, KeepsLocks, KeepsPtrs, Janitoring, Knows, Frames, NewNode, Linking, Shape,
     Continues, locals, client, heap
  <2>2. CASE ~LastStrong(av[t].start)
    BY <1>k, <1>r, <1>s, <1>18, <2>2, SMTT(30) DEF StrongLeaveStart, SubStrong,
     StartPayloadDrop, ReturnAdvance, OnlyStrong, Goto, IdleAdvance, AdvanceFrames, Live, Quiet,
     KeepsNext, KeepsLocks, KeepsPtrs, Janitoring, Knows, Frames, NewNode, Linking, Shape,
     Continues, locals, client, heap
  <2> QED BY <2>1, <2>2
<1>19. CASE StrongDecWeakA(t)
  BY <1>k, <1>r, <1>s, <1>19, SMTT(30) DEF StrongDecWeakA, SubWeak, ReturnAdvance, OnlyWeak,
     Goto, IdleAdvance, AdvanceFrames, Live, Quiet, KeepsNext, KeepsLocks, KeepsPtrs,
     Janitoring, Knows, Frames, NewNode, Linking, Shape, Continues, locals, client, heap
<1>m. CASE PayloadMark(t)
  <2>1. \/ next' = [next EXCEPT ![pd[t].tgt].dropped = TRUE] /\ pc'[t] = "pay_drop"
        \/ next' = next /\ pc'[t] = pd[t].ret
    BY <1>r, <1>m DEF PayloadMark, Goto
  <2>2. /\ UNCHANGED <<stamp, mem, prev>> /\ pc[t] = "pay_mark" /\ pd[t].tgt \in Nodes
        /\ pd[t].ret \in {"idle", "advs_a_decw", "dw_cas", "upd_decw"}
    BY <1>r, <1>m DEF PayloadMark, OnlyNext, client, PayloadFrames
  <2>3. \A n \in Nodes : next'[n].ptr = next[n].ptr /\ next'[n].locked = next[n].locked
    <3>1. CASE next' = next
      BY <3>1
    <3>2. CASE next' = [next EXCEPT ![pd[t].tgt].dropped = TRUE]
      <4>1. ASSUME NEW n \in Nodes
            PROVE  next'[n] = IF n = pd[t].tgt THEN [next[n] EXCEPT !.dropped = TRUE] ELSE next[n]
        BY <1>r, <2>2, <3>2
      <4> QED BY <1>r, <4>1 DEF NextWords
    <3> QED BY <2>1, <3>1, <3>2
  <2> QED BY <2>1, <2>2, <2>3 DEF Quiet, KeepsNext, KeepsLocks, KeepsPtrs, Janitoring
<1> QED BY <1>1, <1>2, <1>3, <1>4, <1>5, <1>6, <1>7, <1>9, <1>10, <1>11, <1>12, <1>13, <1>14,
  <1>15, <1>16, <1>17, <1>18, <1>19, <1>m DEF AdvanceStep

(* A step of a drop leaves the list alone.*)
LEMMA DropQuiet ==
  ASSUME OrderInv, NEW t \in Threads, Shape(t), DropStep(t), ~DropWeakFree(t)
  PROVE  Quiet(t)
<1>k. TypeOK /\ Knows(pc[t], item[t], av[t], pd[t], jn[t], op[t])
  BY RegistersTyped DEF OrderInv
<1>r. /\ pc \in [Threads -> Labels] /\ item \in [Threads -> Nodes] /\ av \in [Threads -> AdvanceFrames]
      /\ pd \in [Threads -> PayloadFrames] /\ jn \in [Threads -> JanitorFrames]
      /\ dr \in [Threads -> DropFrames] /\ op \in [Threads -> CallFrames]
      /\ strong \in [Nodes -> 0..UsizeMax] /\ UsizeMax \in Nat /\ weak \in [Nodes -> WeakWords]
      /\ mem \in [Nodes -> {"unused", "private", "live", "freed"}] /\ prev \in [Nodes -> Ptrs]
      /\ stamp \in [Nodes -> Nat] /\ next \in [Nodes -> NextWords] /\ adv \in [Nodes -> Int]
      /\ handle \in [Handles -> HandleStates]
  BY HeapAssumption DEF OrderInv, TypeOK
<1>s. Shape(t)
  OBVIOUS
<1>1. CASE DropStrongDec(t)
  <2>1. CASE LastStrong(item[t])
    <3>1. /\ pc[t] = "ds_dec"
          /\ SubStrong(item[t])
          /\ OnlyStrong
          /\ UNCHANGED <<pd, op>>
          /\ Starts(t, item[t], "weak", "jan_lock")
          /\ jn'[t] = [IdleJanitor EXCEPT !.ret = "dw_weak"]
          /\ dr'[t] = [IdleDrop EXCEPT !.ret = dr[t].ret]
      BY <1>k, <1>1, <2>1, DropStrongDecEffect
    <3> QED BY <1>k, <1>r, <1>s, <2>1, <3>1, SMTT(30) DEF Starts, SubStrong, OnlyStrong,
     IdleJanitor, IdleDrop, Live, Quiet, KeepsNext, KeepsLocks, KeepsPtrs, Janitoring, Knows,
     Frames, NewNode, Linking, Shape, Continues, locals, client, heap
  <2>2. CASE ~LastStrong(item[t])
    <3>1. /\ pc[t] = "ds_dec"
          /\ SubStrong(item[t])
          /\ OnlyStrong
          /\ UNCHANGED <<pd, op>>
          /\ pc'[t] = dr[t].ret
          /\ dr'[t] = IdleDrop
          /\ jn'[t] = IdleJanitor
          /\ UNCHANGED <<item, av>>
      BY <1>k, <1>1, <2>2, DropStrongDecEffect
    <3>3. CASE dr[t].ret = "ret"
      BY <1>k, <1>r, <1>s, <2>2, <3>1, <3>3, SMTT(30) DEF Starts, SubStrong, OnlyStrong,
     IdleDrop, IdleJanitor, Live, Quiet, KeepsNext, KeepsLocks, KeepsPtrs, Janitoring, Knows,
     Frames, NewNode, Linking, Shape, Continues, locals, client, heap
    <3>4. CASE dr[t].ret = "sg_dec"
      BY <1>k, <1>r, <1>s, <2>2, <3>1, <3>4, SMTT(30) DEF Starts, SubStrong, OnlyStrong,
     IdleDrop, IdleJanitor, Live, Quiet, KeepsNext, KeepsLocks, KeepsPtrs, Janitoring, Knows,
     Frames, NewNode, Linking, Shape, Continues, locals, client, heap
    <3>9. dr[t].ret = "ret" \/ dr[t].ret = "sg_dec"
      BY <1>k, <1>r, <1>s, <3>1, <2>2 DEF DropFrames, Shape, Dying, CallFrames, Continues,
     Janitoring
    <3> QED BY <3>3, <3>4, <3>9
  <2> QED BY <2>1, <2>2
<1>2. CASE DropWeakLoad(t)
  <2>1. CASE jn[t].rerun
    <3>1. /\ pc[t] = "dw_weak"
          /\ ReadOnly
          /\ UNCHANGED <<pd, op>>
          /\ Starts(t, item[t], "weak", "jan_lock")
          /\ jn'[t] = [IdleJanitor EXCEPT !.ret = "dw_weak"]
          /\ UNCHANGED dr
      BY <1>k, <1>2, <2>1, DropWeakLoadEffect
    <3> QED BY <1>k, <1>r, <1>s, <2>1, <3>1, SMTT(30) DEF Starts, ReadOnly, IdleJanitor, Live,
     Quiet, KeepsNext, KeepsLocks, KeepsPtrs, Janitoring, Knows, Frames, NewNode, Linking,
     Shape, Continues, locals, client, heap
  <2>2. CASE ~jn[t].rerun
    <3>1. /\ pc[t] = "dw_weak"
          /\ ReadOnly
          /\ UNCHANGED <<pd, op>>
          /\ pc'[t] = "dw_next"
          /\ dr'[t] = [dr[t] EXCEPT !.ww = weak[item[t]]]
          /\ UNCHANGED <<item, av, jn>>
      BY <1>k, <1>2, <2>2, DropWeakLoadEffect
    <3> QED BY <1>k, <1>r, <1>s, <2>2, <3>1, SMTT(30) DEF Starts, ReadOnly, Live, Quiet,
     KeepsNext, KeepsLocks, KeepsPtrs, Janitoring, Knows, Frames, NewNode, Linking, Shape,
     Continues, locals, client, heap
  <2> QED BY <2>1, <2>2
<1>3. CASE DropWeakNext(t)
  <2>1. CASE HasNext(item[t])
    <3>1. /\ pc[t] = "dw_next"
          /\ ReadOnly
          /\ UNCHANGED <<pd, op>>
          /\ Starts(t, item[t], "weak", "jan_lock")
          /\ jn'[t] = [IdleJanitor EXCEPT !.ret = "dw_weak"]
          /\ dr'[t] = [IdleDrop EXCEPT !.ret = dr[t].ret]
      BY <1>k, <1>3, <2>1, DropWeakNextEffect
    <3> QED BY <1>k, <1>r, <1>s, <2>1, <3>1, SMTT(30) DEF Starts, ReadOnly, IdleJanitor,
     IdleDrop, Live, Quiet, KeepsNext, KeepsLocks, KeepsPtrs, Janitoring, Knows, Frames,
     NewNode, Linking, Shape, Continues, locals, client, heap
  <2>2. CASE ~HasNext(item[t])
    <3>1. /\ pc[t] = "dw_next"
          /\ ReadOnly
          /\ UNCHANGED <<pd, op>>
          /\ pc'[t] = IF jn[t].status = "NoStrongRefsExist" THEN "dw_claim" ELSE "dw_cas"
          /\ UNCHANGED <<item, av, jn, dr>>
      BY <1>k, <1>3, <2>2, DropWeakNextEffect
    <3> QED BY <1>k, <1>r, <1>s, <2>2, <3>1, SMTT(30) DEF Starts, ReadOnly, Live, Quiet,
     KeepsNext, KeepsLocks, KeepsPtrs, Janitoring, Knows, Frames, NewNode, Linking, Shape,
     Continues, locals, client, heap
  <2> QED BY <2>1, <2>2
<1>4. CASE ClaimTeardown(t)
  BY <1>k, <1>r, <1>s, <1>4, SMTT(30) DEF ClaimTeardown, StartPayloadDrop, Goto, OnlyStrong,
     Live, Quiet, KeepsNext, KeepsLocks, KeepsPtrs, Janitoring, Knows, Frames, NewNode, Linking,
     Shape, Continues, locals, client, heap
<1>5. CASE DropWeakCas(t)
  <2>1. CASE ~SameWeakWord(item[t], dr[t].ww)
    <3>1. /\ pc[t] = "dw_cas"
          /\ OnlyWeak
          /\ UNCHANGED <<pd, op>>
          /\ Starts(t, item[t], "weak", "jan_lock")
          /\ jn'[t] = [IdleJanitor EXCEPT !.ret = "dw_weak"]
          /\ dr'[t] = [IdleDrop EXCEPT !.ret = dr[t].ret]
          /\ UNCHANGED weak
      BY <1>k, <1>5, <2>1, DropWeakCasEffect
    <3> QED BY <1>k, <1>r, <1>s, <2>1, <3>1, SMTT(30) DEF Starts, OnlyWeak, IdleJanitor,
     IdleDrop, Live, Quiet, KeepsNext, KeepsLocks, KeepsPtrs, Janitoring, Knows, Frames,
     NewNode, Linking, Shape, Continues, locals, client, heap
  <2>2. CASE SameWeakWord(item[t], dr[t].ww) /\ SoleUser(dr[t].ww)
    <3>1. /\ pc[t] = "dw_cas"
          /\ OnlyWeak
          /\ UNCHANGED <<pd, op>>
          /\ SubWeak(item[t])
          /\ pc'[t] = "dw_free"
          /\ UNCHANGED <<item, av, jn, dr>>
      BY <1>k, <1>5, <2>2, DropWeakCasEffect
    <3> QED BY <1>k, <1>r, <1>s, <2>2, <3>1, SMTT(30) DEF Starts, OnlyWeak, SubWeak, Live,
     Quiet, KeepsNext, KeepsLocks, KeepsPtrs, Janitoring, Knows, Frames, NewNode, Linking,
     Shape, Continues, locals, client, heap
  <2>3. CASE SameWeakWord(item[t], dr[t].ww) /\ ~SoleUser(dr[t].ww)
    <3>1. /\ pc[t] = "dw_cas"
          /\ OnlyWeak
          /\ UNCHANGED <<pd, op>>
          /\ SubWeak(item[t])
          /\ pc'[t] = dr[t].ret
          /\ dr'[t] = IdleDrop
          /\ jn'[t] = IdleJanitor
          /\ UNCHANGED <<item, av>>
      BY <1>k, <1>5, <2>3, DropWeakCasEffect
    <3>3. CASE dr[t].ret = "ret"
      BY <1>k, <1>r, <1>s, <2>3, <3>1, <3>3, SMTT(30) DEF Starts, OnlyWeak, SubWeak, IdleDrop,
     IdleJanitor, Live, Quiet, KeepsNext, KeepsLocks, KeepsPtrs, Janitoring, Knows, Frames,
     NewNode, Linking, Shape, Continues, locals, client, heap
    <3>4. CASE dr[t].ret = "sg_dec"
      BY <1>k, <1>r, <1>s, <2>3, <3>1, <3>4, SMTT(30) DEF Starts, OnlyWeak, SubWeak, IdleDrop,
     IdleJanitor, Live, Quiet, KeepsNext, KeepsLocks, KeepsPtrs, Janitoring, Knows, Frames,
     NewNode, Linking, Shape, Continues, locals, client, heap
    <3>9. dr[t].ret = "ret" \/ dr[t].ret = "sg_dec"
      BY <1>k, <1>r, <1>s, <3>1, <2>3 DEF DropFrames, Shape, Dying, CallFrames, Continues,
     Janitoring
    <3> QED BY <3>3, <3>4, <3>9
  <2> QED BY <2>1, <2>2, <2>3
<1> QED BY <1>1, <1>2, <1>3, <1>4, <1>5 DEF DropStep

(* A step of an update leaves the list alone.*)
LEMMA UpdateQuiet ==
  ASSUME OrderInv, NEW t \in Threads, Shape(t), UpdateStep(t), ~UpdateCas(t)
  PROVE  Quiet(t)
<1>k. TypeOK /\ Knows(pc[t], item[t], av[t], pd[t], jn[t], op[t])
  BY RegistersTyped DEF OrderInv
<1>r. /\ pc \in [Threads -> Labels] /\ item \in [Threads -> Nodes] /\ av \in [Threads -> AdvanceFrames]
      /\ pd \in [Threads -> PayloadFrames] /\ jn \in [Threads -> JanitorFrames]
      /\ dr \in [Threads -> DropFrames] /\ op \in [Threads -> CallFrames]
      /\ strong \in [Nodes -> 0..UsizeMax] /\ UsizeMax \in Nat /\ weak \in [Nodes -> WeakWords]
      /\ mem \in [Nodes -> {"unused", "private", "live", "freed"}] /\ prev \in [Nodes -> Ptrs]
      /\ stamp \in [Nodes -> Nat] /\ next \in [Nodes -> NextWords] /\ adv \in [Nodes -> Int]
      /\ handle \in [Handles -> HandleStates]
  BY HeapAssumption DEF OrderInv, TypeOK
<1>s. Shape(t)
  OBVIOUS
<1>1. CASE UpdateNext(t)
  <2>1. CASE HasNext(item[t])
    <3>1. /\ pc[t] = "upd_next"
          /\ UNCHANGED <<client, pd, jn, dr>>
          /\ UNCHANGED <<next, adv, drops>>
          /\ Starts(t, item[t], "strong", "upd_next")
          /\ UNCHANGED <<heap, op>>
      BY <1>k, <1>1, <2>1, UpdateNextEffect
    <3> QED BY <1>k, <1>r, <1>s, <2>1, <3>1, SMTT(30) DEF Starts, Live, Quiet, KeepsNext,
     KeepsLocks, KeepsPtrs, Janitoring, Knows, Frames, NewNode, Linking, Shape, Continues,
     locals, client, heap
  <2>2. CASE ~HasNext(item[t]) /\ op[t].val # Null
    <3>1. /\ pc[t] = "upd_next"
          /\ UNCHANGED <<client, pd, jn, dr>>
          /\ UNCHANGED <<next, adv, drops>>
          /\ pc'[t] = "upd_weak"
          /\ op'[t] = [op[t] EXCEPT !.nw = next[item[t]]]
          /\ prev' = [prev EXCEPT ![op[t].val] = item[t]]
          /\ UNCHANGED <<strong, weak, mem, item, av>>
      BY <1>k, <1>1, <2>2, UpdateNextEffect
    <3> QED BY <1>k, <1>r, <1>s, <2>2, <3>1, SMTT(30) DEF Starts, Live, Quiet, KeepsNext,
     KeepsLocks, KeepsPtrs, Janitoring, Knows, Frames, NewNode, Linking, Shape, Continues,
     locals, client, heap
  <2>3. CASE ~HasNext(item[t]) /\ op[t].val = Null
    <3>1. /\ pc[t] = "upd_next"
          /\ UNCHANGED <<client, pd, jn, dr>>
          /\ UNCHANGED <<next, adv, drops>>
          /\ Unused # {}
          /\ pc'[t] = "upd_weak"
          /\ op'[t] = [op[t] EXCEPT !.val = FreshNode, !.nw = next[item[t]]]
          /\ NewHolder(FreshNode, item[t])
          /\ UNCHANGED <<item, av>>
      BY <1>k, <1>1, <2>3, UpdateNextEffect
    <3>2. FreshNode \in Nodes /\ mem[FreshNode] = "unused" /\ ~Published(FreshNode)
      BY <3>1, FreshIsUnused
    <3> QED BY <1>k, <1>r, <1>s, <2>3, <3>1, <3>2, SMTT(30) DEF Starts, NewHolder, Live, Quiet,
     KeepsNext, KeepsLocks, KeepsPtrs, Janitoring, Knows, Frames, NewNode, Linking, Shape,
     Continues, locals, client, heap
  <2> QED BY <2>1, <2>2, <2>3
<1>2. CASE RcuCancel(t)
  BY <1>k, <1>r, <1>s, <1>2, SMTT(30) DEF RcuCancel, Goto, Live, Quiet, KeepsNext, KeepsLocks,
     KeepsPtrs, Janitoring, Knows, Frames, NewNode, Linking, Shape, Continues, locals, client,
     heap
<1>3. CASE UpdateWeakInc(t)
  BY <1>k, <1>r, <1>s, <1>3, SMTT(30) DEF UpdateWeakInc, AddWeak, Goto, OnlyWeak, Live, Quiet,
     KeepsNext, KeepsLocks, KeepsPtrs, Janitoring, Knows, Frames, NewNode, Linking, Shape,
     Continues, locals, client, heap
<1>5. CASE UpdateFail(t)
  <2>1. /\ pc[t] = "upd_fail"
        /\ SubWeak(item[t])
        /\ OnlyWeak
        /\ UNCHANGED <<pd, jn, dr, op>>
        /\ Starts(t, item[t], "strong", "upd_next")
    BY <1>k, <1>5, UpdateFailEffect
  <2> QED BY <1>k, <1>r, <1>s, <2>1, SMTT(30) DEF Starts, SubWeak, OnlyWeak, Live, Quiet,
     KeepsNext, KeepsLocks, KeepsPtrs, Janitoring, Knows, Frames, NewNode, Linking, Shape,
     Continues, locals, client, heap
<1>6. CASE UpdateMark(t)
  BY <1>k, <1>r, <1>s, <1>6, SMTT(30) DEF UpdateMark, Goto, OnlyWeak, Live, Quiet, KeepsNext,
     KeepsLocks, KeepsPtrs, Janitoring, Knows, Frames, NewNode, Linking, Shape, Continues,
     locals, client, heap
<1>7. CASE UpdateDec(t)
  <2>1. CASE LastStrong(item[t])
    BY <1>k, <1>r, <1>s, <1>7, <2>1, SMTT(30) DEF UpdateDec, SubStrong, StartPayloadDrop, Goto,
     OnlyStrong, Live, Quiet, KeepsNext, KeepsLocks, KeepsPtrs, Janitoring, Knows, Frames,
     NewNode, Linking, Shape, Continues, locals, client, heap
  <2>2. CASE ~LastStrong(item[t])
    BY <1>k, <1>r, <1>s, <1>7, <2>2, SMTT(30) DEF UpdateDec, SubStrong, StartPayloadDrop, Goto,
     OnlyStrong, Live, Quiet, KeepsNext, KeepsLocks, KeepsPtrs, Janitoring, Knows, Frames,
     NewNode, Linking, Shape, Continues, locals, client, heap
  <2> QED BY <2>1, <2>2
<1>8. CASE UpdateDecWeak(t)
  BY <1>k, <1>r, <1>s, <1>8, SMTT(30) DEF UpdateDecWeak, SubWeak, Goto, OnlyWeak, Live, Quiet,
     KeepsNext, KeepsLocks, KeepsPtrs, Janitoring, Knows, Frames, NewNode, Linking, Shape,
     Continues, locals, client, heap
<1>9. CASE UpdateDone(t)
  <2>1. CASE jn[t].rerun
    <3>1. /\ pc[t] = "upd_done"
          /\ ReadOnly
          /\ UNCHANGED <<pd, jn, dr, op>>
          /\ Starts(t, item[t], "strong", "jan_lock")
      BY <1>k, <1>9, <2>1, UpdateDoneEffect
    <3> QED BY <1>k, <1>r, <1>s, <2>1, <3>1, SMTT(30) DEF Starts, ReadOnly, Live, Quiet,
     KeepsNext, KeepsLocks, KeepsPtrs, Janitoring, Knows, Frames, NewNode, Linking, Shape,
     Continues, locals, client, heap
  <2>2. CASE ~jn[t].rerun
    <3>1. /\ pc[t] = "upd_done"
          /\ ReadOnly
          /\ UNCHANGED <<pd, jn, dr, op>>
          /\ pc'[t] = "ret"
          /\ UNCHANGED <<item, av>>
      BY <1>k, <1>9, <2>2, UpdateDoneEffect
    <3> QED BY <1>k, <1>r, <1>s, <2>2, <3>1, SMTT(30) DEF Starts, ReadOnly, Live, Quiet,
     KeepsNext, KeepsLocks, KeepsPtrs, Janitoring, Knows, Frames, NewNode, Linking, Shape,
     Continues, locals, client, heap
  <2> QED BY <2>1, <2>2
<1> QED BY <1>1, <1>2, <1>3, <1>5, <1>6, <1>7, <1>8, <1>9 DEF UpdateStep

(* A step of an upgrade leaves the list alone.*)
LEMMA UpgradeQuiet ==
  ASSUME OrderInv, NEW t \in Threads, Shape(t), UpgradeStep(t)
  PROVE  Quiet(t)
<1>k. TypeOK /\ Knows(pc[t], item[t], av[t], pd[t], jn[t], op[t])
  BY RegistersTyped DEF OrderInv
<1>r. /\ pc \in [Threads -> Labels] /\ item \in [Threads -> Nodes] /\ av \in [Threads -> AdvanceFrames]
      /\ pd \in [Threads -> PayloadFrames] /\ jn \in [Threads -> JanitorFrames]
      /\ dr \in [Threads -> DropFrames] /\ op \in [Threads -> CallFrames]
      /\ strong \in [Nodes -> 0..UsizeMax] /\ UsizeMax \in Nat /\ weak \in [Nodes -> WeakWords]
      /\ mem \in [Nodes -> {"unused", "private", "live", "freed"}] /\ prev \in [Nodes -> Ptrs]
      /\ stamp \in [Nodes -> Nat] /\ next \in [Nodes -> NextWords] /\ adv \in [Nodes -> Int]
      /\ handle \in [Handles -> HandleStates]
  BY HeapAssumption DEF OrderInv, TypeOK
<1>s. Shape(t)
  OBVIOUS
<1>1. CASE UpgradeLoadStrong(t)
  BY <1>k, <1>r, <1>s, <1>1, SMTT(30) DEF UpgradeLoadStrong, Goto, ReadOnly, Live, Quiet,
     KeepsNext, KeepsLocks, KeepsPtrs, Janitoring, Knows, Frames, NewNode, Linking, Shape,
     Continues, locals, client, heap
<1>2. CASE UpgradeLoadNext(t)
  <2>1. CASE HasNext(item[t])
    <3>1. /\ pc[t] = "upg_next"
          /\ ReadOnly
          /\ UNCHANGED pd
          /\ Starts(t, item[t], "weak", "upg_strong")
          /\ UNCHANGED <<jn, dr, op>>
      BY <1>k, <1>2, <2>1, UpgradeLoadNextEffect
    <3> QED BY <1>k, <1>r, <1>s, <2>1, <3>1, SMTT(30) DEF Starts, ReadOnly, Live, Quiet,
     KeepsNext, KeepsLocks, KeepsPtrs, Janitoring, Knows, Frames, NewNode, Linking, Shape,
     Continues, locals, client, heap
  <2>2. CASE ~HasNext(item[t]) /\ ValueIsGone(item[t], op[t].cs)
    <3>1. /\ pc[t] = "upg_next"
          /\ ReadOnly
          /\ UNCHANGED pd
          /\ Starts(t, item[t], "weak", "jan_lock")
          /\ jn'[t] = [IdleJanitor EXCEPT !.ret = "dw_weak"]
          /\ dr'[t] = [IdleDrop EXCEPT !.ret = "ret"]
          /\ op'[t] = [op[t] EXCEPT !.ok = FALSE]
      BY <1>k, <1>2, <2>2, UpgradeLoadNextEffect
    <3> QED BY <1>k, <1>r, <1>s, <2>2, <3>1, SMTT(30) DEF Starts, ReadOnly, IdleJanitor,
     IdleDrop, Live, Quiet, KeepsNext, KeepsLocks, KeepsPtrs, Janitoring, Knows, Frames,
     NewNode, Linking, Shape, Continues, locals, client, heap
  <2>3. CASE ~HasNext(item[t]) /\ ~ValueIsGone(item[t], op[t].cs)
    <3>1. /\ pc[t] = "upg_next"
          /\ ReadOnly
          /\ UNCHANGED pd
          /\ pc'[t] = IF op[t].cs = 0 THEN "upg_incw" ELSE "upg_cas"
          /\ UNCHANGED <<item, av, jn, dr, op>>
      BY <1>k, <1>2, <2>3, UpgradeLoadNextEffect
    <3> QED BY <1>k, <1>r, <1>s, <2>3, <3>1, SMTT(30) DEF Starts, ReadOnly, Live, Quiet,
     KeepsNext, KeepsLocks, KeepsPtrs, Janitoring, Knows, Frames, NewNode, Linking, Shape,
     Continues, locals, client, heap
  <2> QED BY <2>1, <2>2, <2>3
<1>3. CASE UpgradeIncWeak(t)
  BY <1>k, <1>r, <1>s, <1>3, SMTT(30) DEF UpgradeIncWeak, AddWeak, Goto, OnlyWeak, Live, Quiet,
     KeepsNext, KeepsLocks, KeepsPtrs, Janitoring, Knows, Frames, NewNode, Linking, Shape,
     Continues, locals, client, heap
<1>4. CASE UpgradeCas(t)
  <2>1. CASE strong[item[t]] = op[t].cs
    <3>1. /\ pc[t] = "upg_cas"
          /\ OnlyStrong
          /\ UNCHANGED <<pd, jn, dr, op>>
          /\ AddStrong(item[t])
          /\ pc'[t] = "upg_check"
          /\ UNCHANGED <<item, av>>
      BY <1>k, <1>4, <2>1, UpgradeCasEffect
    <3> QED BY <1>k, <1>r, <1>s, <2>1, <3>1, SMTT(30) DEF Starts, OnlyStrong, AddStrong, Live,
     Quiet, KeepsNext, KeepsLocks, KeepsPtrs, Janitoring, Knows, Frames, NewNode, Linking,
     Shape, Continues, locals, client, heap
  <2>2. CASE strong[item[t]] # op[t].cs /\ op[t].cs = 0
    <3>1. /\ pc[t] = "upg_cas"
          /\ OnlyStrong
          /\ UNCHANGED <<pd, jn, dr, op>>
          /\ pc'[t] = "upg_race"
          /\ UNCHANGED <<strong, item, av>>
      BY <1>k, <1>4, <2>2, UpgradeCasEffect
    <3> QED BY <1>k, <1>r, <1>s, <2>2, <3>1, SMTT(30) DEF Starts, OnlyStrong, Live, Quiet,
     KeepsNext, KeepsLocks, KeepsPtrs, Janitoring, Knows, Frames, NewNode, Linking, Shape,
     Continues, locals, client, heap
  <2>3. CASE strong[item[t]] # op[t].cs /\ op[t].cs # 0
    <3>1. /\ pc[t] = "upg_cas"
          /\ OnlyStrong
          /\ UNCHANGED <<pd, jn, dr, op>>
          /\ Starts(t, item[t], "weak", "upg_strong")
          /\ UNCHANGED strong
      BY <1>k, <1>4, <2>3, UpgradeCasEffect
    <3> QED BY <1>k, <1>r, <1>s, <2>3, <3>1, SMTT(30) DEF Starts, OnlyStrong, Live, Quiet,
     KeepsNext, KeepsLocks, KeepsPtrs, Janitoring, Knows, Frames, NewNode, Linking, Shape,
     Continues, locals, client, heap
  <2> QED BY <2>1, <2>2, <2>3
<1>5. CASE UpgradeRaceDecWeak(t)
  <2>1. /\ pc[t] = "upg_race"
        /\ SubWeak(item[t])
        /\ OnlyWeak
        /\ UNCHANGED <<pd, jn, dr, op>>
        /\ Starts(t, item[t], "weak", "upg_strong")
    BY <1>k, <1>5, UpgradeRaceDecWeakEffect
  <2> QED BY <1>k, <1>r, <1>s, <2>1, SMTT(30) DEF Starts, SubWeak, OnlyWeak, Live, Quiet,
     KeepsNext, KeepsLocks, KeepsPtrs, Janitoring, Knows, Frames, NewNode, Linking, Shape,
     Continues, locals, client, heap
<1>6. CASE UpgradeCheck(t)
  BY <1>k, <1>r, <1>s, <1>6, SMTT(30) DEF UpgradeCheck, Goto, ReadOnly, Live, Quiet, KeepsNext,
     KeepsLocks, KeepsPtrs, Janitoring, Knows, Frames, NewNode, Linking, Shape, Continues,
     locals, client, heap
<1>7. CASE UpgradeUndo(t)
  <2>1. CASE LastStrong(item[t])
    <3>1. /\ pc[t] = "upg_undo"
          /\ SubStrong(item[t])
          /\ OnlyStrong
          /\ UNCHANGED <<pd, jn, dr, op>>
          /\ pc'[t] = "upg_undo_decw"
          /\ UNCHANGED <<item, av>>
      BY <1>k, <1>7, <2>1, UpgradeUndoEffect
    <3> QED BY <1>k, <1>r, <1>s, <2>1, <3>1, SMTT(30) DEF Starts, SubStrong, OnlyStrong, Live,
     Quiet, KeepsNext, KeepsLocks, KeepsPtrs, Janitoring, Knows, Frames, NewNode, Linking,
     Shape, Continues, locals, client, heap
  <2>2. CASE ~LastStrong(item[t])
    <3>1. /\ pc[t] = "upg_undo"
          /\ SubStrong(item[t])
          /\ OnlyStrong
          /\ UNCHANGED <<pd, jn, dr, op>>
          /\ Starts(t, item[t], "weak", "upg_strong")
      BY <1>k, <1>7, <2>2, UpgradeUndoEffect
    <3> QED BY <1>k, <1>r, <1>s, <2>2, <3>1, SMTT(30) DEF Starts, SubStrong, OnlyStrong, Live,
     Quiet, KeepsNext, KeepsLocks, KeepsPtrs, Janitoring, Knows, Frames, NewNode, Linking,
     Shape, Continues, locals, client, heap
  <2> QED BY <2>1, <2>2
<1>8. CASE UpgradeUndoDecWeak(t)
  <2>1. /\ pc[t] = "upg_undo_decw"
        /\ SubWeak(item[t])
        /\ OnlyWeak
        /\ UNCHANGED <<pd, jn, dr, op>>
        /\ Starts(t, item[t], "weak", "upg_strong")
    BY <1>k, <1>8, UpgradeUndoDecWeakEffect
  <2> QED BY <1>k, <1>r, <1>s, <2>1, SMTT(30) DEF Starts, SubWeak, OnlyWeak, Live, Quiet,
     KeepsNext, KeepsLocks, KeepsPtrs, Janitoring, Knows, Frames, NewNode, Linking, Shape,
     Continues, locals, client, heap
<1>9. CASE UpgradeDone(t)
  BY <1>k, <1>r, <1>s, <1>9, SMTT(30) DEF UpgradeDone, SubWeak, Goto, OnlyWeak, Live, Quiet,
     KeepsNext, KeepsLocks, KeepsPtrs, Janitoring, Knows, Frames, NewNode, Linking, Shape,
     Continues, locals, client, heap
<1> QED BY <1>1, <1>2, <1>3, <1>4, <1>5, <1>6, <1>7, <1>8, <1>9 DEF UpgradeStep

(* A step of a public function leaves the list alone.*)
LEMMA ApiQuiet ==
  ASSUME OrderInv, NEW t \in Threads, Shape(t), ApiStep(t)
  PROVE  Quiet(t)
<1>k. TypeOK /\ Knows(pc[t], item[t], av[t], pd[t], jn[t], op[t])
  BY RegistersTyped DEF OrderInv
<1>r. /\ pc \in [Threads -> Labels] /\ item \in [Threads -> Nodes] /\ av \in [Threads -> AdvanceFrames]
      /\ pd \in [Threads -> PayloadFrames] /\ jn \in [Threads -> JanitorFrames]
      /\ dr \in [Threads -> DropFrames] /\ op \in [Threads -> CallFrames]
      /\ strong \in [Nodes -> 0..UsizeMax] /\ UsizeMax \in Nat /\ weak \in [Nodes -> WeakWords]
      /\ mem \in [Nodes -> {"unused", "private", "live", "freed"}] /\ prev \in [Nodes -> Ptrs]
      /\ stamp \in [Nodes -> Nat] /\ next \in [Nodes -> NextWords] /\ adv \in [Nodes -> Int]
      /\ handle \in [Handles -> HandleStates]
  BY HeapAssumption DEF OrderInv, TypeOK
<1>s. Shape(t)
  OBVIOUS
<1>1. CASE GetLoad(t)
  <2>1. CASE NeedsReload(op[t].f, item[t])
    <3>1. /\ pc[t] = "get_load"
          /\ ReadOnly
          /\ UNCHANGED <<pd, dr, op>>
          /\ Starts(t, item[t], "strong", "jan_lock")
          /\ jn'[t].ret = "get_done"
      BY <1>k, <1>1, <2>1, GetLoadEffect
    <3> QED BY <1>k, <1>r, <1>s, <2>1, <3>1, SMTT(30) DEF Starts, ReadOnly, Live, Quiet,
     KeepsNext, KeepsLocks, KeepsPtrs, Janitoring, Knows, Frames, NewNode, Linking, Shape,
     Continues, locals, client, heap
  <2>2. CASE ~NeedsReload(op[t].f, item[t])
    <3>1. /\ pc[t] = "get_load"
          /\ ReadOnly
          /\ UNCHANGED <<pd, dr, op>>
          /\ pc'[t] = AfterReload(op[t].f)
          /\ UNCHANGED <<item, av, jn>>
      BY <1>k, <1>1, <2>2, GetLoadEffect
    <3> QED BY <1>k, <1>r, <1>s, <2>2, <3>1, SMTT(30) DEF Starts, ReadOnly, AfterReload, Live,
     Quiet, KeepsNext, KeepsLocks, KeepsPtrs, Janitoring, Knows, Frames, NewNode, Linking,
     Shape, Continues, locals, client, heap
  <2> QED BY <2>1, <2>2
<1>2. CASE GetDone(t)
  <2>1. CASE jn[t].rerun
    <3>1. /\ pc[t] = "get_done"
          /\ ReadOnly
          /\ UNCHANGED <<pd, jn, dr, op>>
          /\ Starts(t, item[t], "strong", "jan_lock")
      BY <1>k, <1>2, <2>1, GetDoneEffect
    <3> QED BY <1>k, <1>r, <1>s, <2>1, <3>1, SMTT(30) DEF Starts, ReadOnly, Live, Quiet,
     KeepsNext, KeepsLocks, KeepsPtrs, Janitoring, Knows, Frames, NewNode, Linking, Shape,
     Continues, locals, client, heap
  <2>2. CASE ~jn[t].rerun
    <3>1. /\ pc[t] = "get_done"
          /\ ReadOnly
          /\ UNCHANGED <<pd, jn, dr, op>>
          /\ pc'[t] = AfterReload(op[t].f)
          /\ UNCHANGED <<item, av>>
      BY <1>k, <1>2, <2>2, GetDoneEffect
    <3> QED BY <1>k, <1>r, <1>s, <2>2, <3>1, SMTT(30) DEF Starts, ReadOnly, AfterReload, Live,
     Quiet, KeepsNext, KeepsLocks, KeepsPtrs, Janitoring, Knows, Frames, NewNode, Linking,
     Shape, Continues, locals, client, heap
  <2> QED BY <2>1, <2>2
<1>3. CASE TryGetMutWeak(t)
  BY <1>k, <1>r, <1>s, <1>3, SMTT(30) DEF TryGetMutWeak, Goto, ReadOnly, Live, Quiet, KeepsNext,
     KeepsLocks, KeepsPtrs, Janitoring, Knows, Frames, NewNode, Linking, Shape, Continues,
     locals, client, heap
<1>4. CASE TryGetMutStrong(t)
  BY <1>k, <1>r, <1>s, <1>4, SMTT(30) DEF TryGetMutStrong, Goto, ReadOnly, Live, Quiet,
     KeepsNext, KeepsLocks, KeepsPtrs, Janitoring, Knows, Frames, NewNode, Linking, Shape,
     Continues, locals, client, heap
<1>5. CASE TryGetMutAgain(t)
  BY <1>k, <1>r, <1>s, <1>5, SMTT(30) DEF TryGetMutAgain, Goto, ReadOnly, Live, Quiet,
     KeepsNext, KeepsLocks, KeepsPtrs, Janitoring, Knows, Frames, NewNode, Linking, Shape,
     Continues, locals, client, heap
<1>6. CASE SharedGetLoad(t)
  <2>1. CASE HasNext(Base(t))
    BY <1>k, <1>r, <1>s, <1>6, <2>1, SMTT(30) DEF SharedGetLoad, Goto, ReadOnly, Live, Quiet,
     KeepsNext, KeepsLocks, KeepsPtrs, Janitoring, Knows, Frames, NewNode, Linking, Shape,
     Continues, locals, client, heap
  <2>2. CASE ~HasNext(Base(t))
    BY <1>k, <1>r, <1>s, <1>6, <2>2, SMTT(30) DEF SharedGetLoad, Goto, ReadOnly, Live, Quiet,
     KeepsNext, KeepsLocks, KeepsPtrs, Janitoring, Knows, Frames, NewNode, Linking, Shape,
     Continues, locals, client, heap
  <2> QED BY <2>1, <2>2
<1>7. CASE SharedGetInc(t)
  BY <1>k, <1>r, <1>s, <1>7, SMTT(30) DEF SharedGetInc, Goto, OnlyAdv, Live, Quiet, KeepsNext,
     KeepsLocks, KeepsPtrs, Janitoring, Knows, Frames, NewNode, Linking, Shape, Continues,
     locals, client, heap
<1>8. CASE SharedGetNext(t)
  BY <1>k, <1>r, <1>s, <1>8, SMTT(30) DEF SharedGetNext, Goto, ReadOnly, Live, Quiet, KeepsNext,
     KeepsLocks, KeepsPtrs, Janitoring, Knows, Frames, NewNode, Linking, Shape, Continues,
     locals, client, heap
<1>9. CASE SharedGetStrong(t)
  BY <1>k, <1>r, <1>s, <1>9, SMTT(30) DEF SharedGetStrong, Goto, ReadOnly, Live, Quiet,
     KeepsNext, KeepsLocks, KeepsPtrs, Janitoring, Knows, Frames, NewNode, Linking, Shape,
     Continues, locals, client, heap
<1>10. CASE SharedGetCas(t)
  <2>1. CASE strong[op[t].nxt] = op[t].cs
    BY <1>k, <1>r, <1>s, <1>10, <2>1, SMTT(30) DEF SharedGetCas, AddStrong, Goto, OnlyStrong,
     Live, Quiet, KeepsNext, KeepsLocks, KeepsPtrs, Janitoring, Knows, Frames, NewNode, Linking,
     Shape, Continues, locals, client, heap
  <2>2. CASE strong[op[t].nxt] # op[t].cs
    BY <1>k, <1>r, <1>s, <1>10, <2>2, SMTT(30) DEF SharedGetCas, AddStrong, Goto, OnlyStrong,
     Live, Quiet, KeepsNext, KeepsLocks, KeepsPtrs, Janitoring, Knows, Frames, NewNode, Linking,
     Shape, Continues, locals, client, heap
  <2> QED BY <2>1, <2>2
<1>11. CASE SharedGetRecheck(t)
  <2>1. CASE HasNext(op[t].nxt)
    <3>1. /\ pc[t] = "sg_recheck"
          /\ ReadOnly
          /\ UNCHANGED <<pd, jn, op>>
          /\ Starts(t, op[t].nxt, "strong", "ds_dec")
          /\ dr'[t] = [IdleDrop EXCEPT !.ret = "sg_dec"]
      BY <1>k, <1>11, <2>1, SharedGetRecheckEffect
    <3> QED BY <1>k, <1>r, <1>s, <2>1, <3>1, SMTT(30) DEF Starts, ReadOnly, IdleDrop, Live,
     Quiet, KeepsNext, KeepsLocks, KeepsPtrs, Janitoring, Knows, Frames, NewNode, Linking,
     Shape, Continues, locals, client, heap
  <2>2. CASE ~HasNext(op[t].nxt)
    <3>1. /\ pc[t] = "sg_recheck"
          /\ ReadOnly
          /\ UNCHANGED <<pd, jn, op>>
          /\ pc'[t] = "sg_light"
          /\ UNCHANGED <<item, av, dr>>
      BY <1>k, <1>11, <2>2, SharedGetRecheckEffect
    <3> QED BY <1>k, <1>r, <1>s, <2>2, <3>1, SMTT(30) DEF Starts, ReadOnly, Live, Quiet,
     KeepsNext, KeepsLocks, KeepsPtrs, Janitoring, Knows, Frames, NewNode, Linking, Shape,
     Continues, locals, client, heap
  <2> QED BY <2>1, <2>2
<1>12. CASE SharedGetLight(t)
  BY <1>k, <1>r, <1>s, <1>12, SMTT(30) DEF SharedGetLight, Goto, OnlyAdv, Live, Quiet,
     KeepsNext, KeepsLocks, KeepsPtrs, Janitoring, Knows, Frames, NewNode, Linking, Shape,
     Continues, locals, client, heap
<1>13. CASE SharedGetDec(t)
  BY <1>k, <1>r, <1>s, <1>13, SMTT(30) DEF SharedGetDec, Goto, OnlyAdv, Live, Quiet, KeepsNext,
     KeepsLocks, KeepsPtrs, Janitoring, Knows, Frames, NewNode, Linking, Shape, Continues,
     locals, client, heap
<1>14. CASE SharedGetClone(t)
  <2>1. /\ pc[t] = "sg_clone"
        /\ AddStrong(Base(t))
        /\ OnlyStrong
        /\ UNCHANGED <<pd, jn, dr>>
        /\ Starts(t, Base(t), "strong", "reading")
        /\ op'[t] = [op[t] EXCEPT !.guard = "full"]
    BY <1>k, <1>14, SharedGetCloneEffect
  <2> QED BY <1>k, <1>r, <1>s, <2>1, SMTT(30) DEF Starts, AddStrong, OnlyStrong, Live, Quiet,
     KeepsNext, KeepsLocks, KeepsPtrs, Janitoring, Knows, Frames, NewNode, Linking, Shape,
     Continues, locals, client, heap
<1>15. CASE FinishReading(t)
  <2>1. CASE op[t].guard \in {"light", "full"}
    <3>1. /\ pc[t] \in {"reading", "mutref"}
          /\ ReadOnly
          /\ UNCHANGED <<pd, jn, op>>
          /\ Starts(t, item[t], "strong", "ds_dec")
          /\ dr'[t] = [IdleDrop EXCEPT !.ret = "ret"]
      BY <1>k, <1>15, <2>1, FinishReadingEffect
    <3> QED BY <1>k, <1>r, <1>s, <2>1, <3>1, SMTT(30) DEF Starts, ReadOnly, IdleDrop, Live,
     Quiet, KeepsNext, KeepsLocks, KeepsPtrs, Janitoring, Knows, Frames, NewNode, Linking,
     Shape, Continues, locals, client, heap
  <2>2. CASE op[t].guard \notin {"light", "full"}
    <3>1. /\ pc[t] \in {"reading", "mutref"}
          /\ ReadOnly
          /\ UNCHANGED <<pd, jn, op>>
          /\ pc'[t] = "ret"
          /\ UNCHANGED <<item, av, dr>>
      BY <1>k, <1>15, <2>2, FinishReadingEffect
    <3> QED BY <1>k, <1>r, <1>s, <2>2, <3>1, SMTT(30) DEF Starts, ReadOnly, Live, Quiet,
     KeepsNext, KeepsLocks, KeepsPtrs, Janitoring, Knows, Frames, NewNode, Linking, Shape,
     Continues, locals, client, heap
  <2> QED BY <2>1, <2>2
<1>16. CASE Return(t)
  BY <1>k, <1>r, <1>s, <1>16, SMTT(30) DEF Return, Goto, Live, Quiet, KeepsNext, KeepsLocks,
     KeepsPtrs, Janitoring, Knows, Frames, NewNode, Linking, Shape, Continues, locals, client,
     heap
<1> QED BY <1>1, <1>2, <1>3, <1>4, <1>5, <1>6, <1>7, <1>8, <1>9, <1>10, <1>11, <1>12, <1>13,
  <1>14, <1>15, <1>16 DEF ApiStep

(* The beginning of a call leaves the list alone.                           *)
LEMMA CallQuiet ==
  ASSUME OrderInv, NEW t \in Threads, Shape(t), Call(t)
  PROVE  Quiet(t)
<1>k. TypeOK /\ Knows(pc[t], item[t], av[t], pd[t], jn[t], op[t])
  BY RegistersTyped DEF OrderInv
<1>r. /\ pc \in [Threads -> Labels] /\ item \in [Threads -> Nodes] /\ av \in [Threads -> AdvanceFrames]
      /\ pd \in [Threads -> PayloadFrames] /\ jn \in [Threads -> JanitorFrames]
      /\ dr \in [Threads -> DropFrames] /\ op \in [Threads -> CallFrames]
      /\ strong \in [Nodes -> 0..UsizeMax] /\ UsizeMax \in Nat /\ weak \in [Nodes -> WeakWords]
      /\ mem \in [Nodes -> {"unused", "private", "live", "freed"}] /\ prev \in [Nodes -> Ptrs]
      /\ stamp \in [Nodes -> Nat] /\ next \in [Nodes -> NextWords] /\ adv \in [Nodes -> Int]
      /\ handle \in [Handles -> HandleStates]
  BY HeapAssumption DEF OrderInv, TypeOK
<1>1. ASSUME NEW h \in Handles, NEW o \in Handles, Clone(t, h, o)
      PROVE  Quiet(t)
  <2>1. /\ Entered(t, "clone", h, o, Null)
        /\ handle[h].kind = "strong"
        /\ handle[o].kind = "none"
        /\ handle' = [handle EXCEPT ![o] = Busy]
        /\ AddStrong(handle[h].node)
        /\ Starts(t, handle[h].node, "strong", "ret")
        /\ UNCHANGED <<next, prev, weak, adv, mem, drops, jn, dr>>
    BY <1>k, <1>1, CloneEffect
  <2> QED BY <1>k, <1>r, <2>1, SMTT(30) DEF Entered, Starts, Busy, AddStrong, Live, Quiet,
     KeepsNext, KeepsLocks, KeepsPtrs, Janitoring, locals, client, heap
<1>2. ASSUME NEW f, NEW h \in Handles, NEW o \in Handles, CloneWeak(t, f, h, o)
      PROVE  Quiet(t)
  <2>1. /\ pc[t] = "idle"
        /\ handle[h].kind = IF f = "downgrade" THEN "strong" ELSE "weak"
        /\ handle[o].kind = "none"
        /\ handle' = [handle EXCEPT ![o] = [kind |-> "weak", node |-> handle[h].node]]
        /\ AddWeak(handle[h].node)
        /\ UNCHANGED <<next, prev, strong, adv, mem, drops, stamp, count, pc, locals>>
    BY <1>k, <1>2, CloneWeakEffect
  <2> QED BY <1>k, <1>r, <2>1, SMTT(30) DEF Entered, Starts, AddWeak, Live, Quiet, KeepsNext,
     KeepsLocks, KeepsPtrs, Janitoring, locals, client, heap
<1>3. ASSUME NEW h \in Handles, NEW o \in Handles, Upgrade(t, h, o)
      PROVE  Quiet(t)
  <2>1. /\ Entered(t, "upgrade", h, o, Null)
        /\ handle[h].kind = "weak"
        /\ handle[o].kind = "none"
        /\ handle' = [handle EXCEPT ![o] = Busy]
        /\ AddWeak(handle[h].node)
        /\ Starts(t, handle[h].node, "weak", "upg_strong")
        /\ UNCHANGED <<next, prev, strong, adv, mem, drops, jn, dr>>
    BY <1>k, <1>3, UpgradeEffect
  <2> QED BY <1>k, <1>r, <2>1, SMTT(30) DEF Entered, Starts, Busy, AddWeak, Live, Quiet,
     KeepsNext, KeepsLocks, KeepsPtrs, Janitoring, locals, client, heap
<1>4. ASSUME NEW h \in Handles, Update(t, h)
      PROVE  Quiet(t)
  <2>1. /\ Unused # {}
        /\ Entered(t, "update", h, h, FreshNode)
        /\ handle[h].kind = "strong"
        /\ \A u \in Threads : pc[u] # "idle" => op[u].hnd # h
        /\ handle' = [handle EXCEPT ![h] = Busy]
        /\ NewHolder(FreshNode, handle[h].node)
        /\ Starts(t, handle[h].node, "strong", "upd_next")
        /\ UNCHANGED <<next, adv, drops, jn, dr>>
    BY <1>k, <1>4, UpdateEffect
  <2>2. FreshNode \in Nodes /\ mem[FreshNode] = "unused" /\ ~Published(FreshNode)
    BY <2>1, FreshIsUnused
  <2> QED BY <1>k, <1>r, <2>1, <2>2, SMTT(30) DEF Entered, Starts, Busy, NewHolder, Live, Quiet,
     KeepsNext, KeepsLocks, KeepsPtrs, Janitoring, locals, client, heap
<1>5. ASSUME NEW h \in Handles, Rcu(t, h)
      PROVE  Quiet(t)
  <2>1. /\ Entered(t, "rcu", h, h, Null)
        /\ handle[h].kind = "strong"
        /\ \A u \in Threads : pc[u] # "idle" => op[u].hnd # h
        /\ handle' = [handle EXCEPT ![h] = Busy]
        /\ Starts(t, handle[h].node, "strong", "upd_next")
        /\ UNCHANGED <<heap, jn, dr>>
    BY <1>k, <1>5, RcuEffect
  <2> QED BY <1>k, <1>r, <2>1, SMTT(30) DEF Entered, Starts, Busy, Live, Quiet, KeepsNext,
     KeepsLocks, KeepsPtrs, Janitoring, locals, client, heap
<1>6. ASSUME NEW f, NEW h \in Handles, DropShift(t, f, h)
      PROVE  Quiet(t)
  <2>1. /\ f \in {"drop", "intoInner"}
        /\ Entered(t, f, h, h, Null)
        /\ handle[h].kind = "strong"
        /\ \A u \in Threads : pc[u] # "idle" => op[u].hnd # h
        /\ handle' = [handle EXCEPT ![h] = Busy]
        /\ Starts(t, handle[h].node, "strong", "ds_dec")
        /\ dr'[t] = [IdleDrop EXCEPT !.ret = "ret"]
        /\ UNCHANGED <<heap, jn>>
    BY <1>k, <1>6, DropShiftEffect
  <2> QED BY <1>k, <1>r, <2>1, SMTT(30) DEF Entered, Starts, Busy, IdleDrop, Live, Quiet,
     KeepsNext, KeepsLocks, KeepsPtrs, Janitoring, locals, client, heap
<1>7. ASSUME NEW h \in Handles, DropShiftWeak(t, h)
      PROVE  Quiet(t)
  <2>1. /\ Entered(t, "dropWeak", h, h, Null)
        /\ handle[h].kind = "weak"
        /\ \A u \in Threads : pc[u] # "idle" => op[u].hnd # h
        /\ handle' = [handle EXCEPT ![h] = Busy]
        /\ Starts(t, handle[h].node, "weak", "jan_lock")
        /\ jn'[t] = [IdleJanitor EXCEPT !.ret = "dw_weak"]
        /\ dr'[t] = [IdleDrop EXCEPT !.ret = "ret"]
        /\ UNCHANGED heap
    BY <1>k, <1>7, DropShiftWeakEffect
  <2> QED BY <1>k, <1>r, <2>1, SMTT(30) DEF Entered, Starts, Busy, IdleJanitor, IdleDrop, Live,
     Quiet, KeepsNext, KeepsLocks, KeepsPtrs, Janitoring, locals, client, heap
<1>8. ASSUME NEW f, NEW h \in Handles, Reload(t, f, h)
      PROVE  Quiet(t)
  <2>1. /\ f \in {"get", "reload", "tryGetMut"}
        /\ Entered(t, f, h, h, Null)
        /\ handle[h].kind = "strong"
        /\ \A u \in Threads : pc[u] # "idle" => op[u].hnd # h
        /\ handle' = [handle EXCEPT ![h] = Busy]
        /\ item'[t] = handle[h].node
        /\ pc'[t] = "get_load"
        /\ UNCHANGED <<heap, av, jn, dr>>
    BY <1>k, <1>8, ReloadEffect
  <2> QED BY <1>k, <1>r, <2>1, SMTT(30) DEF Entered, Starts, Busy, Live, Quiet, KeepsNext,
     KeepsLocks, KeepsPtrs, Janitoring, locals, client, heap
<1>9. ASSUME NEW h \in Handles, SharedGet(t, h)
      PROVE  Quiet(t)
  <2>1. /\ Entered(t, "sharedGet", h, h, Null)
        /\ handle[h].kind = "strong"
        /\ pc'[t] = "sg_load"
        /\ UNCHANGED <<heap, handle, item, av, jn, dr>>
    BY <1>k, <1>9, SharedGetEffect
  <2> QED BY <1>k, <1>r, <2>1, SMTT(30) DEF Entered, Starts, Live, Quiet, KeepsNext, KeepsLocks,
     KeepsPtrs, Janitoring, locals, client, heap
<1> QED BY <1>1, <1>2, <1>3, <1>4, <1>5, <1>6, <1>7, <1>8, <1>9 DEF Call

(* An update that finds its node no longer the newest leaves the list alone. *)
LEMMA UpdateCasQuiet ==
  ASSUME OrderInv, NEW t \in Threads, UpdateCas(t), ~CanLink(item[t], op[t].nw)
  PROVE  Quiet(t)
<1>1. TypeOK
  BY DEF OrderInv
<1> QED BY <1>1 DEF TypeOK, UpdateCas, Goto, Quiet, KeepsNext, KeepsLocks, KeepsPtrs, Janitoring

(* What a successful update does: val becomes the rightmost node.           *)
Links(t, i, v) ==
  /\ v \in Nodes /\ mem[v] = "private" /\ ~Published(v) /\ prev[v] = i /\ next[i].ptr = Null
  /\ i \in Nodes /\ Published(i) /\ stamp[i] = count
  /\ mem' = [mem EXCEPT ![v] = "live"] /\ stamp' = [stamp EXCEPT ![v] = count + 1] /\ count' = count + 1
  /\ \A n \in Nodes : next'[n].ptr = (IF n = i THEN v ELSE next[n].ptr) /\ next'[n].locked = next[n].locked
  /\ pc[t] = "upd_cas" /\ pc'[t] = "upd_mark"
  /\ UNCHANGED <<prev, strong, weak, adv, drops, handle, left, locals>>

(* The compare-and-swap of an update appends its node to the newest one.   *)
LEMMA UpdateLinks ==
  ASSUME OrderInv, NEW t \in Threads, UpdateCas(t), CanLink(item[t], op[t].nw)
  PROVE  Links(t, item[t], op[t].val)
<1>1. TypeOK /\ ChainOrdered /\ Knows(pc[t], item[t], av[t], pd[t], jn[t], op[t])
  BY RegistersTyped DEF OrderInv
<1>2. /\ pc[t] = "upd_cas" /\ pc'[t] = "upd_mark" /\ next' = [next EXCEPT ![item[t]].ptr = op[t].val]
      /\ mem' = [mem EXCEPT ![op[t].val] = "live"] /\ stamp' = [stamp EXCEPT ![op[t].val] = count + 1]
      /\ count' = count + 1 /\ next[item[t]] = op[t].nw
      /\ UNCHANGED <<prev, strong, weak, adv, drops, handle, left, locals>>
  BY <1>1 DEF TypeOK, UpdateCas, CanLink, SetNext, Publish, Goto
<1>3. /\ op[t].val # Null /\ mem[op[t].val] = "private" /\ prev[op[t].val] = item[t] /\ op[t].nw.ptr = Null
      /\ Published(item[t])
  BY <1>1, <1>2 DEF Knows, NewNode, OnChain, Linking
<1>4. op[t].val \in Nodes /\ item[t] \in Nodes /\ ~Published(op[t].val)
  <2>1. op[t].val \in Ptrs /\ item[t] \in Nodes
    BY <1>1 DEF TypeOK, CallFrames
  <2>2. op[t].val \in Nodes
    BY <2>1, <1>3 DEF Ptrs
  <2> QED BY <1>1, <1>3, <2>1, <2>2 DEF ChainOrdered
<1>5. stamp[item[t]] = count
  BY <1>1, <1>2, <1>3, <1>4 DEF ChainOrdered, HasNext
<1>6. ASSUME NEW n \in Nodes
      PROVE  next'[n].ptr = (IF n = item[t] THEN op[t].val ELSE next[n].ptr) /\ next'[n].locked = next[n].locked
  <2>1. next'[n] = IF n = item[t] THEN [next[n] EXCEPT !.ptr = op[t].val] ELSE next[n]
    BY <1>1, <1>2 DEF TypeOK
  <2>2. next[n] \in NextWords
    BY <1>1 DEF TypeOK
  <2> QED BY <2>1, <2>2 DEF NextWords
<1> QED BY <1>2, <1>3, <1>4, <1>5, <1>6 DEF Links

(* An appended node extends the list, and no janitor notices.              *)
LEMMA LinkingKeepsList ==
  ASSUME ListInv, RedirectsHold, TypeOK', NEW t \in Threads, \A u \in Threads \ {t} : Still(u),
         NEW i, NEW v, Links(t, i, v), Live(i)
  PROVE  Listed' /\ LocksHeld' /\ RedirectsHold' /\ \A u \in Threads : JanitorKnows(u)'
<1>0. /\ TypeOK /\ jn \in [Threads -> JanitorFrames] /\ item \in [Threads -> Nodes]
      /\ mem \in [Nodes -> {"unused", "private", "live", "freed"}] /\ stamp \in [Nodes -> Nat] /\ count \in Nat
      /\ prev \in [Nodes -> Ptrs] /\ \A n \in Nodes : n # Null
      /\ \A n \in Nodes : stamp[n] <= count
  BY Line DEF ListInv, OrderInv, TypeOK, ChainOrdered
<1>1. /\ v \in Nodes /\ ~Live(v) /\ mem[v] # "freed" /\ stamp[v] = 0 /\ prev[v] = i /\ next[i].ptr = Null
      /\ i \in Nodes /\ stamp[i] = count /\ count > 0
      /\ \A n \in Nodes : stamp'[n] = IF n = v THEN count + 1 ELSE stamp[n]
      /\ \A n \in Nodes : Live(n)' <=> Live(n) \/ n = v
      /\ \A n \in Nodes : mem[n] = "freed" => mem'[n] = "freed"
      /\ \A n \in Nodes : next'[n].ptr = (IF n = i THEN v ELSE next[n].ptr) /\ next'[n].locked = next[n].locked
      /\ pc[t] = "upd_cas" /\ pc'[t] = "upd_mark" /\ prev' = prev /\ jn' = jn /\ item' = item
  BY <1>0 DEF Links, Published, Live, locals
<1>2. ASSUME NEW m \in Nodes \ {v}, NEW n \in Nodes
      PROVE  Before(m, n)' <=> Before(m, n) \/ n = v
  BY <1>0, <1>1, <1>2 DEF Before
<1>b. ASSUME NEW n \in Nodes
      PROVE  ~Before(v, n)'
  BY <1>0, <1>1 DEF Before
<1>3. ASSUME NEW m \in Nodes, Before(m, v)
      PROVE  FALSE
  BY <1>0, <1>1, <1>3 DEF Before
<1>p. \A n \in Nodes : Live(n) => n # v /\ Published(n)
  BY <1>1 DEF ListInv, Listed
<1>j. ASSUME NEW u \in Threads
      PROVE  /\ item[u] \in Nodes \ {v} /\ jn[u] \in JanitorFrames
             /\ JanitorKnows(u) /\ JanitorOrdered(pc[u], item[u], jn[u])
             /\ pc'[u] = pc[u] \/ (pc[u] = "upd_cas" /\ pc'[u] = "upd_mark")
  <2>1. Knows(pc[u], item[u], av[u], pd[u], jn[u], op[u])
    BY RegistersTyped DEF ListInv
  <2> QED BY <1>0, <1>1, <2>1 DEF Knows, OnChain, Published, ListInv, Collecting, Still
<1>7. ASSUME NEW u \in Threads
      PROVE  JanitorKnows(u)'
  <2>1. CASE u = t
    BY <1>1, <2>1 DEF JanitorKnows, Redirecting, Freeing
  <2>2. CASE u # t
    <3>1. Still(u)
      BY <2>2
    <3>2. /\ jn[u].cur \in Ptrs /\ jn[u].cand \in Ptrs /\ jn[u].prv \in Ptrs /\ jn[u].fail \in Ptrs
          /\ jn[u].rdel \in Ptrs /\ jn[u].right \in Ptrs /\ jn[u].carry \in Ptrs /\ jn[u].del \in Ptrs
      BY <1>j DEF JanitorFrames
    <3>3. ASSUME pc[u] \in {"jan_del", "jan_free", "jan_clearprev", "jan_unlink"}, Adjacent(jn[u].right, jn[u].del)
          PROVE  Adjacent(jn[u].right, jn[u].del)'
      <4>1. jn[u].right \in Nodes \ {v} /\ jn[u].del \in Ptrs /\ jn[u].del # v
        BY <1>0, <1>1, <1>j, <1>p, <3>2, <3>3 DEF Adjacent, JanitorKnows, Freeing, Ptrs
      <4>2. jn'[u].right = jn[u].right /\ jn'[u].del = jn[u].del
        BY <1>1
      <4> QED BY <1>1, <1>2, <1>b, <1>3, <3>3, <4>1, <4>2 DEF Adjacent, Ptrs
    <3>4. /\ JanitorKnows(u) /\ pc'[u] = pc[u] /\ jn'[u] = jn[u] /\ item'[u] = item[u] /\ item[u] \in Nodes \ {v}
      BY <1>j, <3>1 DEF Still
    <3>5. CASE pc[u] = "jan_sweep"
      <4>1. \A x \in Nodes : x = v => /\ ~Live(x) /\ mem[x] # "freed" /\ stamp[x] = 0
        BY <1>1
      <4>2. jn[u].cur \in Nodes \ {v} /\ jn[u].cand \in Nodes \ {v} /\ Live(jn[u].cur) /\ Live(jn[u].cand)
        BY <1>j, <1>p, <3>2, <3>5 DEF JanitorOrdered, Older, Redirecting, JanitorKnows, Ptrs
      <4>3. pc[u] \in Redirecting /\ jn[u].rdel # Null => jn[u].rdel \in Nodes \ {v}
        <5>1. ASSUME pc[u] \in Redirecting, jn[u].rdel # Null
              PROVE  jn[u].rdel \in Nodes /\ Before(jn[u].cur, jn[u].rdel)
          BY <3>2, <3>4, <5>1 DEF JanitorKnows, Ptrs
        <5> QED BY <1>3, <4>2, <5>1
      <4>4. Live(jn[u].cur)' /\ Live(jn[u].cand)'
        BY <1>1, <3>4, <4>2 DEF Live
      <4> QED BY <1>1, <1>2, <3>4, <3>5, <4>2, <4>3, <4>4, SMTT(30) DEF JanitorKnows, Redirecting, Freeing
    <3>6. CASE pc[u] \in Redirecting
      <4>1. \A x \in Nodes : x = v => /\ ~Live(x) /\ mem[x] # "freed" /\ stamp[x] = 0
        BY <1>1
      <4>2. jn[u].cur \in Nodes \ {v} /\ jn[u].cand \in Nodes \ {v} /\ Live(jn[u].cur) /\ Live(jn[u].cand)
        BY <1>j, <1>p, <3>2, <3>6 DEF JanitorOrdered, Older, Redirecting, JanitorKnows, Ptrs
      <4>3. pc[u] \in Redirecting /\ jn[u].rdel # Null => jn[u].rdel \in Nodes \ {v}
        <5>1. ASSUME pc[u] \in Redirecting, jn[u].rdel # Null
              PROVE  jn[u].rdel \in Nodes /\ Before(jn[u].cur, jn[u].rdel)
          BY <3>2, <3>4, <5>1 DEF JanitorKnows, Ptrs
        <5> QED BY <1>3, <4>2, <5>1
      <4>4. Live(jn[u].cur)' /\ Live(jn[u].cand)'
        BY <1>1, <3>4, <4>2 DEF Live
      <4> QED BY <1>1, <1>2, <3>4, <3>6, <4>2, <4>3, <4>4, SMTT(30) DEF JanitorKnows, Redirecting, Freeing
    <3>7. CASE pc[u] = "jan_clean"
      <4>1. \A x \in Nodes : x = v => /\ ~Live(x) /\ mem[x] # "freed" /\ stamp[x] = 0
        BY <1>1
      <4> QED BY <1>0, <1>1, <1>2, <1>b, <1>3, <1>p, <3>2, <3>3, <3>4, <3>7, <4>1, SMTT(30) DEF JanitorKnows, Redirecting, Freeing, Ptrs
    <3>8. CASE pc[u] = "jan_final"
      <4>1. \A x \in Nodes : x = v => /\ ~Live(x) /\ mem[x] # "freed" /\ stamp[x] = 0
        BY <1>1
      <4> QED BY <1>0, <1>1, <1>2, <1>b, <1>3, <1>p, <3>2, <3>3, <3>4, <3>8, <4>1, SMTT(30) DEF JanitorKnows, Redirecting, Freeing, Ptrs
    <3>9. CASE pc[u] \in {"jan_del", "jan_free"}
      <4>1. \A x \in Nodes : x = v => /\ ~Live(x) /\ mem[x] # "freed" /\ stamp[x] = 0
        BY <1>1
      <4> QED BY <1>0, <1>1, <1>2, <1>b, <1>3, <1>p, <3>2, <3>3, <3>4, <3>9, <4>1, SMTT(30) DEF JanitorKnows, Redirecting, Freeing, Ptrs
    <3>10. CASE pc[u] \in {"jan_clearprev", "jan_unlink"}
      <4>1. \A x \in Nodes : x = v => /\ ~Live(x) /\ mem[x] # "freed" /\ stamp[x] = 0
        BY <1>1
      <4> QED BY <1>0, <1>1, <1>2, <1>b, <1>3, <1>p, <3>2, <3>3, <3>4, <3>10, <4>1, SMTT(30) DEF JanitorKnows, Redirecting, Freeing, Ptrs
    <3>11. CASE pc[u] = "jan_carry"
      <4>1. \A x \in Nodes : x = v => /\ ~Live(x) /\ mem[x] # "freed" /\ stamp[x] = 0
        BY <1>1
      <4> QED BY <1>0, <1>1, <1>2, <1>b, <1>3, <1>p, <3>2, <3>3, <3>4, <3>11, <4>1, SMTT(30) DEF JanitorKnows, Redirecting, Freeing, Ptrs
    <3>12. CASE pc[u] = "jan_uncarry"
      <4>1. \A x \in Nodes : x = v => /\ ~Live(x) /\ mem[x] # "freed" /\ stamp[x] = 0
        BY <1>1
      <4> QED BY <1>0, <1>1, <1>2, <1>b, <1>3, <1>p, <3>2, <3>3, <3>4, <3>12, <4>1, SMTT(30) DEF JanitorKnows, Redirecting, Freeing, Ptrs
    <3>13. CASE pc[u] \notin {"jan_sweep", "jan_clean"} \cup Redirecting \cup Freeing
      <4>1. \A x \in Nodes : x = v => /\ ~Live(x) /\ mem[x] # "freed" /\ stamp[x] = 0
        BY <1>1
      <4> QED BY <1>0, <1>1, <1>2, <1>b, <1>3, <1>p, <3>2, <3>3, <3>4, <3>13, <4>1, SMTT(30) DEF JanitorKnows, Redirecting, Freeing, Ptrs
    <3> QED BY <3>5, <3>6, <3>7, <3>8, <3>9, <3>10, <3>11, <3>12, <3>13 DEF Freeing
  <2> QED BY <2>1, <2>2
<1>8. ASSUME NEW u \in Threads, NEW n \in Nodes
      PROVE  /\ n # v => (HasLocked(u, n)' <=> HasLocked(u, n))
             /\ ~HasLocked(u, v)'
             /\ Gap(u)' <=> Gap(u)
             /\ n # v => (Redirected(u, n)' <=> Redirected(u, n))
             /\ ~Redirected(u, v)'
  <2>1. /\ jn[u].cur \in Ptrs /\ jn[u].fail \in Ptrs /\ jn[u].right \in Ptrs /\ jn[u].carry \in Ptrs /\ jn[u].del \in Ptrs
        /\ jn[u].prv \in Ptrs /\ JanitorKnows(u) /\ jn'[u] = jn[u] /\ item'[u] = item[u] /\ item[u] \in Nodes \ {v}
    BY <1>1, <1>j DEF JanitorFrames
  <2>2. CASE pc[u] = "upd_cas" /\ pc'[u] = "upd_mark"
    BY <2>2 DEF HasLocked, Gap, Redirected, Redirecting, Freeing, Janitoring
  <2>3. CASE pc'[u] = pc[u]
    <3>1. /\ pc[u] \in {"jan_sweep", "jan_final", "jan_del", "jan_free"} \cup Redirecting => jn[u].cur \in Nodes \ {v}
          /\ pc[u] = "jan_clean" => jn[u].cur \in Nodes /\ jn[u].fail \in Nodes /\ (jn[u].cur = jn[u].fail \/ v \notin {jn[u].cur, jn[u].fail})
          /\ pc[u] \in Freeing => jn[u].carry # v
          /\ pc[u] = "jan_unlink" /\ jn[u].del # Null => jn[u].del \in Nodes \ {v}
          /\ pc[u] = "jan_carry" => jn[u].right \in Nodes \ {v}
          /\ pc[u] = "jan_adv" => jn[u].prv \in Nodes \ {v}
      <4>1. pc[u] \in {"jan_final", "jan_del", "jan_free"} => jn[u].cur # v
        BY <1>1, <1>j DEF JanitorOrdered, Older, Published
      <4>2. pc[u] = "jan_adv" => jn[u].prv \in Nodes \ {v}
        BY <1>1, <1>j, <2>1 DEF JanitorOrdered, Older, Published, Ptrs
      <4> QED BY <1>0, <1>1, <1>p, <2>1, <4>1, <4>2 DEF JanitorKnows, Redirecting, Freeing, Adjacent, Ptrs
    <3>2. n # v => (HasLocked(u, n)' <=> HasLocked(u, n))
      BY <1>2, <1>b, <1>3, <2>1, <2>3, <3>1, SMTT(30) DEF HasLocked
    <3>3. ~HasLocked(u, v)'
      <4>1. \A m \in Nodes \ {v} : Before(m, v)' /\ ~Before(v, m)'
        BY <1>1, <1>2, <1>b
      <4> QED BY <2>1, <2>3, <3>1, <4>1, SMTT(30) DEF HasLocked, Redirecting, Freeing
    <3>4. Gap(u)' <=> Gap(u)
      BY <2>1, <2>3 DEF Gap
    <3>5. n # v => (Redirected(u, n)' <=> Redirected(u, n))
      BY <1>2, <1>b, <1>3, <2>1, <2>3, <3>1, <3>2, SMTT(30) DEF Redirected, Redirecting
    <3>6. ~Redirected(u, v)'
      BY <1>2, <1>b, <2>1, <2>3 DEF Redirected
    <3> QED BY <3>2, <3>3, <3>4, <3>5, <3>6
  <2> QED BY <1>j, <2>2, <2>3
<1>9. Listed'
  <2>1. ASSUME NEW n \in Nodes, Live(n)', \A u \in Threads : ~(Gap(u)' /\ jn'[u].right = n)
        PROVE  Adjacent(n, prev[n])'
    <3>1. CASE n = v
      <4>1. Live(i)' /\ Before(i, v)' /\ prev'[n] = i /\ i # v
        BY <1>1, <1>2, <1>p, <3>1
      <4>2. ASSUME NEW m \in Nodes, Live(m)', Before(m, v)'
            PROVE  ~Before(i, m)'
        <5>1. m # v
          BY <1>b, <4>2
        <5> QED BY <1>0, <1>1, <4>1, <5>1 DEF Before
      <4> QED BY <1>0, <1>1, <3>1, <4>1, <4>2 DEF Adjacent
    <3>2. CASE n # v
      <4>1. Live(n) /\ \A u \in Threads : ~(Gap(u) /\ jn[u].right = n)
        BY <1>1, <1>8, <2>1, <3>2
      <4>2. Adjacent(n, prev[n]) /\ prev[n] \in Ptrs
        BY <1>0, <4>1 DEF ListInv, Listed
      <4>3. prev[n] # Null => prev[n] \in Nodes \ {v} /\ Live(prev[n])
        BY <1>1, <4>2 DEF Adjacent, Ptrs
      <4>4. prev[n] # Null => Live(prev[n])' /\ Before(prev[n], n)'
        BY <1>1, <1>2, <4>2, <4>3 DEF Adjacent
      <4>5. ASSUME NEW m \in Nodes, Live(m)', Before(m, n)'
            PROVE  prev[n] # Null /\ ~Before(prev[n], m)'
        <5>1. m # v /\ Live(m) /\ Before(m, n)
          BY <1>1, <1>2, <1>b, <3>2, <4>5
        <5> QED BY <1>1, <1>2, <1>b, <4>2, <4>3, <5>1 DEF Adjacent
      <4> QED BY <1>1, <4>4, <4>5 DEF Adjacent
    <3> QED BY <3>1, <3>2
  <2>2. ASSUME NEW n \in Nodes, Live(n)', HasNext(n)'
        PROVE  Live(next[n].ptr)'
    <3>1. CASE n = i
      BY <1>1, <3>1 DEF Live
    <3>2. CASE n # i
      <4>1. n # v
        <5>1. Links(t, i, v) /\ ChainOrdered
          BY DEF ListInv, OrderInv
        <5> QED BY <1>1, <2>2, <3>2, <5>1 DEF Links, ChainOrdered, HasNext, Published
      <4>2. Live(n) /\ HasNext(n)
        BY <1>1, <2>2, <3>2, <4>1 DEF HasNext
      <4>3. next[n].ptr \in Nodes /\ Live(next[n].ptr)
        BY <4>2, Line DEF ListInv
      <4> QED BY <1>1, <3>2, <4>3 DEF Live
    <3> QED BY <3>1, <3>2
  <2>3. \A n \in Nodes : Live(n)' => Published(n)'
    BY <1>0, <1>1, <1>p DEF Published
  <2> QED BY <2>1, <2>2, <2>3 DEF Listed
<1>10. LocksHeld'
  BY <1>1, <1>8 DEF ListInv, LocksHeld
<1>11. RedirectsHold'
  <2>1. ASSUME NEW u \in Threads, NEW n \in Nodes, Live(n)', Redirected(u, n)'
        PROVE  ~Before(next[n].ptr, item[u])'
    <3>1. n # v /\ Live(n) /\ Redirected(u, n) /\ item'[u] = item[u] /\ item[u] \in Nodes \ {v}
      BY <1>1, <1>8, <1>j, <2>1
    <3>2. Before(n, item[u]) /\ ~Before(next[n].ptr, item[u])
      BY <3>1, RedirectedLocked DEF RedirectsHold
    <3>3. n # i
      BY <1>0, <1>1, <3>1, <3>2 DEF Before
    <3>4. HasNext(n)
      BY <3>1, <3>2, Line DEF ListInv, Collecting, Redirected, Freeing, Janitoring
    <3>5. next[n].ptr \in Nodes \ {v} /\ next'[n].ptr = next[n].ptr
      BY <1>1, <1>p, <3>1, <3>3, <3>4, Line DEF ListInv
    <3> QED BY <1>1, <1>2, <3>1, <3>2, <3>5
  <2> QED BY <2>1 DEF RedirectsHold
<1> QED BY <1>7, <1>9, <1>10, <1>11

-----------------------------------------------------------------------------
(* Every reference that a call or a handle has is to a live node.          *)

(* What the references of t rely on.                                        *)
Holding(t) ==
  /\ HeldLive(t) /\ HandlesLive
  /\ pc[t] = "adv_weak" => Live(av[t].nxt)
  /\ pc[t] = "sg_cas" => Live(op[t].nxt)

\* the step frees nothing of the list
FreesNone == \A n \in Nodes : mem[n] = "live" => mem'[n] = "live"

(* A step of an advance goes from live nodes to live nodes.*)
LEMMA AdvanceHeld ==
  ASSUME OrderInv, NEW t \in Threads, Shape(t), Holding(t), FreesNone, AdvanceStep(t)
  PROVE  HeldLive(t)' /\ HandlesLive'
<1>k. TypeOK /\ Knows(pc[t], item[t], av[t], pd[t], jn[t], op[t])
  BY RegistersTyped DEF OrderInv
<1>r. /\ pc \in [Threads -> Labels] /\ item \in [Threads -> Nodes] /\ av \in [Threads -> AdvanceFrames]
      /\ pd \in [Threads -> PayloadFrames] /\ jn \in [Threads -> JanitorFrames]
      /\ dr \in [Threads -> DropFrames] /\ op \in [Threads -> CallFrames]
      /\ strong \in [Nodes -> 0..UsizeMax] /\ UsizeMax \in Nat /\ weak \in [Nodes -> WeakWords]
      /\ mem \in [Nodes -> {"unused", "private", "live", "freed"}] /\ prev \in [Nodes -> Ptrs]
      /\ stamp \in [Nodes -> Nat] /\ next \in [Nodes -> NextWords] /\ adv \in [Nodes -> Int]
      /\ handle \in [Handles -> HandleStates]
  BY HeapAssumption DEF OrderInv, TypeOK
<1>s. Shape(t) /\ Holding(t) /\ FreesNone
  OBVIOUS
<1>1. CASE AdvanceLoad(t)
  BY <1>k, <1>r, <1>s, <1>1, SMTT(30) DEF AdvanceLoad, Goto, ReturnAdvance, ReadOnly,
     IdleAdvance, AdvanceFrames, HeldLive, HandlesLive, Holding, FreesNone, StrongOnStart,
     StrongOnItem, StrongOnNew, WeakOnStart, WeakOnItem, WeakForGroup, At, HoldsValue,
     Janitoring, Live, Knows, Frames, NewNode, Linking, HandleKept, OnChain, Shape, Continues,
     DropShape, Updating, Upgrading, Dying, locals, client, heap, CallFrames
<1>2. CASE AdvanceInc(t)
  BY <1>k, <1>r, <1>s, <1>2, SMTT(30) DEF AdvanceInc, Goto, OnlyAdv, HeldLive, HandlesLive,
     Holding, FreesNone, StrongOnStart, StrongOnItem, StrongOnNew, WeakOnStart, WeakOnItem,
     WeakForGroup, At, HoldsValue, Janitoring, Live, Knows, Frames, NewNode, Linking,
     HandleKept, OnChain, Shape, Continues, DropShape, Updating, Upgrading, Dying, locals,
     client, heap, CallFrames
<1>3. CASE AdvanceReload(t)
  BY <1>k, <1>r, <1>s, <1>3, SMTT(30) DEF AdvanceReload, Goto, ReadOnly, HeldLive, HandlesLive,
     Holding, FreesNone, StrongOnStart, StrongOnItem, StrongOnNew, WeakOnStart, WeakOnItem,
     WeakForGroup, At, HoldsValue, Janitoring, Live, Knows, Frames, NewNode, Linking,
     HandleKept, OnChain, Shape, Continues, DropShape, Updating, Upgrading, Dying, locals,
     client, heap, CallFrames
<1>4. CASE AdvanceWeakInc(t)
  BY <1>k, <1>r, <1>s, <1>4, SMTT(30) DEF AdvanceWeakInc, AddWeak, Goto, OnlyWeak, HeldLive,
     HandlesLive, Holding, FreesNone, StrongOnStart, StrongOnItem, StrongOnNew, WeakOnStart,
     WeakOnItem, WeakForGroup, At, HoldsValue, Janitoring, Live, Knows, Frames, NewNode,
     Linking, HandleKept, OnChain, Shape, Continues, DropShape, Updating, Upgrading, Dying,
     locals, client, heap, CallFrames
<1>5. CASE AdvanceDec(t)
  BY <1>k, <1>r, <1>s, <1>5, SMTT(30) DEF AdvanceDec, Goto, OnlyAdv, HeldLive, HandlesLive,
     Holding, FreesNone, StrongOnStart, StrongOnItem, StrongOnNew, WeakOnStart, WeakOnItem,
     WeakForGroup, At, HoldsValue, Janitoring, Live, Knows, Frames, NewNode, Linking,
     HandleKept, OnChain, Shape, Continues, DropShape, Updating, Upgrading, Dying, locals,
     client, heap, CallFrames
<1>6. CASE AdvanceWeakDec(t)
  BY <1>k, <1>r, <1>s, <1>6, SMTT(30) DEF AdvanceWeakDec, SubWeak, Goto, OnlyWeak, HeldLive,
     HandlesLive, Holding, FreesNone, StrongOnStart, StrongOnItem, StrongOnNew, WeakOnStart,
     WeakOnItem, WeakForGroup, At, HoldsValue, Janitoring, Live, Knows, Frames, NewNode,
     Linking, HandleKept, OnChain, Shape, Continues, DropShape, Updating, Upgrading, Dying,
     locals, client, heap, CallFrames
<1>7. CASE WeakLeaveStart(t)
  <2>1. CASE TRUE
    <3>2. CASE av[t].ret = "jan_lock"
      BY <1>k, <1>r, <1>s, <1>7, <2>1, <3>2, SMTT(30) DEF WeakLeaveStart, SubWeak,
     ReturnAdvance, OnlyWeak, Goto, IdleAdvance, AdvanceFrames, HeldLive, HandlesLive, Holding,
     FreesNone, StrongOnStart, StrongOnItem, StrongOnNew, WeakOnStart, WeakOnItem, WeakForGroup,
     At, HoldsValue, Janitoring, Live, Knows, Frames, NewNode, Linking, HandleKept, OnChain,
     Shape, Continues, DropShape, Updating, Upgrading, Dying, locals, client, heap, CallFrames
    <3>3. CASE av[t].ret = "upg_strong"
      BY <1>k, <1>r, <1>s, <1>7, <2>1, <3>3, SMTT(30) DEF WeakLeaveStart, SubWeak,
     ReturnAdvance, OnlyWeak, Goto, IdleAdvance, AdvanceFrames, HeldLive, HandlesLive, Holding,
     FreesNone, StrongOnStart, StrongOnItem, StrongOnNew, WeakOnStart, WeakOnItem, WeakForGroup,
     At, HoldsValue, Janitoring, Live, Knows, Frames, NewNode, Linking, HandleKept, OnChain,
     Shape, Continues, DropShape, Updating, Upgrading, Dying, locals, client, heap, CallFrames
    <3>r. av[t].ret = "jan_lock" \/ av[t].ret = "upg_strong"
      BY <1>s, <1>7, <2>1 DEF Shape, Continues, WeakLeaveStart
    <3> QED BY <3>2, <3>3, <3>r
  <2> QED BY <2>1
<1>8. CASE PayloadMark(t)
  <2>1. CASE pd[t].ret = "advs_a_decw"
    BY <1>k, <1>r, <1>s, <1>8, <2>1, SMTT(30) DEF PayloadMark, Goto, OnlyNext, IdlePayload,
     HeldLive, HandlesLive, Holding, FreesNone, StrongOnStart, StrongOnItem, StrongOnNew,
     WeakOnStart, WeakOnItem, WeakForGroup, At, HoldsValue, Janitoring, Live, Knows, Frames,
     NewNode, Linking, HandleKept, OnChain, Shape, Continues, DropShape, Updating, Upgrading,
     Dying, locals, client, heap, CallFrames, NextWords
  <2>2. CASE pd[t].ret = "dw_cas"
    BY <1>k, <1>r, <1>s, <1>8, <2>2, SMTT(30) DEF PayloadMark, Goto, OnlyNext, IdlePayload,
     HeldLive, HandlesLive, Holding, FreesNone, StrongOnStart, StrongOnItem, StrongOnNew,
     WeakOnStart, WeakOnItem, WeakForGroup, At, HoldsValue, Janitoring, Live, Knows, Frames,
     NewNode, Linking, HandleKept, OnChain, Shape, Continues, DropShape, Updating, Upgrading,
     Dying, locals, client, heap, CallFrames, NextWords
  <2>3. CASE pd[t].ret = "upd_decw"
    BY <1>k, <1>r, <1>s, <1>8, <2>3, SMTT(30) DEF PayloadMark, Goto, OnlyNext, IdlePayload,
     HeldLive, HandlesLive, Holding, FreesNone, StrongOnStart, StrongOnItem, StrongOnNew,
     WeakOnStart, WeakOnItem, WeakForGroup, At, HoldsValue, Janitoring, Live, Knows, Frames,
     NewNode, Linking, HandleKept, OnChain, Shape, Continues, DropShape, Updating, Upgrading,
     Dying, locals, client, heap, CallFrames, NextWords
  <2>r. pd[t].ret \in {"advs_a_decw", "dw_cas", "upd_decw"}
    BY <1>r, <1>s, <1>8 DEF
     PayloadFrames, Shape, PayloadMark
  <2> QED BY <2>1, <2>2, <2>3, <2>r
<1>9. CASE PayloadDrop(t)
  <2>1. CASE pd[t].ret = "advs_a_decw"
    BY <1>k, <1>r, <1>s, <1>9, <2>1, SMTT(30) DEF PayloadDrop, DropPayload, Goto, IdlePayload,
     HeldLive, HandlesLive, Holding, FreesNone, StrongOnStart, StrongOnItem, StrongOnNew,
     WeakOnStart, WeakOnItem, WeakForGroup, At, HoldsValue, Janitoring, Live, Knows, Frames,
     NewNode, Linking, HandleKept, OnChain, Shape, Continues, DropShape, Updating, Upgrading,
     Dying, locals, client, heap, CallFrames
  <2>2. CASE pd[t].ret = "dw_cas"
    BY <1>k, <1>r, <1>s, <1>9, <2>2, SMTT(30) DEF PayloadDrop, DropPayload, Goto, IdlePayload,
     HeldLive, HandlesLive, Holding, FreesNone, StrongOnStart, StrongOnItem, StrongOnNew,
     WeakOnStart, WeakOnItem, WeakForGroup, At, HoldsValue, Janitoring, Live, Knows, Frames,
     NewNode, Linking, HandleKept, OnChain, Shape, Continues, DropShape, Updating, Upgrading,
     Dying, locals, client, heap, CallFrames
  <2>3. CASE pd[t].ret = "upd_decw"
    BY <1>k, <1>r, <1>s, <1>9, <2>3, SMTT(30) DEF PayloadDrop, DropPayload, Goto, IdlePayload,
     HeldLive, HandlesLive, Holding, FreesNone, StrongOnStart, StrongOnItem, StrongOnNew,
     WeakOnStart, WeakOnItem, WeakForGroup, At, HoldsValue, Janitoring, Live, Knows, Frames,
     NewNode, Linking, HandleKept, OnChain, Shape, Continues, DropShape, Updating, Upgrading,
     Dying, locals, client, heap, CallFrames
  <2>r. pd[t].ret \in {"advs_a_decw", "dw_cas", "upd_decw"}
    BY <1>r, <1>s, <1>9 DEF
     PayloadFrames, Shape, PayloadDrop
  <2> QED BY <2>1, <2>2, <2>3, <2>r
<1>10. CASE StrongLoad(t)
  BY <1>k, <1>r, <1>s, <1>10, SMTT(30) DEF StrongLoad, TryStrong, ReadOnly, Goto, IdleAdvance,
     AdvanceFrames, HeldLive, HandlesLive, Holding, FreesNone, StrongOnStart, StrongOnItem,
     StrongOnNew, WeakOnStart, WeakOnItem, WeakForGroup, At, HoldsValue, Janitoring, Live,
     Knows, Frames, NewNode, Linking, HandleKept, OnChain, Shape, Continues, DropShape,
     Updating, Upgrading, Dying, locals, client, heap, CallFrames
<1>11. CASE StrongIncWeak(t)
  BY <1>k, <1>r, <1>s, <1>11, SMTT(30) DEF StrongIncWeak, AddWeak, Goto, OnlyWeak, HeldLive,
     HandlesLive, Holding, FreesNone, StrongOnStart, StrongOnItem, StrongOnNew, WeakOnStart,
     WeakOnItem, WeakForGroup, At, HoldsValue, Janitoring, Live, Knows, Frames, NewNode,
     Linking, HandleKept, OnChain, Shape, Continues, DropShape, Updating, Upgrading, Dying,
     locals, client, heap, CallFrames
<1>12. CASE StrongCas(t)
  <2>1. CASE strong[item[t]] = av[t].cs
    BY <1>k, <1>r, <1>s, <1>12, <2>1, SMTT(30) DEF StrongCas, AddStrong, Goto, TryStrong,
     OnlyStrong, IdleAdvance, AdvanceFrames, HeldLive, HandlesLive, Holding, FreesNone,
     StrongOnStart, StrongOnItem, StrongOnNew, WeakOnStart, WeakOnItem, WeakForGroup, At,
     HoldsValue, Janitoring, Live, Knows, Frames, NewNode, Linking, HandleKept, OnChain, Shape,
     Continues, DropShape, Updating, Upgrading, Dying, locals, client, heap, CallFrames
  <2>2. CASE strong[item[t]] # av[t].cs /\ av[t].cs = 0
    BY <1>k, <1>r, <1>s, <1>12, <2>2, SMTT(30) DEF StrongCas, AddStrong, Goto, TryStrong,
     OnlyStrong, IdleAdvance, AdvanceFrames, HeldLive, HandlesLive, Holding, FreesNone,
     StrongOnStart, StrongOnItem, StrongOnNew, WeakOnStart, WeakOnItem, WeakForGroup, At,
     HoldsValue, Janitoring, Live, Knows, Frames, NewNode, Linking, HandleKept, OnChain, Shape,
     Continues, DropShape, Updating, Upgrading, Dying, locals, client, heap, CallFrames
  <2>3. CASE strong[item[t]] # av[t].cs /\ av[t].cs # 0
    BY <1>k, <1>r, <1>s, <1>12, <2>3, SMTT(30) DEF StrongCas, AddStrong, Goto, TryStrong,
     OnlyStrong, IdleAdvance, AdvanceFrames, HeldLive, HandlesLive, Holding, FreesNone,
     StrongOnStart, StrongOnItem, StrongOnNew, WeakOnStart, WeakOnItem, WeakForGroup, At,
     HoldsValue, Janitoring, Live, Knows, Frames, NewNode, Linking, HandleKept, OnChain, Shape,
     Continues, DropShape, Updating, Upgrading, Dying, locals, client, heap, CallFrames
  <2> QED BY <2>1, <2>2, <2>3
<1>13. CASE StrongRaceDecWeak(t)
  BY <1>k, <1>r, <1>s, <1>13, SMTT(30) DEF StrongRaceDecWeak, SubWeak, TryStrong, OnlyWeak,
     Goto, IdleAdvance, AdvanceFrames, HeldLive, HandlesLive, Holding, FreesNone, StrongOnStart,
     StrongOnItem, StrongOnNew, WeakOnStart, WeakOnItem, WeakForGroup, At, HoldsValue,
     Janitoring, Live, Knows, Frames, NewNode, Linking, HandleKept, OnChain, Shape, Continues,
     DropShape, Updating, Upgrading, Dying, locals, client, heap, CallFrames
<1>14. CASE StrongRecheck(t)
  BY <1>k, <1>r, <1>s, <1>14, SMTT(30) DEF StrongRecheck, Goto, ReadOnly, HeldLive, HandlesLive,
     Holding, FreesNone, StrongOnStart, StrongOnItem, StrongOnNew, WeakOnStart, WeakOnItem,
     WeakForGroup, At, HoldsValue, Janitoring, Live, Knows, Frames, NewNode, Linking,
     HandleKept, OnChain, Shape, Continues, DropShape, Updating, Upgrading, Dying, locals,
     client, heap, CallFrames
<1>15. CASE StrongUndo(t)
  <2>1. CASE LastStrong(item[t])
    BY <1>k, <1>r, <1>s, <1>15, <2>1, SMTT(30) DEF StrongUndo, SubStrong, Goto, RetryAdvance,
     OnlyStrong, IdleAdvance, AdvanceFrames, HeldLive, HandlesLive, Holding, FreesNone,
     StrongOnStart, StrongOnItem, StrongOnNew, WeakOnStart, WeakOnItem, WeakForGroup, At,
     HoldsValue, Janitoring, Live, Knows, Frames, NewNode, Linking, HandleKept, OnChain, Shape,
     Continues, DropShape, Updating, Upgrading, Dying, locals, client, heap, CallFrames
  <2>2. CASE ~LastStrong(item[t])
    BY <1>k, <1>r, <1>s, <1>15, <2>2, SMTT(30) DEF StrongUndo, SubStrong, Goto, RetryAdvance,
     OnlyStrong, IdleAdvance, AdvanceFrames, HeldLive, HandlesLive, Holding, FreesNone,
     StrongOnStart, StrongOnItem, StrongOnNew, WeakOnStart, WeakOnItem, WeakForGroup, At,
     HoldsValue, Janitoring, Live, Knows, Frames, NewNode, Linking, HandleKept, OnChain, Shape,
     Continues, DropShape, Updating, Upgrading, Dying, locals, client, heap, CallFrames
  <2> QED BY <2>1, <2>2
<1>16. CASE StrongUndoDecWeak(t)
  BY <1>k, <1>r, <1>s, <1>16, SMTT(30) DEF StrongUndoDecWeak, SubWeak, RetryAdvance, OnlyWeak,
     Goto, IdleAdvance, AdvanceFrames, HeldLive, HandlesLive, Holding, FreesNone, StrongOnStart,
     StrongOnItem, StrongOnNew, WeakOnStart, WeakOnItem, WeakForGroup, At, HoldsValue,
     Janitoring, Live, Knows, Frames, NewNode, Linking, HandleKept, OnChain, Shape, Continues,
     DropShape, Updating, Upgrading, Dying, locals, client, heap, CallFrames
<1>17. CASE StrongDecWeakB(t)
  BY <1>k, <1>r, <1>s, <1>17, SMTT(30) DEF StrongDecWeakB, SubWeak, Goto, OnlyWeak, HeldLive,
     HandlesLive, Holding, FreesNone, StrongOnStart, StrongOnItem, StrongOnNew, WeakOnStart,
     WeakOnItem, WeakForGroup, At, HoldsValue, Janitoring, Live, Knows, Frames, NewNode,
     Linking, HandleKept, OnChain, Shape, Continues, DropShape, Updating, Upgrading, Dying,
     locals, client, heap, CallFrames
<1>18. CASE StrongLeaveStart(t)
  <2>1. CASE LastStrong(av[t].start)
    BY <1>k, <1>r, <1>s, <1>18, <2>1, SMTT(30) DEF StrongLeaveStart, SubStrong,
     StartPayloadDrop, ReturnAdvance, OnlyStrong, Goto, IdleAdvance, AdvanceFrames, HeldLive,
     HandlesLive, Holding, FreesNone, StrongOnStart, StrongOnItem, StrongOnNew, WeakOnStart,
     WeakOnItem, WeakForGroup, At, HoldsValue, Janitoring, Live, Knows, Frames, NewNode,
     Linking, HandleKept, OnChain, Shape, Continues, DropShape, Updating, Upgrading, Dying,
     locals, client, heap, CallFrames
  <2>2. CASE ~LastStrong(av[t].start)
    <3>2. CASE av[t].ret = "jan_lock"
      BY <1>k, <1>r, <1>s, <1>18, <2>2, <3>2, SMTT(30) DEF StrongLeaveStart, SubStrong,
     StartPayloadDrop, ReturnAdvance, OnlyStrong, Goto, IdleAdvance, AdvanceFrames, HeldLive,
     HandlesLive, Holding, FreesNone, StrongOnStart, StrongOnItem, StrongOnNew, WeakOnStart,
     WeakOnItem, WeakForGroup, At, HoldsValue, Janitoring, Live, Knows, Frames, NewNode,
     Linking, HandleKept, OnChain, Shape, Continues, DropShape, Updating, Upgrading, Dying,
     locals, client, heap, CallFrames
    <3>3. CASE av[t].ret = "ds_dec"
      BY <1>k, <1>r, <1>s, <1>18, <2>2, <3>3, SMTT(30) DEF StrongLeaveStart, SubStrong,
     StartPayloadDrop, ReturnAdvance, OnlyStrong, Goto, IdleAdvance, AdvanceFrames, HeldLive,
     HandlesLive, Holding, FreesNone, StrongOnStart, StrongOnItem, StrongOnNew, WeakOnStart,
     WeakOnItem, WeakForGroup, At, HoldsValue, Janitoring, Live, Knows, Frames, NewNode,
     Linking, HandleKept, OnChain, Shape, Continues, DropShape, Updating, Upgrading, Dying,
     locals, client, heap, CallFrames
    <3>4. CASE av[t].ret = "upd_next"
      BY <1>k, <1>r, <1>s, <1>18, <2>2, <3>4, SMTT(30) DEF StrongLeaveStart, SubStrong,
     StartPayloadDrop, ReturnAdvance, OnlyStrong, Goto, IdleAdvance, AdvanceFrames, HeldLive,
     HandlesLive, Holding, FreesNone, StrongOnStart, StrongOnItem, StrongOnNew, WeakOnStart,
     WeakOnItem, WeakForGroup, At, HoldsValue, Janitoring, Live, Knows, Frames, NewNode,
     Linking, HandleKept, OnChain, Shape, Continues, DropShape, Updating, Upgrading, Dying,
     locals, client, heap, CallFrames
    <3>5. CASE av[t].ret = "reading"
      BY <1>k, <1>r, <1>s, <1>18, <2>2, <3>5, SMTT(30) DEF StrongLeaveStart, SubStrong,
     StartPayloadDrop, ReturnAdvance, OnlyStrong, Goto, IdleAdvance, AdvanceFrames, HeldLive,
     HandlesLive, Holding, FreesNone, StrongOnStart, StrongOnItem, StrongOnNew, WeakOnStart,
     WeakOnItem, WeakForGroup, At, HoldsValue, Janitoring, Live, Knows, Frames, NewNode,
     Linking, HandleKept, OnChain, Shape, Continues, DropShape, Updating, Upgrading, Dying,
     locals, client, heap, CallFrames
    <3>6. CASE av[t].ret = "ret"
      BY <1>k, <1>r, <1>s, <1>18, <2>2, <3>6, SMTT(30) DEF StrongLeaveStart, SubStrong,
     StartPayloadDrop, ReturnAdvance, OnlyStrong, Goto, IdleAdvance, AdvanceFrames, HeldLive,
     HandlesLive, Holding, FreesNone, StrongOnStart, StrongOnItem, StrongOnNew, WeakOnStart,
     WeakOnItem, WeakForGroup, At, HoldsValue, Janitoring, Live, Knows, Frames, NewNode,
     Linking, HandleKept, OnChain, Shape, Continues, DropShape, Updating, Upgrading, Dying,
     locals, client, heap, CallFrames
    <3>r. av[t].ret = "jan_lock" \/ av[t].ret = "ds_dec" \/ av[t].ret = "upd_next" \/ av[t].ret = "reading" \/ av[t].ret = "ret"
      BY <1>s, <1>18, <2>2 DEF Shape, Continues, StrongLeaveStart
    <3> QED BY <3>2, <3>3, <3>4, <3>5, <3>6, <3>r
  <2> QED BY <2>1, <2>2
<1>19. CASE StrongDecWeakA(t)
  BY <1>k, <1>r, <1>s, <1>19, SMTT(30) DEF StrongDecWeakA, SubWeak, ReturnAdvance, OnlyWeak,
     Goto, IdleAdvance, AdvanceFrames, HeldLive, HandlesLive, Holding, FreesNone, StrongOnStart,
     StrongOnItem, StrongOnNew, WeakOnStart, WeakOnItem, WeakForGroup, At, HoldsValue,
     Janitoring, Live, Knows, Frames, NewNode, Linking, HandleKept, OnChain, Shape, Continues,
     DropShape, Updating, Upgrading, Dying, locals, client, heap, CallFrames
<1> QED BY <1>1, <1>2, <1>3, <1>4, <1>5, <1>6, <1>7, <1>8, <1>9, <1>10, <1>11, <1>12, <1>13,
  <1>14, <1>15, <1>16, <1>17, <1>18, <1>19 DEF AdvanceStep

(* A step of a janitor goes from live nodes to live nodes.*)
LEMMA JanitorHeld ==
  ASSUME OrderInv, NEW t \in Threads, Shape(t), Holding(t), FreesNone, JanitorStep(t),
         ~JanitorFree(t)
  PROVE  HeldLive(t)' /\ HandlesLive'
<1>k. TypeOK /\ Knows(pc[t], item[t], av[t], pd[t], jn[t], op[t])
  BY RegistersTyped DEF OrderInv
<1>r. /\ pc \in [Threads -> Labels] /\ item \in [Threads -> Nodes] /\ av \in [Threads -> AdvanceFrames]
      /\ pd \in [Threads -> PayloadFrames] /\ jn \in [Threads -> JanitorFrames]
      /\ dr \in [Threads -> DropFrames] /\ op \in [Threads -> CallFrames]
      /\ strong \in [Nodes -> 0..UsizeMax] /\ UsizeMax \in Nat /\ weak \in [Nodes -> WeakWords]
      /\ mem \in [Nodes -> {"unused", "private", "live", "freed"}] /\ prev \in [Nodes -> Ptrs]
      /\ stamp \in [Nodes -> Nat] /\ next \in [Nodes -> NextWords] /\ adv \in [Nodes -> Int]
      /\ handle \in [Handles -> HandleStates]
  BY HeapAssumption DEF OrderInv, TypeOK
<1>s. Shape(t) /\ Holding(t) /\ FreesNone
  OBVIOUS
<1>1. CASE JanitorLockStart(t)
  <2>1. CASE next[item[t]].locked
    <3>1. /\ pc[t] = "jan_lock"
          /\ OnlyNext
          /\ UNCHANGED <<item, av, pd, dr, op>>
          /\ Disturb(item[t])
          /\ pc'[t] = jn[t].ret
          /\ jn'[t].ret = jn[t].ret /\ ~jn'[t].rerun /\ jn'[t].status = "Indeterminate"
      BY <1>k, <1>1, <2>1, JanitorLockStartEffect
    <3>3. CASE jn[t].ret = "dw_weak"
      BY <1>k, <1>r, <1>s, <2>1, <3>1, <3>3, SMTT(30) DEF Starts, OnlyNext, Disturb, HeldLive,
     HandlesLive, Holding, FreesNone, StrongOnStart, StrongOnItem, StrongOnNew, WeakOnStart,
     WeakOnItem, WeakForGroup, At, HoldsValue, Janitoring, Live, Knows, Frames, NewNode,
     Linking, HandleKept, OnChain, Shape, Continues, DropShape, Updating, Upgrading, Dying,
     locals, client, heap, CallFrames, JanitorFrames
    <3>4. CASE jn[t].ret = "upd_done"
      BY <1>k, <1>r, <1>s, <2>1, <3>1, <3>4, SMTT(30) DEF Starts, OnlyNext, Disturb, HeldLive,
     HandlesLive, Holding, FreesNone, StrongOnStart, StrongOnItem, StrongOnNew, WeakOnStart,
     WeakOnItem, WeakForGroup, At, HoldsValue, Janitoring, Live, Knows, Frames, NewNode,
     Linking, HandleKept, OnChain, Shape, Continues, DropShape, Updating, Upgrading, Dying,
     locals, client, heap, CallFrames, JanitorFrames
    <3>5. CASE jn[t].ret = "get_done"
      BY <1>k, <1>r, <1>s, <2>1, <3>1, <3>5, SMTT(30) DEF Starts, OnlyNext, Disturb, HeldLive,
     HandlesLive, Holding, FreesNone, StrongOnStart, StrongOnItem, StrongOnNew, WeakOnStart,
     WeakOnItem, WeakForGroup, At, HoldsValue, Janitoring, Live, Knows, Frames, NewNode,
     Linking, HandleKept, OnChain, Shape, Continues, DropShape, Updating, Upgrading, Dying,
     locals, client, heap, CallFrames, JanitorFrames
    <3>9. jn[t].ret = "dw_weak" \/ jn[t].ret = "upd_done" \/ jn[t].ret = "get_done"
      BY <1>k, <1>r, <1>s, <3>1, <2>1 DEF DropFrames, Shape, Dying, CallFrames, Continues,
     Janitoring
    <3> QED BY <3>3, <3>4, <3>5, <3>9
  <2>2. CASE ~next[item[t]].locked
    <3>1. /\ pc[t] = "jan_lock"
          /\ OnlyNext
          /\ UNCHANGED <<item, av, pd, dr, op>>
          /\ Lock(item[t])
          /\ pc'[t] = IF prev[item[t]] = Null THEN "jan_unlock" ELSE "jan_sweep"
          /\ jn'[t].ret = jn[t].ret /\ jn'[t].cur = prev[item[t]] /\ jn'[t].cand = prev[item[t]] /\ jn'[t].fail = Null
          /\ jn'[t].rdel = Null /\ jn'[t].right = Null /\ jn'[t].carry = Null /\ jn'[t].del = Null
          /\ ~jn'[t].seen /\ ~jn'[t].rerun
      BY <1>k, <1>1, <2>2, JanitorLockStartEffect
    <3> QED BY <1>k, <1>r, <1>s, <2>2, <3>1, SMTT(30) DEF Starts, OnlyNext, Lock, HeldLive,
     HandlesLive, Holding, FreesNone, StrongOnStart, StrongOnItem, StrongOnNew, WeakOnStart,
     WeakOnItem, WeakForGroup, At, HoldsValue, Janitoring, Live, Knows, Frames, NewNode,
     Linking, HandleKept, OnChain, Shape, Continues, DropShape, Updating, Upgrading, Dying,
     locals, client, heap, CallFrames, JanitorFrames
  <2> QED BY <2>1, <2>2
<1>2. CASE JanitorSweep(t)
  BY <1>k, <1>r, <1>s, <1>2, SMTT(30) DEF JanitorSweep, Janitor, Disturb, Goto, Lock, OnlyNext,
     HeldLive, HandlesLive, Holding, FreesNone, StrongOnStart, StrongOnItem, StrongOnNew,
     WeakOnStart, WeakOnItem, WeakForGroup, At, HoldsValue, Janitoring, Live, Knows, Frames,
     NewNode, Linking, HandleKept, OnChain, Shape, Continues, DropShape, Updating, Upgrading,
     Dying, locals, client, heap, CallFrames, JanitorFrames
<1>3. CASE JanitorCleanup(t)
  BY <1>k, <1>r, <1>s, <1>3, SMTT(30) DEF JanitorCleanup, Janitor, Unlock, Goto, OnlyNext,
     HeldLive, HandlesLive, Holding, FreesNone, StrongOnStart, StrongOnItem, StrongOnNew,
     WeakOnStart, WeakOnItem, WeakForGroup, At, HoldsValue, Janitoring, Live, Knows, Frames,
     NewNode, Linking, HandleKept, OnChain, Shape, Continues, DropShape, Updating, Upgrading,
     Dying, locals, client, heap, CallFrames, JanitorFrames
<1>4. CASE JanitorUnlockStart(t)
  <2>1. /\ pc[t] = "jan_unlock"
        /\ OnlyNext
        /\ UNCHANGED <<item, av, pd, dr, op>>
        /\ Unlock(item[t])
        /\ pc'[t] = jn[t].ret
        /\ jn'[t].ret = jn[t].ret /\ jn'[t].rerun = (jn[t].rerun \/ next[item[t]].disturbed) /\ jn'[t].status = StrongStatus(jn[t])
    BY <1>k, <1>4, JanitorUnlockStartEffect
  <2>3. CASE jn[t].ret = "dw_weak"
    BY <1>k, <1>r, <1>s, <2>1, <2>3, SMTT(30) DEF Starts, OnlyNext, Unlock, HeldLive,
     HandlesLive, Holding, FreesNone, StrongOnStart, StrongOnItem, StrongOnNew, WeakOnStart,
     WeakOnItem, WeakForGroup, At, HoldsValue, Janitoring, Live, Knows, Frames, NewNode,
     Linking, HandleKept, OnChain, Shape, Continues, DropShape, Updating, Upgrading, Dying,
     locals, client, heap, CallFrames, JanitorFrames
  <2>4. CASE jn[t].ret = "upd_done"
    BY <1>k, <1>r, <1>s, <2>1, <2>4, SMTT(30) DEF Starts, OnlyNext, Unlock, HeldLive,
     HandlesLive, Holding, FreesNone, StrongOnStart, StrongOnItem, StrongOnNew, WeakOnStart,
     WeakOnItem, WeakForGroup, At, HoldsValue, Janitoring, Live, Knows, Frames, NewNode,
     Linking, HandleKept, OnChain, Shape, Continues, DropShape, Updating, Upgrading, Dying,
     locals, client, heap, CallFrames, JanitorFrames
  <2>5. CASE jn[t].ret = "get_done"
    BY <1>k, <1>r, <1>s, <2>1, <2>5, SMTT(30) DEF Starts, OnlyNext, Unlock, HeldLive,
     HandlesLive, Holding, FreesNone, StrongOnStart, StrongOnItem, StrongOnNew, WeakOnStart,
     WeakOnItem, WeakForGroup, At, HoldsValue, Janitoring, Live, Knows, Frames, NewNode,
     Linking, HandleKept, OnChain, Shape, Continues, DropShape, Updating, Upgrading, Dying,
     locals, client, heap, CallFrames, JanitorFrames
  <2>9. jn[t].ret = "dw_weak" \/ jn[t].ret = "upd_done" \/ jn[t].ret = "get_done"
    BY <1>k, <1>r, <1>s, <2>1 DEF DropFrames, Shape, Dying, CallFrames, Continues, Janitoring
  <2> QED BY <2>3, <2>4, <2>5, <2>9
<1>5. CASE JanitorStrong(t)
  BY <1>k, <1>r, <1>s, <1>5, SMTT(30) DEF JanitorStrong, Janitor, Goto, ReadOnly, HeldLive,
     HandlesLive, Holding, FreesNone, StrongOnStart, StrongOnItem, StrongOnNew, WeakOnStart,
     WeakOnItem, WeakForGroup, At, HoldsValue, Janitoring, Live, Knows, Frames, NewNode,
     Linking, HandleKept, OnChain, Shape, Continues, DropShape, Updating, Upgrading, Dying,
     locals, client, heap, CallFrames, JanitorFrames
<1>6. CASE JanitorSetNext(t)
  BY <1>k, <1>r, <1>s, <1>6, SMTT(30) DEF JanitorSetNext, Janitor, SetNext, Goto, OnlyNext,
     HeldLive, HandlesLive, Holding, FreesNone, StrongOnStart, StrongOnItem, StrongOnNew,
     WeakOnStart, WeakOnItem, WeakForGroup, At, HoldsValue, Janitoring, Live, Knows, Frames,
     NewNode, Linking, HandleKept, OnChain, Shape, Continues, DropShape, Updating, Upgrading,
     Dying, locals, client, heap, CallFrames, JanitorFrames
<1>7. CASE JanitorCheckAdvance(t)
  BY <1>k, <1>r, <1>s, <1>7, SMTT(30) DEF JanitorCheckAdvance, Janitor, Goto, ReadOnly,
     HeldLive, HandlesLive, Holding, FreesNone, StrongOnStart, StrongOnItem, StrongOnNew,
     WeakOnStart, WeakOnItem, WeakForGroup, At, HoldsValue, Janitoring, Live, Knows, Frames,
     NewNode, Linking, HandleKept, OnChain, Shape, Continues, DropShape, Updating, Upgrading,
     Dying, locals, client, heap, CallFrames, JanitorFrames
<1>8. CASE JanitorFinal(t)
  BY <1>k, <1>r, <1>s, <1>8, SMTT(30) DEF JanitorFinal, Janitor, Goto, ReadOnly, HeldLive,
     HandlesLive, Holding, FreesNone, StrongOnStart, StrongOnItem, StrongOnNew, WeakOnStart,
     WeakOnItem, WeakForGroup, At, HoldsValue, Janitoring, Live, Knows, Frames, NewNode,
     Linking, HandleKept, OnChain, Shape, Continues, DropShape, Updating, Upgrading, Dying,
     locals, client, heap, CallFrames, JanitorFrames
<1>9. CASE JanitorDelete(t)
  BY <1>k, <1>r, <1>s, <1>9, SMTT(30) DEF JanitorDelete, Janitor, Goto, ReadOnly, HeldLive,
     HandlesLive, Holding, FreesNone, StrongOnStart, StrongOnItem, StrongOnNew, WeakOnStart,
     WeakOnItem, WeakForGroup, At, HoldsValue, Janitoring, Live, Knows, Frames, NewNode,
     Linking, HandleKept, OnChain, Shape, Continues, DropShape, Updating, Upgrading, Dying,
     locals, client, heap, CallFrames, JanitorFrames
<1>11. CASE JanitorClearPrev(t)
  BY <1>k, <1>r, <1>s, <1>11, SMTT(30) DEF JanitorClearPrev, Janitor, Goto, OnlyWeak, HeldLive,
     HandlesLive, Holding, FreesNone, StrongOnStart, StrongOnItem, StrongOnNew, WeakOnStart,
     WeakOnItem, WeakForGroup, At, HoldsValue, Janitoring, Live, Knows, Frames, NewNode,
     Linking, HandleKept, OnChain, Shape, Continues, DropShape, Updating, Upgrading, Dying,
     locals, client, heap, CallFrames, JanitorFrames
<1>12. CASE JanitorUnlink(t)
  BY <1>k, <1>r, <1>s, <1>12, SMTT(30) DEF JanitorUnlink, Janitor, Goto, OnlyPrev, HeldLive,
     HandlesLive, Holding, FreesNone, StrongOnStart, StrongOnItem, StrongOnNew, WeakOnStart,
     WeakOnItem, WeakForGroup, At, HoldsValue, Janitoring, Live, Knows, Frames, NewNode,
     Linking, HandleKept, OnChain, Shape, Continues, DropShape, Updating, Upgrading, Dying,
     locals, client, heap, CallFrames, JanitorFrames
<1>13. CASE JanitorCarry(t)
  BY <1>k, <1>r, <1>s, <1>13, SMTT(30) DEF JanitorCarry, Janitor, ReleaseCarry, Goto, OnlyNext,
     Unlock, HeldLive, HandlesLive, Holding, FreesNone, StrongOnStart, StrongOnItem,
     StrongOnNew, WeakOnStart, WeakOnItem, WeakForGroup, At, HoldsValue, Janitoring, Live,
     Knows, Frames, NewNode, Linking, HandleKept, OnChain, Shape, Continues, DropShape,
     Updating, Upgrading, Dying, locals, client, heap, CallFrames, JanitorFrames
<1>14. CASE JanitorUncarry(t)
  BY <1>k, <1>r, <1>s, <1>14, SMTT(30) DEF JanitorUncarry, Janitor, ReleaseCarry, Goto,
     OnlyNext, Unlock, HeldLive, HandlesLive, Holding, FreesNone, StrongOnStart, StrongOnItem,
     StrongOnNew, WeakOnStart, WeakOnItem, WeakForGroup, At, HoldsValue, Janitoring, Live,
     Knows, Frames, NewNode, Linking, HandleKept, OnChain, Shape, Continues, DropShape,
     Updating, Upgrading, Dying, locals, client, heap, CallFrames, JanitorFrames
<1> QED BY <1>1, <1>2, <1>3, <1>4, <1>5, <1>6, <1>7, <1>8, <1>9, <1>11, <1>12, <1>13, <1>14 DEF JanitorStep

(* A step of a drop goes from live nodes to live nodes.*)
LEMMA DropHeld ==
  ASSUME OrderInv, NEW t \in Threads, Shape(t), Holding(t), FreesNone, DropStep(t),
         ~DropWeakFree(t)
  PROVE  HeldLive(t)' /\ HandlesLive'
<1>k. TypeOK /\ Knows(pc[t], item[t], av[t], pd[t], jn[t], op[t])
  BY RegistersTyped DEF OrderInv
<1>r. /\ pc \in [Threads -> Labels] /\ item \in [Threads -> Nodes] /\ av \in [Threads -> AdvanceFrames]
      /\ pd \in [Threads -> PayloadFrames] /\ jn \in [Threads -> JanitorFrames]
      /\ dr \in [Threads -> DropFrames] /\ op \in [Threads -> CallFrames]
      /\ strong \in [Nodes -> 0..UsizeMax] /\ UsizeMax \in Nat /\ weak \in [Nodes -> WeakWords]
      /\ mem \in [Nodes -> {"unused", "private", "live", "freed"}] /\ prev \in [Nodes -> Ptrs]
      /\ stamp \in [Nodes -> Nat] /\ next \in [Nodes -> NextWords] /\ adv \in [Nodes -> Int]
      /\ handle \in [Handles -> HandleStates]
  BY HeapAssumption DEF OrderInv, TypeOK
<1>s. Shape(t) /\ Holding(t) /\ FreesNone
  OBVIOUS
<1>1. CASE DropStrongDec(t)
  <2>1. CASE LastStrong(item[t])
    <3>1. /\ pc[t] = "ds_dec"
          /\ SubStrong(item[t])
          /\ OnlyStrong
          /\ UNCHANGED <<pd, op>>
          /\ Starts(t, item[t], "weak", "jan_lock")
          /\ jn'[t] = [IdleJanitor EXCEPT !.ret = "dw_weak"]
          /\ dr'[t] = [IdleDrop EXCEPT !.ret = dr[t].ret]
      BY <1>k, <1>1, <2>1, DropStrongDecEffect
    <3> QED BY <1>k, <1>r, <1>s, <2>1, <3>1, SMTT(30) DEF Starts, SubStrong, OnlyStrong,
     IdleJanitor, IdleDrop, HeldLive, HandlesLive, Holding, FreesNone, StrongOnStart,
     StrongOnItem, StrongOnNew, WeakOnStart, WeakOnItem, WeakForGroup, At, HoldsValue,
     Janitoring, Live, Knows, Frames, NewNode, Linking, HandleKept, OnChain, Shape, Continues,
     DropShape, Updating, Upgrading, Dying, locals, client, heap, CallFrames
  <2>2. CASE ~LastStrong(item[t])
    <3>1. /\ pc[t] = "ds_dec"
          /\ SubStrong(item[t])
          /\ OnlyStrong
          /\ UNCHANGED <<pd, op>>
          /\ pc'[t] = dr[t].ret
          /\ dr'[t] = IdleDrop
          /\ jn'[t] = IdleJanitor
          /\ UNCHANGED <<item, av>>
      BY <1>k, <1>1, <2>2, DropStrongDecEffect
    <3>3. CASE dr[t].ret = "ret"
      BY <1>k, <1>r, <1>s, <2>2, <3>1, <3>3, SMTT(30) DEF Starts, SubStrong, OnlyStrong,
     IdleDrop, IdleJanitor, HeldLive, HandlesLive, Holding, FreesNone, StrongOnStart,
     StrongOnItem, StrongOnNew, WeakOnStart, WeakOnItem, WeakForGroup, At, HoldsValue,
     Janitoring, Live, Knows, Frames, NewNode, Linking, HandleKept, OnChain, Shape, Continues,
     DropShape, Updating, Upgrading, Dying, locals, client, heap, CallFrames
    <3>4. CASE dr[t].ret = "sg_dec"
      BY <1>k, <1>r, <1>s, <2>2, <3>1, <3>4, SMTT(30) DEF Starts, SubStrong, OnlyStrong,
     IdleDrop, IdleJanitor, HeldLive, HandlesLive, Holding, FreesNone, StrongOnStart,
     StrongOnItem, StrongOnNew, WeakOnStart, WeakOnItem, WeakForGroup, At, HoldsValue,
     Janitoring, Live, Knows, Frames, NewNode, Linking, HandleKept, OnChain, Shape, Continues,
     DropShape, Updating, Upgrading, Dying, locals, client, heap, CallFrames
    <3>9. dr[t].ret = "ret" \/ dr[t].ret = "sg_dec"
      BY <1>k, <1>r, <1>s, <3>1, <2>2 DEF DropFrames, Shape, Dying, CallFrames, Continues,
     Janitoring
    <3> QED BY <3>3, <3>4, <3>9
  <2> QED BY <2>1, <2>2
<1>2. CASE DropWeakLoad(t)
  <2>1. CASE jn[t].rerun
    <3>1. /\ pc[t] = "dw_weak"
          /\ ReadOnly
          /\ UNCHANGED <<pd, op>>
          /\ Starts(t, item[t], "weak", "jan_lock")
          /\ jn'[t] = [IdleJanitor EXCEPT !.ret = "dw_weak"]
          /\ UNCHANGED dr
      BY <1>k, <1>2, <2>1, DropWeakLoadEffect
    <3> QED BY <1>k, <1>r, <1>s, <2>1, <3>1, SMTT(30) DEF Starts, ReadOnly, IdleJanitor,
     HeldLive, HandlesLive, Holding, FreesNone, StrongOnStart, StrongOnItem, StrongOnNew,
     WeakOnStart, WeakOnItem, WeakForGroup, At, HoldsValue, Janitoring, Live, Knows, Frames,
     NewNode, Linking, HandleKept, OnChain, Shape, Continues, DropShape, Updating, Upgrading,
     Dying, locals, client, heap, CallFrames
  <2>2. CASE ~jn[t].rerun
    <3>1. /\ pc[t] = "dw_weak"
          /\ ReadOnly
          /\ UNCHANGED <<pd, op>>
          /\ pc'[t] = "dw_next"
          /\ dr'[t] = [dr[t] EXCEPT !.ww = weak[item[t]]]
          /\ UNCHANGED <<item, av, jn>>
      BY <1>k, <1>2, <2>2, DropWeakLoadEffect
    <3> QED BY <1>k, <1>r, <1>s, <2>2, <3>1, SMTT(30) DEF Starts, ReadOnly, HeldLive,
     HandlesLive, Holding, FreesNone, StrongOnStart, StrongOnItem, StrongOnNew, WeakOnStart,
     WeakOnItem, WeakForGroup, At, HoldsValue, Janitoring, Live, Knows, Frames, NewNode,
     Linking, HandleKept, OnChain, Shape, Continues, DropShape, Updating, Upgrading, Dying,
     locals, client, heap, CallFrames
  <2> QED BY <2>1, <2>2
<1>3. CASE DropWeakNext(t)
  <2>1. CASE HasNext(item[t])
    <3>1. /\ pc[t] = "dw_next"
          /\ ReadOnly
          /\ UNCHANGED <<pd, op>>
          /\ Starts(t, item[t], "weak", "jan_lock")
          /\ jn'[t] = [IdleJanitor EXCEPT !.ret = "dw_weak"]
          /\ dr'[t] = [IdleDrop EXCEPT !.ret = dr[t].ret]
      BY <1>k, <1>3, <2>1, DropWeakNextEffect
    <3> QED BY <1>k, <1>r, <1>s, <2>1, <3>1, SMTT(30) DEF Starts, ReadOnly, IdleJanitor,
     IdleDrop, HeldLive, HandlesLive, Holding, FreesNone, StrongOnStart, StrongOnItem,
     StrongOnNew, WeakOnStart, WeakOnItem, WeakForGroup, At, HoldsValue, Janitoring, Live,
     Knows, Frames, NewNode, Linking, HandleKept, OnChain, Shape, Continues, DropShape,
     Updating, Upgrading, Dying, locals, client, heap, CallFrames
  <2>2. CASE ~HasNext(item[t])
    <3>1. /\ pc[t] = "dw_next"
          /\ ReadOnly
          /\ UNCHANGED <<pd, op>>
          /\ pc'[t] = IF jn[t].status = "NoStrongRefsExist" THEN "dw_claim" ELSE "dw_cas"
          /\ UNCHANGED <<item, av, jn, dr>>
      BY <1>k, <1>3, <2>2, DropWeakNextEffect
    <3> QED BY <1>k, <1>r, <1>s, <2>2, <3>1, SMTT(30) DEF Starts, ReadOnly, HeldLive,
     HandlesLive, Holding, FreesNone, StrongOnStart, StrongOnItem, StrongOnNew, WeakOnStart,
     WeakOnItem, WeakForGroup, At, HoldsValue, Janitoring, Live, Knows, Frames, NewNode,
     Linking, HandleKept, OnChain, Shape, Continues, DropShape, Updating, Upgrading, Dying,
     locals, client, heap, CallFrames
  <2> QED BY <2>1, <2>2
<1>4. CASE ClaimTeardown(t)
  BY <1>k, <1>r, <1>s, <1>4, SMTT(30) DEF ClaimTeardown, StartPayloadDrop, Goto, OnlyStrong,
     HeldLive, HandlesLive, Holding, FreesNone, StrongOnStart, StrongOnItem, StrongOnNew,
     WeakOnStart, WeakOnItem, WeakForGroup, At, HoldsValue, Janitoring, Live, Knows, Frames,
     NewNode, Linking, HandleKept, OnChain, Shape, Continues, DropShape, Updating, Upgrading,
     Dying, locals, client, heap, CallFrames
<1>5. CASE DropWeakCas(t)
  <2>1. CASE ~SameWeakWord(item[t], dr[t].ww)
    <3>1. /\ pc[t] = "dw_cas"
          /\ OnlyWeak
          /\ UNCHANGED <<pd, op>>
          /\ Starts(t, item[t], "weak", "jan_lock")
          /\ jn'[t] = [IdleJanitor EXCEPT !.ret = "dw_weak"]
          /\ dr'[t] = [IdleDrop EXCEPT !.ret = dr[t].ret]
          /\ UNCHANGED weak
      BY <1>k, <1>5, <2>1, DropWeakCasEffect
    <3> QED BY <1>k, <1>r, <1>s, <2>1, <3>1, SMTT(30) DEF Starts, OnlyWeak, IdleJanitor,
     IdleDrop, HeldLive, HandlesLive, Holding, FreesNone, StrongOnStart, StrongOnItem,
     StrongOnNew, WeakOnStart, WeakOnItem, WeakForGroup, At, HoldsValue, Janitoring, Live,
     Knows, Frames, NewNode, Linking, HandleKept, OnChain, Shape, Continues, DropShape,
     Updating, Upgrading, Dying, locals, client, heap, CallFrames
  <2>2. CASE SameWeakWord(item[t], dr[t].ww) /\ SoleUser(dr[t].ww)
    <3>1. /\ pc[t] = "dw_cas"
          /\ OnlyWeak
          /\ UNCHANGED <<pd, op>>
          /\ SubWeak(item[t])
          /\ pc'[t] = "dw_free"
          /\ UNCHANGED <<item, av, jn, dr>>
      BY <1>k, <1>5, <2>2, DropWeakCasEffect
    <3> QED BY <1>k, <1>r, <1>s, <2>2, <3>1, SMTT(30) DEF Starts, OnlyWeak, SubWeak, HeldLive,
     HandlesLive, Holding, FreesNone, StrongOnStart, StrongOnItem, StrongOnNew, WeakOnStart,
     WeakOnItem, WeakForGroup, At, HoldsValue, Janitoring, Live, Knows, Frames, NewNode,
     Linking, HandleKept, OnChain, Shape, Continues, DropShape, Updating, Upgrading, Dying,
     locals, client, heap, CallFrames
  <2>3. CASE SameWeakWord(item[t], dr[t].ww) /\ ~SoleUser(dr[t].ww)
    <3>1. /\ pc[t] = "dw_cas"
          /\ OnlyWeak
          /\ UNCHANGED <<pd, op>>
          /\ SubWeak(item[t])
          /\ pc'[t] = dr[t].ret
          /\ dr'[t] = IdleDrop
          /\ jn'[t] = IdleJanitor
          /\ UNCHANGED <<item, av>>
      BY <1>k, <1>5, <2>3, DropWeakCasEffect
    <3>3. CASE dr[t].ret = "ret"
      BY <1>k, <1>r, <1>s, <2>3, <3>1, <3>3, SMTT(30) DEF Starts, OnlyWeak, SubWeak, IdleDrop,
     IdleJanitor, HeldLive, HandlesLive, Holding, FreesNone, StrongOnStart, StrongOnItem,
     StrongOnNew, WeakOnStart, WeakOnItem, WeakForGroup, At, HoldsValue, Janitoring, Live,
     Knows, Frames, NewNode, Linking, HandleKept, OnChain, Shape, Continues, DropShape,
     Updating, Upgrading, Dying, locals, client, heap, CallFrames
    <3>4. CASE dr[t].ret = "sg_dec"
      BY <1>k, <1>r, <1>s, <2>3, <3>1, <3>4, SMTT(30) DEF Starts, OnlyWeak, SubWeak, IdleDrop,
     IdleJanitor, HeldLive, HandlesLive, Holding, FreesNone, StrongOnStart, StrongOnItem,
     StrongOnNew, WeakOnStart, WeakOnItem, WeakForGroup, At, HoldsValue, Janitoring, Live,
     Knows, Frames, NewNode, Linking, HandleKept, OnChain, Shape, Continues, DropShape,
     Updating, Upgrading, Dying, locals, client, heap, CallFrames
    <3>9. dr[t].ret = "ret" \/ dr[t].ret = "sg_dec"
      BY <1>k, <1>r, <1>s, <3>1, <2>3 DEF DropFrames, Shape, Dying, CallFrames, Continues,
     Janitoring
    <3> QED BY <3>3, <3>4, <3>9
  <2> QED BY <2>1, <2>2, <2>3
<1> QED BY <1>1, <1>2, <1>3, <1>4, <1>5 DEF DropStep

(* A step of an update goes from live nodes to live nodes.*)
LEMMA UpdateHeld ==
  ASSUME OrderInv, NEW t \in Threads, Shape(t), Holding(t), FreesNone, UpdateStep(t)
  PROVE  HeldLive(t)' /\ HandlesLive'
<1>k. TypeOK /\ Knows(pc[t], item[t], av[t], pd[t], jn[t], op[t])
  BY RegistersTyped DEF OrderInv
<1>r. /\ pc \in [Threads -> Labels] /\ item \in [Threads -> Nodes] /\ av \in [Threads -> AdvanceFrames]
      /\ pd \in [Threads -> PayloadFrames] /\ jn \in [Threads -> JanitorFrames]
      /\ dr \in [Threads -> DropFrames] /\ op \in [Threads -> CallFrames]
      /\ strong \in [Nodes -> 0..UsizeMax] /\ UsizeMax \in Nat /\ weak \in [Nodes -> WeakWords]
      /\ mem \in [Nodes -> {"unused", "private", "live", "freed"}] /\ prev \in [Nodes -> Ptrs]
      /\ stamp \in [Nodes -> Nat] /\ next \in [Nodes -> NextWords] /\ adv \in [Nodes -> Int]
      /\ handle \in [Handles -> HandleStates]
  BY HeapAssumption DEF OrderInv, TypeOK
<1>s. Shape(t) /\ Holding(t) /\ FreesNone
  OBVIOUS
<1>1. CASE UpdateNext(t)
  <2>1. CASE HasNext(item[t])
    <3>1. /\ pc[t] = "upd_next"
          /\ UNCHANGED <<client, pd, jn, dr>>
          /\ UNCHANGED <<next, adv, drops>>
          /\ Starts(t, item[t], "strong", "upd_next")
          /\ UNCHANGED <<heap, op>>
      BY <1>k, <1>1, <2>1, UpdateNextEffect
    <3> QED BY <1>k, <1>r, <1>s, <2>1, <3>1, SMTT(30) DEF Starts, HeldLive, HandlesLive,
     Holding, FreesNone, StrongOnStart, StrongOnItem, StrongOnNew, WeakOnStart, WeakOnItem,
     WeakForGroup, At, HoldsValue, Janitoring, Live, Knows, Frames, NewNode, Linking,
     HandleKept, OnChain, Shape, Continues, DropShape, Updating, Upgrading, Dying, locals,
     client, heap, CallFrames
  <2>2. CASE ~HasNext(item[t]) /\ op[t].val # Null
    <3>1. /\ pc[t] = "upd_next"
          /\ UNCHANGED <<client, pd, jn, dr>>
          /\ UNCHANGED <<next, adv, drops>>
          /\ pc'[t] = "upd_weak"
          /\ op'[t] = [op[t] EXCEPT !.nw = next[item[t]]]
          /\ prev' = [prev EXCEPT ![op[t].val] = item[t]]
          /\ UNCHANGED <<strong, weak, mem, item, av>>
      BY <1>k, <1>1, <2>2, UpdateNextEffect
    <3> QED BY <1>k, <1>r, <1>s, <2>2, <3>1, SMTT(30) DEF Starts, HeldLive, HandlesLive,
     Holding, FreesNone, StrongOnStart, StrongOnItem, StrongOnNew, WeakOnStart, WeakOnItem,
     WeakForGroup, At, HoldsValue, Janitoring, Live, Knows, Frames, NewNode, Linking,
     HandleKept, OnChain, Shape, Continues, DropShape, Updating, Upgrading, Dying, locals,
     client, heap, CallFrames
  <2>3. CASE ~HasNext(item[t]) /\ op[t].val = Null
    <3>1. /\ pc[t] = "upd_next"
          /\ UNCHANGED <<client, pd, jn, dr>>
          /\ UNCHANGED <<next, adv, drops>>
          /\ Unused # {}
          /\ pc'[t] = "upd_weak"
          /\ op'[t] = [op[t] EXCEPT !.val = FreshNode, !.nw = next[item[t]]]
          /\ NewHolder(FreshNode, item[t])
          /\ UNCHANGED <<item, av>>
      BY <1>k, <1>1, <2>3, UpdateNextEffect
    <3>2. FreshNode \in Nodes /\ mem[FreshNode] = "unused" /\ ~Published(FreshNode)
      BY <3>1, FreshIsUnused
    <3> QED BY <1>k, <1>r, <1>s, <2>3, <3>1, <3>2, SMTT(30) DEF Starts, NewHolder, HeldLive,
     HandlesLive, Holding, FreesNone, StrongOnStart, StrongOnItem, StrongOnNew, WeakOnStart,
     WeakOnItem, WeakForGroup, At, HoldsValue, Janitoring, Live, Knows, Frames, NewNode,
     Linking, HandleKept, OnChain, Shape, Continues, DropShape, Updating, Upgrading, Dying,
     locals, client, heap, CallFrames
  <2> QED BY <2>1, <2>2, <2>3
<1>3. CASE UpdateWeakInc(t)
  BY <1>k, <1>r, <1>s, <1>3, SMTT(30) DEF UpdateWeakInc, AddWeak, Goto, OnlyWeak, HeldLive,
     HandlesLive, Holding, FreesNone, StrongOnStart, StrongOnItem, StrongOnNew, WeakOnStart,
     WeakOnItem, WeakForGroup, At, HoldsValue, Janitoring, Live, Knows, Frames, NewNode,
     Linking, HandleKept, OnChain, Shape, Continues, DropShape, Updating, Upgrading, Dying,
     locals, client, heap, CallFrames
<1>5. CASE UpdateFail(t)
  <2>1. /\ pc[t] = "upd_fail"
        /\ SubWeak(item[t])
        /\ OnlyWeak
        /\ UNCHANGED <<pd, jn, dr, op>>
        /\ Starts(t, item[t], "strong", "upd_next")
    BY <1>k, <1>5, UpdateFailEffect
  <2> QED BY <1>k, <1>r, <1>s, <2>1, SMTT(30) DEF Starts, SubWeak, OnlyWeak, HeldLive,
     HandlesLive, Holding, FreesNone, StrongOnStart, StrongOnItem, StrongOnNew, WeakOnStart,
     WeakOnItem, WeakForGroup, At, HoldsValue, Janitoring, Live, Knows, Frames, NewNode,
     Linking, HandleKept, OnChain, Shape, Continues, DropShape, Updating, Upgrading, Dying,
     locals, client, heap, CallFrames
<1>6. CASE UpdateMark(t)
  BY <1>k, <1>r, <1>s, <1>6, SMTT(30) DEF UpdateMark, Goto, OnlyWeak, HeldLive, HandlesLive,
     Holding, FreesNone, StrongOnStart, StrongOnItem, StrongOnNew, WeakOnStart, WeakOnItem,
     WeakForGroup, At, HoldsValue, Janitoring, Live, Knows, Frames, NewNode, Linking,
     HandleKept, OnChain, Shape, Continues, DropShape, Updating, Upgrading, Dying, locals,
     client, heap, CallFrames
<1>7. CASE UpdateDec(t)
  <2>1. CASE LastStrong(item[t])
    BY <1>k, <1>r, <1>s, <1>7, <2>1, SMTT(30) DEF UpdateDec, SubStrong, StartPayloadDrop, Goto,
     OnlyStrong, HeldLive, HandlesLive, Holding, FreesNone, StrongOnStart, StrongOnItem,
     StrongOnNew, WeakOnStart, WeakOnItem, WeakForGroup, At, HoldsValue, Janitoring, Live,
     Knows, Frames, NewNode, Linking, HandleKept, OnChain, Shape, Continues, DropShape,
     Updating, Upgrading, Dying, locals, client, heap, CallFrames
  <2>2. CASE ~LastStrong(item[t])
    BY <1>k, <1>r, <1>s, <1>7, <2>2, SMTT(30) DEF UpdateDec, SubStrong, StartPayloadDrop, Goto,
     OnlyStrong, HeldLive, HandlesLive, Holding, FreesNone, StrongOnStart, StrongOnItem,
     StrongOnNew, WeakOnStart, WeakOnItem, WeakForGroup, At, HoldsValue, Janitoring, Live,
     Knows, Frames, NewNode, Linking, HandleKept, OnChain, Shape, Continues, DropShape,
     Updating, Upgrading, Dying, locals, client, heap, CallFrames
  <2> QED BY <2>1, <2>2
<1>8. CASE UpdateDecWeak(t)
  BY <1>k, <1>r, <1>s, <1>8, SMTT(30) DEF UpdateDecWeak, SubWeak, Goto, OnlyWeak, HeldLive,
     HandlesLive, Holding, FreesNone, StrongOnStart, StrongOnItem, StrongOnNew, WeakOnStart,
     WeakOnItem, WeakForGroup, At, HoldsValue, Janitoring, Live, Knows, Frames, NewNode,
     Linking, HandleKept, OnChain, Shape, Continues, DropShape, Updating, Upgrading, Dying,
     locals, client, heap, CallFrames
<1>9. CASE UpdateDone(t)
  <2>1. CASE jn[t].rerun
    <3>1. /\ pc[t] = "upd_done"
          /\ ReadOnly
          /\ UNCHANGED <<pd, jn, dr, op>>
          /\ Starts(t, item[t], "strong", "jan_lock")
      BY <1>k, <1>9, <2>1, UpdateDoneEffect
    <3> QED BY <1>k, <1>r, <1>s, <2>1, <3>1, SMTT(30) DEF Starts, ReadOnly, HeldLive,
     HandlesLive, Holding, FreesNone, StrongOnStart, StrongOnItem, StrongOnNew, WeakOnStart,
     WeakOnItem, WeakForGroup, At, HoldsValue, Janitoring, Live, Knows, Frames, NewNode,
     Linking, HandleKept, OnChain, Shape, Continues, DropShape, Updating, Upgrading, Dying,
     locals, client, heap, CallFrames
  <2>2. CASE ~jn[t].rerun
    <3>1. /\ pc[t] = "upd_done"
          /\ ReadOnly
          /\ UNCHANGED <<pd, jn, dr, op>>
          /\ pc'[t] = "ret"
          /\ UNCHANGED <<item, av>>
      BY <1>k, <1>9, <2>2, UpdateDoneEffect
    <3> QED BY <1>k, <1>r, <1>s, <2>2, <3>1, SMTT(30) DEF Starts, ReadOnly, HeldLive,
     HandlesLive, Holding, FreesNone, StrongOnStart, StrongOnItem, StrongOnNew, WeakOnStart,
     WeakOnItem, WeakForGroup, At, HoldsValue, Janitoring, Live, Knows, Frames, NewNode,
     Linking, HandleKept, OnChain, Shape, Continues, DropShape, Updating, Upgrading, Dying,
     locals, client, heap, CallFrames
  <2> QED BY <2>1, <2>2
<1>w. CASE RcuCancel(t)
  <2>1. /\ pc[t] = "upd_next" /\ pc'[t] = "ret" /\ UNCHANGED <<handle, item>>
        /\ op'[t] = [op[t] EXCEPT !.ok = FALSE] /\ op[t].f = "rcu"
    BY <1>r, <1>w DEF RcuCancel, Goto, client
  <2>2. op'[t].f = "rcu" /\ ~op'[t].ok
    BY <1>r, <2>1 DEF CallFrames
  <2>3. Live(item[t])'
    BY <1>r, <1>s, <2>1 DEF Holding, HeldLive, StrongOnItem, At, FreesNone, Live
  <2>4. HandlesLive'
    BY <1>r, <1>s, <2>1 DEF Holding, HandlesLive, FreesNone, Live, HandleStates
  <2> QED BY <2>1, <2>3, <2>4 DEF HeldLive, StrongOnStart, WeakOnStart, StrongOnItem, WeakOnItem, WeakForGroup, StrongOnNew, At, Janitoring
<1>u. CASE UpdateCas(t)
  <2>1. CASE CanLink(item[t], op[t].nw)
    <3>1. Links(t, item[t], op[t].val)
      BY <1>u, <2>1, UpdateLinks
    <3>2. /\ pc[t] = "upd_cas" /\ pc'[t] = "upd_mark" /\ UNCHANGED <<handle, locals>>
          /\ mem'[op[t].val] = "live"
      BY <1>r, <3>1 DEF Links
    <3>3. Live(item[t])
      BY <1>s, <3>2 DEF Holding, HeldLive, StrongOnItem, At
    <3>4. Live(item[t])' /\ Live(op[t].val)'
      BY <1>r, <1>s, <3>2, <3>3 DEF FreesNone, Live, locals
    <3>5. HandlesLive'
      BY <1>r, <1>s, <3>2 DEF Holding, HandlesLive, FreesNone, Live, HandleStates
    <3> QED BY <1>k, <1>r, <1>s, <3>2, <3>4, <3>5 DEF HeldLive, StrongOnStart, WeakOnStart, StrongOnItem, WeakOnItem,
          WeakForGroup, StrongOnNew, At, Janitoring, locals
  <2>2. CASE ~CanLink(item[t], op[t].nw)
    BY <1>k, <1>r, <1>s, <1>u, <2>2, SMTT(30) DEF UpdateCas, Goto, HeldLive, HandlesLive, Holding, FreesNone, StrongOnStart,
       WeakOnStart, StrongOnItem, WeakOnItem, WeakForGroup, StrongOnNew, At, Janitoring, Live, locals
  <2> QED BY <2>1, <2>2
<1> QED BY <1>1, <1>3, <1>5, <1>6, <1>7, <1>8, <1>9, <1>u, <1>w DEF UpdateStep

(* A step of an upgrade goes from live nodes to live nodes.*)
LEMMA UpgradeHeld ==
  ASSUME OrderInv, NEW t \in Threads, Shape(t), Holding(t), FreesNone, UpgradeStep(t)
  PROVE  HeldLive(t)' /\ HandlesLive'
<1>k. TypeOK /\ Knows(pc[t], item[t], av[t], pd[t], jn[t], op[t])
  BY RegistersTyped DEF OrderInv
<1>r. /\ pc \in [Threads -> Labels] /\ item \in [Threads -> Nodes] /\ av \in [Threads -> AdvanceFrames]
      /\ pd \in [Threads -> PayloadFrames] /\ jn \in [Threads -> JanitorFrames]
      /\ dr \in [Threads -> DropFrames] /\ op \in [Threads -> CallFrames]
      /\ strong \in [Nodes -> 0..UsizeMax] /\ UsizeMax \in Nat /\ weak \in [Nodes -> WeakWords]
      /\ mem \in [Nodes -> {"unused", "private", "live", "freed"}] /\ prev \in [Nodes -> Ptrs]
      /\ stamp \in [Nodes -> Nat] /\ next \in [Nodes -> NextWords] /\ adv \in [Nodes -> Int]
      /\ handle \in [Handles -> HandleStates]
  BY HeapAssumption DEF OrderInv, TypeOK
<1>s. Shape(t) /\ Holding(t) /\ FreesNone
  OBVIOUS
<1>1. CASE UpgradeLoadStrong(t)
  BY <1>k, <1>r, <1>s, <1>1, SMTT(30) DEF UpgradeLoadStrong, Goto, ReadOnly, HeldLive,
     HandlesLive, Holding, FreesNone, StrongOnStart, StrongOnItem, StrongOnNew, WeakOnStart,
     WeakOnItem, WeakForGroup, At, HoldsValue, Janitoring, Live, Knows, Frames, NewNode,
     Linking, HandleKept, OnChain, Shape, Continues, DropShape, Updating, Upgrading, Dying,
     locals, client, heap, CallFrames
<1>2. CASE UpgradeLoadNext(t)
  <2>1. CASE HasNext(item[t])
    <3>1. /\ pc[t] = "upg_next"
          /\ ReadOnly
          /\ UNCHANGED pd
          /\ Starts(t, item[t], "weak", "upg_strong")
          /\ UNCHANGED <<jn, dr, op>>
      BY <1>k, <1>2, <2>1, UpgradeLoadNextEffect
    <3> QED BY <1>k, <1>r, <1>s, <2>1, <3>1, SMTT(30) DEF Starts, ReadOnly, HeldLive,
     HandlesLive, Holding, FreesNone, StrongOnStart, StrongOnItem, StrongOnNew, WeakOnStart,
     WeakOnItem, WeakForGroup, At, HoldsValue, Janitoring, Live, Knows, Frames, NewNode,
     Linking, HandleKept, OnChain, Shape, Continues, DropShape, Updating, Upgrading, Dying,
     locals, client, heap, CallFrames
  <2>2. CASE ~HasNext(item[t]) /\ ValueIsGone(item[t], op[t].cs)
    <3>1. /\ pc[t] = "upg_next"
          /\ ReadOnly
          /\ UNCHANGED pd
          /\ Starts(t, item[t], "weak", "jan_lock")
          /\ jn'[t] = [IdleJanitor EXCEPT !.ret = "dw_weak"]
          /\ dr'[t] = [IdleDrop EXCEPT !.ret = "ret"]
          /\ op'[t] = [op[t] EXCEPT !.ok = FALSE]
      BY <1>k, <1>2, <2>2, UpgradeLoadNextEffect
    <3> QED BY <1>k, <1>r, <1>s, <2>2, <3>1, SMTT(30) DEF Starts, ReadOnly, IdleJanitor,
     IdleDrop, HeldLive, HandlesLive, Holding, FreesNone, StrongOnStart, StrongOnItem,
     StrongOnNew, WeakOnStart, WeakOnItem, WeakForGroup, At, HoldsValue, Janitoring, Live,
     Knows, Frames, NewNode, Linking, HandleKept, OnChain, Shape, Continues, DropShape,
     Updating, Upgrading, Dying, locals, client, heap, CallFrames
  <2>3. CASE ~HasNext(item[t]) /\ ~ValueIsGone(item[t], op[t].cs)
    <3>1. /\ pc[t] = "upg_next"
          /\ ReadOnly
          /\ UNCHANGED pd
          /\ pc'[t] = IF op[t].cs = 0 THEN "upg_incw" ELSE "upg_cas"
          /\ UNCHANGED <<item, av, jn, dr, op>>
      BY <1>k, <1>2, <2>3, UpgradeLoadNextEffect
    <3> QED BY <1>k, <1>r, <1>s, <2>3, <3>1, SMTT(30) DEF Starts, ReadOnly, HeldLive,
     HandlesLive, Holding, FreesNone, StrongOnStart, StrongOnItem, StrongOnNew, WeakOnStart,
     WeakOnItem, WeakForGroup, At, HoldsValue, Janitoring, Live, Knows, Frames, NewNode,
     Linking, HandleKept, OnChain, Shape, Continues, DropShape, Updating, Upgrading, Dying,
     locals, client, heap, CallFrames
  <2> QED BY <2>1, <2>2, <2>3
<1>3. CASE UpgradeIncWeak(t)
  BY <1>k, <1>r, <1>s, <1>3, SMTT(30) DEF UpgradeIncWeak, AddWeak, Goto, OnlyWeak, HeldLive,
     HandlesLive, Holding, FreesNone, StrongOnStart, StrongOnItem, StrongOnNew, WeakOnStart,
     WeakOnItem, WeakForGroup, At, HoldsValue, Janitoring, Live, Knows, Frames, NewNode,
     Linking, HandleKept, OnChain, Shape, Continues, DropShape, Updating, Upgrading, Dying,
     locals, client, heap, CallFrames
<1>4. CASE UpgradeCas(t)
  <2>1. CASE strong[item[t]] = op[t].cs
    <3>1. /\ pc[t] = "upg_cas"
          /\ OnlyStrong
          /\ UNCHANGED <<pd, jn, dr, op>>
          /\ AddStrong(item[t])
          /\ pc'[t] = "upg_check"
          /\ UNCHANGED <<item, av>>
      BY <1>k, <1>4, <2>1, UpgradeCasEffect
    <3> QED BY <1>k, <1>r, <1>s, <2>1, <3>1, SMTT(30) DEF Starts, OnlyStrong, AddStrong,
     HeldLive, HandlesLive, Holding, FreesNone, StrongOnStart, StrongOnItem, StrongOnNew,
     WeakOnStart, WeakOnItem, WeakForGroup, At, HoldsValue, Janitoring, Live, Knows, Frames,
     NewNode, Linking, HandleKept, OnChain, Shape, Continues, DropShape, Updating, Upgrading,
     Dying, locals, client, heap, CallFrames
  <2>2. CASE strong[item[t]] # op[t].cs /\ op[t].cs = 0
    <3>1. /\ pc[t] = "upg_cas"
          /\ OnlyStrong
          /\ UNCHANGED <<pd, jn, dr, op>>
          /\ pc'[t] = "upg_race"
          /\ UNCHANGED <<strong, item, av>>
      BY <1>k, <1>4, <2>2, UpgradeCasEffect
    <3> QED BY <1>k, <1>r, <1>s, <2>2, <3>1, SMTT(30) DEF Starts, OnlyStrong, HeldLive,
     HandlesLive, Holding, FreesNone, StrongOnStart, StrongOnItem, StrongOnNew, WeakOnStart,
     WeakOnItem, WeakForGroup, At, HoldsValue, Janitoring, Live, Knows, Frames, NewNode,
     Linking, HandleKept, OnChain, Shape, Continues, DropShape, Updating, Upgrading, Dying,
     locals, client, heap, CallFrames
  <2>3. CASE strong[item[t]] # op[t].cs /\ op[t].cs # 0
    <3>1. /\ pc[t] = "upg_cas"
          /\ OnlyStrong
          /\ UNCHANGED <<pd, jn, dr, op>>
          /\ Starts(t, item[t], "weak", "upg_strong")
          /\ UNCHANGED strong
      BY <1>k, <1>4, <2>3, UpgradeCasEffect
    <3> QED BY <1>k, <1>r, <1>s, <2>3, <3>1, SMTT(30) DEF Starts, OnlyStrong, HeldLive,
     HandlesLive, Holding, FreesNone, StrongOnStart, StrongOnItem, StrongOnNew, WeakOnStart,
     WeakOnItem, WeakForGroup, At, HoldsValue, Janitoring, Live, Knows, Frames, NewNode,
     Linking, HandleKept, OnChain, Shape, Continues, DropShape, Updating, Upgrading, Dying,
     locals, client, heap, CallFrames
  <2> QED BY <2>1, <2>2, <2>3
<1>5. CASE UpgradeRaceDecWeak(t)
  <2>1. /\ pc[t] = "upg_race"
        /\ SubWeak(item[t])
        /\ OnlyWeak
        /\ UNCHANGED <<pd, jn, dr, op>>
        /\ Starts(t, item[t], "weak", "upg_strong")
    BY <1>k, <1>5, UpgradeRaceDecWeakEffect
  <2> QED BY <1>k, <1>r, <1>s, <2>1, SMTT(30) DEF Starts, SubWeak, OnlyWeak, HeldLive,
     HandlesLive, Holding, FreesNone, StrongOnStart, StrongOnItem, StrongOnNew, WeakOnStart,
     WeakOnItem, WeakForGroup, At, HoldsValue, Janitoring, Live, Knows, Frames, NewNode,
     Linking, HandleKept, OnChain, Shape, Continues, DropShape, Updating, Upgrading, Dying,
     locals, client, heap, CallFrames
<1>6. CASE UpgradeCheck(t)
  BY <1>k, <1>r, <1>s, <1>6, SMTT(30) DEF UpgradeCheck, Goto, ReadOnly, HeldLive, HandlesLive,
     Holding, FreesNone, StrongOnStart, StrongOnItem, StrongOnNew, WeakOnStart, WeakOnItem,
     WeakForGroup, At, HoldsValue, Janitoring, Live, Knows, Frames, NewNode, Linking,
     HandleKept, OnChain, Shape, Continues, DropShape, Updating, Upgrading, Dying, locals,
     client, heap, CallFrames
<1>7. CASE UpgradeUndo(t)
  <2>1. CASE LastStrong(item[t])
    <3>1. /\ pc[t] = "upg_undo"
          /\ SubStrong(item[t])
          /\ OnlyStrong
          /\ UNCHANGED <<pd, jn, dr, op>>
          /\ pc'[t] = "upg_undo_decw"
          /\ UNCHANGED <<item, av>>
      BY <1>k, <1>7, <2>1, UpgradeUndoEffect
    <3> QED BY <1>k, <1>r, <1>s, <2>1, <3>1, SMTT(30) DEF Starts, SubStrong, OnlyStrong,
     HeldLive, HandlesLive, Holding, FreesNone, StrongOnStart, StrongOnItem, StrongOnNew,
     WeakOnStart, WeakOnItem, WeakForGroup, At, HoldsValue, Janitoring, Live, Knows, Frames,
     NewNode, Linking, HandleKept, OnChain, Shape, Continues, DropShape, Updating, Upgrading,
     Dying, locals, client, heap, CallFrames
  <2>2. CASE ~LastStrong(item[t])
    <3>1. /\ pc[t] = "upg_undo"
          /\ SubStrong(item[t])
          /\ OnlyStrong
          /\ UNCHANGED <<pd, jn, dr, op>>
          /\ Starts(t, item[t], "weak", "upg_strong")
      BY <1>k, <1>7, <2>2, UpgradeUndoEffect
    <3> QED BY <1>k, <1>r, <1>s, <2>2, <3>1, SMTT(30) DEF Starts, SubStrong, OnlyStrong,
     HeldLive, HandlesLive, Holding, FreesNone, StrongOnStart, StrongOnItem, StrongOnNew,
     WeakOnStart, WeakOnItem, WeakForGroup, At, HoldsValue, Janitoring, Live, Knows, Frames,
     NewNode, Linking, HandleKept, OnChain, Shape, Continues, DropShape, Updating, Upgrading,
     Dying, locals, client, heap, CallFrames
  <2> QED BY <2>1, <2>2
<1>8. CASE UpgradeUndoDecWeak(t)
  <2>1. /\ pc[t] = "upg_undo_decw"
        /\ SubWeak(item[t])
        /\ OnlyWeak
        /\ UNCHANGED <<pd, jn, dr, op>>
        /\ Starts(t, item[t], "weak", "upg_strong")
    BY <1>k, <1>8, UpgradeUndoDecWeakEffect
  <2> QED BY <1>k, <1>r, <1>s, <2>1, SMTT(30) DEF Starts, SubWeak, OnlyWeak, HeldLive,
     HandlesLive, Holding, FreesNone, StrongOnStart, StrongOnItem, StrongOnNew, WeakOnStart,
     WeakOnItem, WeakForGroup, At, HoldsValue, Janitoring, Live, Knows, Frames, NewNode,
     Linking, HandleKept, OnChain, Shape, Continues, DropShape, Updating, Upgrading, Dying,
     locals, client, heap, CallFrames
<1>9. CASE UpgradeDone(t)
  BY <1>k, <1>r, <1>s, <1>9, SMTT(30) DEF UpgradeDone, SubWeak, Goto, OnlyWeak, HeldLive,
     HandlesLive, Holding, FreesNone, StrongOnStart, StrongOnItem, StrongOnNew, WeakOnStart,
     WeakOnItem, WeakForGroup, At, HoldsValue, Janitoring, Live, Knows, Frames, NewNode,
     Linking, HandleKept, OnChain, Shape, Continues, DropShape, Updating, Upgrading, Dying,
     locals, client, heap, CallFrames
<1> QED BY <1>1, <1>2, <1>3, <1>4, <1>5, <1>6, <1>7, <1>8, <1>9 DEF UpgradeStep

(* A step of a public function goes from live nodes to live nodes.*)
LEMMA ApiHeld ==
  ASSUME OrderInv, NEW t \in Threads, Shape(t), Holding(t), FreesNone, ApiStep(t),
         ~Return(t)
  PROVE  HeldLive(t)' /\ HandlesLive'
<1>k. TypeOK /\ Knows(pc[t], item[t], av[t], pd[t], jn[t], op[t])
  BY RegistersTyped DEF OrderInv
<1>r. /\ pc \in [Threads -> Labels] /\ item \in [Threads -> Nodes] /\ av \in [Threads -> AdvanceFrames]
      /\ pd \in [Threads -> PayloadFrames] /\ jn \in [Threads -> JanitorFrames]
      /\ dr \in [Threads -> DropFrames] /\ op \in [Threads -> CallFrames]
      /\ strong \in [Nodes -> 0..UsizeMax] /\ UsizeMax \in Nat /\ weak \in [Nodes -> WeakWords]
      /\ mem \in [Nodes -> {"unused", "private", "live", "freed"}] /\ prev \in [Nodes -> Ptrs]
      /\ stamp \in [Nodes -> Nat] /\ next \in [Nodes -> NextWords] /\ adv \in [Nodes -> Int]
      /\ handle \in [Handles -> HandleStates]
  BY HeapAssumption DEF OrderInv, TypeOK
<1>s. Shape(t) /\ Holding(t) /\ FreesNone
  OBVIOUS
<1>1. CASE GetLoad(t)
  <2>1. CASE NeedsReload(op[t].f, item[t])
    <3>1. /\ pc[t] = "get_load"
          /\ ReadOnly
          /\ UNCHANGED <<pd, dr, op>>
          /\ Starts(t, item[t], "strong", "jan_lock")
          /\ jn'[t].ret = "get_done"
      BY <1>k, <1>1, <2>1, GetLoadEffect
    <3> QED BY <1>k, <1>r, <1>s, <2>1, <3>1, SMTT(30) DEF Starts, ReadOnly, HeldLive,
     HandlesLive, Holding, FreesNone, StrongOnStart, StrongOnItem, StrongOnNew, WeakOnStart,
     WeakOnItem, WeakForGroup, At, HoldsValue, Janitoring, Live, Knows, Frames, NewNode,
     Linking, HandleKept, OnChain, Shape, Continues, DropShape, Updating, Upgrading, Dying,
     locals, client, heap, CallFrames
  <2>2. CASE ~NeedsReload(op[t].f, item[t])
    <3>1. /\ pc[t] = "get_load"
          /\ ReadOnly
          /\ UNCHANGED <<pd, dr, op>>
          /\ pc'[t] = AfterReload(op[t].f)
          /\ UNCHANGED <<item, av, jn>>
      BY <1>k, <1>1, <2>2, GetLoadEffect
    <3> QED BY <1>k, <1>r, <1>s, <2>2, <3>1, SMTT(30) DEF Starts, ReadOnly, AfterReload,
     HeldLive, HandlesLive, Holding, FreesNone, StrongOnStart, StrongOnItem, StrongOnNew,
     WeakOnStart, WeakOnItem, WeakForGroup, At, HoldsValue, Janitoring, Live, Knows, Frames,
     NewNode, Linking, HandleKept, OnChain, Shape, Continues, DropShape, Updating, Upgrading,
     Dying, locals, client, heap, CallFrames
  <2> QED BY <2>1, <2>2
<1>2. CASE GetDone(t)
  <2>1. CASE jn[t].rerun
    <3>1. /\ pc[t] = "get_done"
          /\ ReadOnly
          /\ UNCHANGED <<pd, jn, dr, op>>
          /\ Starts(t, item[t], "strong", "jan_lock")
      BY <1>k, <1>2, <2>1, GetDoneEffect
    <3> QED BY <1>k, <1>r, <1>s, <2>1, <3>1, SMTT(30) DEF Starts, ReadOnly, HeldLive,
     HandlesLive, Holding, FreesNone, StrongOnStart, StrongOnItem, StrongOnNew, WeakOnStart,
     WeakOnItem, WeakForGroup, At, HoldsValue, Janitoring, Live, Knows, Frames, NewNode,
     Linking, HandleKept, OnChain, Shape, Continues, DropShape, Updating, Upgrading, Dying,
     locals, client, heap, CallFrames
  <2>2. CASE ~jn[t].rerun
    <3>1. /\ pc[t] = "get_done"
          /\ ReadOnly
          /\ UNCHANGED <<pd, jn, dr, op>>
          /\ pc'[t] = AfterReload(op[t].f)
          /\ UNCHANGED <<item, av>>
      BY <1>k, <1>2, <2>2, GetDoneEffect
    <3> QED BY <1>k, <1>r, <1>s, <2>2, <3>1, SMTT(30) DEF Starts, ReadOnly, AfterReload,
     HeldLive, HandlesLive, Holding, FreesNone, StrongOnStart, StrongOnItem, StrongOnNew,
     WeakOnStart, WeakOnItem, WeakForGroup, At, HoldsValue, Janitoring, Live, Knows, Frames,
     NewNode, Linking, HandleKept, OnChain, Shape, Continues, DropShape, Updating, Upgrading,
     Dying, locals, client, heap, CallFrames
  <2> QED BY <2>1, <2>2
<1>3. CASE TryGetMutWeak(t)
  BY <1>k, <1>r, <1>s, <1>3, SMTT(30) DEF TryGetMutWeak, Goto, ReadOnly, HeldLive, HandlesLive,
     Holding, FreesNone, StrongOnStart, StrongOnItem, StrongOnNew, WeakOnStart, WeakOnItem,
     WeakForGroup, At, HoldsValue, Janitoring, Live, Knows, Frames, NewNode, Linking,
     HandleKept, OnChain, Shape, Continues, DropShape, Updating, Upgrading, Dying, locals,
     client, heap, CallFrames
<1>4. CASE TryGetMutStrong(t)
  BY <1>k, <1>r, <1>s, <1>4, SMTT(30) DEF TryGetMutStrong, Goto, ReadOnly, HeldLive,
     HandlesLive, Holding, FreesNone, StrongOnStart, StrongOnItem, StrongOnNew, WeakOnStart,
     WeakOnItem, WeakForGroup, At, HoldsValue, Janitoring, Live, Knows, Frames, NewNode,
     Linking, HandleKept, OnChain, Shape, Continues, DropShape, Updating, Upgrading, Dying,
     locals, client, heap, CallFrames
<1>5. CASE TryGetMutAgain(t)
  BY <1>k, <1>r, <1>s, <1>5, SMTT(30) DEF TryGetMutAgain, Goto, ReadOnly, HeldLive, HandlesLive,
     Holding, FreesNone, StrongOnStart, StrongOnItem, StrongOnNew, WeakOnStart, WeakOnItem,
     WeakForGroup, At, HoldsValue, Janitoring, Live, Knows, Frames, NewNode, Linking,
     HandleKept, OnChain, Shape, Continues, DropShape, Updating, Upgrading, Dying, locals,
     client, heap, CallFrames
<1>6. CASE SharedGetLoad(t)
  <2>1. CASE HasNext(Base(t))
    BY <1>k, <1>r, <1>s, <1>6, <2>1, SMTT(30) DEF SharedGetLoad, Goto, ReadOnly, HeldLive,
     HandlesLive, Holding, FreesNone, StrongOnStart, StrongOnItem, StrongOnNew, WeakOnStart,
     WeakOnItem, WeakForGroup, At, HoldsValue, Janitoring, Live, Knows, Frames, NewNode,
     Linking, HandleKept, OnChain, Shape, Continues, DropShape, Updating, Upgrading, Dying,
     locals, client, heap, CallFrames
  <2>2. CASE ~HasNext(Base(t))
    BY <1>k, <1>r, <1>s, <1>6, <2>2, SMTT(30) DEF SharedGetLoad, Goto, ReadOnly, HeldLive,
     HandlesLive, Holding, FreesNone, StrongOnStart, StrongOnItem, StrongOnNew, WeakOnStart,
     WeakOnItem, WeakForGroup, At, HoldsValue, Janitoring, Live, Knows, Frames, NewNode,
     Linking, HandleKept, OnChain, Shape, Continues, DropShape, Updating, Upgrading, Dying,
     locals, client, heap, CallFrames
  <2> QED BY <2>1, <2>2
<1>7. CASE SharedGetInc(t)
  BY <1>k, <1>r, <1>s, <1>7, SMTT(30) DEF SharedGetInc, Goto, OnlyAdv, HeldLive, HandlesLive,
     Holding, FreesNone, StrongOnStart, StrongOnItem, StrongOnNew, WeakOnStart, WeakOnItem,
     WeakForGroup, At, HoldsValue, Janitoring, Live, Knows, Frames, NewNode, Linking,
     HandleKept, OnChain, Shape, Continues, DropShape, Updating, Upgrading, Dying, locals,
     client, heap, CallFrames
<1>8. CASE SharedGetNext(t)
  BY <1>k, <1>r, <1>s, <1>8, SMTT(30) DEF SharedGetNext, Goto, ReadOnly, HeldLive, HandlesLive,
     Holding, FreesNone, StrongOnStart, StrongOnItem, StrongOnNew, WeakOnStart, WeakOnItem,
     WeakForGroup, At, HoldsValue, Janitoring, Live, Knows, Frames, NewNode, Linking,
     HandleKept, OnChain, Shape, Continues, DropShape, Updating, Upgrading, Dying, locals,
     client, heap, CallFrames
<1>9. CASE SharedGetStrong(t)
  BY <1>k, <1>r, <1>s, <1>9, SMTT(30) DEF SharedGetStrong, Goto, ReadOnly, HeldLive,
     HandlesLive, Holding, FreesNone, StrongOnStart, StrongOnItem, StrongOnNew, WeakOnStart,
     WeakOnItem, WeakForGroup, At, HoldsValue, Janitoring, Live, Knows, Frames, NewNode,
     Linking, HandleKept, OnChain, Shape, Continues, DropShape, Updating, Upgrading, Dying,
     locals, client, heap, CallFrames
<1>10. CASE SharedGetCas(t)
  <2>1. CASE strong[op[t].nxt] = op[t].cs
    BY <1>k, <1>r, <1>s, <1>10, <2>1, SMTT(30) DEF SharedGetCas, AddStrong, Goto, OnlyStrong,
     HeldLive, HandlesLive, Holding, FreesNone, StrongOnStart, StrongOnItem, StrongOnNew,
     WeakOnStart, WeakOnItem, WeakForGroup, At, HoldsValue, Janitoring, Live, Knows, Frames,
     NewNode, Linking, HandleKept, OnChain, Shape, Continues, DropShape, Updating, Upgrading,
     Dying, locals, client, heap, CallFrames
  <2>2. CASE strong[op[t].nxt] # op[t].cs
    BY <1>k, <1>r, <1>s, <1>10, <2>2, SMTT(30) DEF SharedGetCas, AddStrong, Goto, OnlyStrong,
     HeldLive, HandlesLive, Holding, FreesNone, StrongOnStart, StrongOnItem, StrongOnNew,
     WeakOnStart, WeakOnItem, WeakForGroup, At, HoldsValue, Janitoring, Live, Knows, Frames,
     NewNode, Linking, HandleKept, OnChain, Shape, Continues, DropShape, Updating, Upgrading,
     Dying, locals, client, heap, CallFrames
  <2> QED BY <2>1, <2>2
<1>11. CASE SharedGetRecheck(t)
  <2>1. CASE HasNext(op[t].nxt)
    <3>1. /\ pc[t] = "sg_recheck"
          /\ ReadOnly
          /\ UNCHANGED <<pd, jn, op>>
          /\ Starts(t, op[t].nxt, "strong", "ds_dec")
          /\ dr'[t] = [IdleDrop EXCEPT !.ret = "sg_dec"]
      BY <1>k, <1>11, <2>1, SharedGetRecheckEffect
    <3> QED BY <1>k, <1>r, <1>s, <2>1, <3>1, SMTT(30) DEF Starts, ReadOnly, IdleDrop, HeldLive,
     HandlesLive, Holding, FreesNone, StrongOnStart, StrongOnItem, StrongOnNew, WeakOnStart,
     WeakOnItem, WeakForGroup, At, HoldsValue, Janitoring, Live, Knows, Frames, NewNode,
     Linking, HandleKept, OnChain, Shape, Continues, DropShape, Updating, Upgrading, Dying,
     locals, client, heap, CallFrames
  <2>2. CASE ~HasNext(op[t].nxt)
    <3>1. /\ pc[t] = "sg_recheck"
          /\ ReadOnly
          /\ UNCHANGED <<pd, jn, op>>
          /\ pc'[t] = "sg_light"
          /\ UNCHANGED <<item, av, dr>>
      BY <1>k, <1>11, <2>2, SharedGetRecheckEffect
    <3> QED BY <1>k, <1>r, <1>s, <2>2, <3>1, SMTT(30) DEF Starts, ReadOnly, HeldLive,
     HandlesLive, Holding, FreesNone, StrongOnStart, StrongOnItem, StrongOnNew, WeakOnStart,
     WeakOnItem, WeakForGroup, At, HoldsValue, Janitoring, Live, Knows, Frames, NewNode,
     Linking, HandleKept, OnChain, Shape, Continues, DropShape, Updating, Upgrading, Dying,
     locals, client, heap, CallFrames
  <2> QED BY <2>1, <2>2
<1>12. CASE SharedGetLight(t)
  BY <1>k, <1>r, <1>s, <1>12, SMTT(30) DEF SharedGetLight, Goto, OnlyAdv, HeldLive, HandlesLive,
     Holding, FreesNone, StrongOnStart, StrongOnItem, StrongOnNew, WeakOnStart, WeakOnItem,
     WeakForGroup, At, HoldsValue, Janitoring, Live, Knows, Frames, NewNode, Linking,
     HandleKept, OnChain, Shape, Continues, DropShape, Updating, Upgrading, Dying, locals,
     client, heap, CallFrames
<1>13. CASE SharedGetDec(t)
  BY <1>k, <1>r, <1>s, <1>13, SMTT(30) DEF SharedGetDec, Goto, OnlyAdv, HeldLive, HandlesLive,
     Holding, FreesNone, StrongOnStart, StrongOnItem, StrongOnNew, WeakOnStart, WeakOnItem,
     WeakForGroup, At, HoldsValue, Janitoring, Live, Knows, Frames, NewNode, Linking,
     HandleKept, OnChain, Shape, Continues, DropShape, Updating, Upgrading, Dying, locals,
     client, heap, CallFrames
<1>14. CASE SharedGetClone(t)
  <2>1. /\ pc[t] = "sg_clone"
        /\ AddStrong(Base(t))
        /\ OnlyStrong
        /\ UNCHANGED <<pd, jn, dr>>
        /\ Starts(t, Base(t), "strong", "reading")
        /\ op'[t] = [op[t] EXCEPT !.guard = "full"]
    BY <1>k, <1>14, SharedGetCloneEffect
  <2> QED BY <1>k, <1>r, <1>s, <2>1, SMTT(30) DEF Starts, AddStrong, OnlyStrong, HeldLive,
     HandlesLive, Holding, FreesNone, StrongOnStart, StrongOnItem, StrongOnNew, WeakOnStart,
     WeakOnItem, WeakForGroup, At, HoldsValue, Janitoring, Live, Knows, Frames, NewNode,
     Linking, HandleKept, OnChain, Shape, Continues, DropShape, Updating, Upgrading, Dying,
     locals, client, heap, CallFrames, Base
<1>15. CASE FinishReading(t)
  <2>1. CASE op[t].guard \in {"light", "full"}
    <3>1. /\ pc[t] \in {"reading", "mutref"}
          /\ ReadOnly
          /\ UNCHANGED <<pd, jn, op>>
          /\ Starts(t, item[t], "strong", "ds_dec")
          /\ dr'[t] = [IdleDrop EXCEPT !.ret = "ret"]
      BY <1>k, <1>15, <2>1, FinishReadingEffect
    <3> QED BY <1>k, <1>r, <1>s, <2>1, <3>1, SMTT(30) DEF Starts, ReadOnly, IdleDrop, HeldLive,
     HandlesLive, Holding, FreesNone, StrongOnStart, StrongOnItem, StrongOnNew, WeakOnStart,
     WeakOnItem, WeakForGroup, At, HoldsValue, Janitoring, Live, Knows, Frames, NewNode,
     Linking, HandleKept, OnChain, Shape, Continues, DropShape, Updating, Upgrading, Dying,
     locals, client, heap, CallFrames
  <2>2. CASE op[t].guard \notin {"light", "full"}
    <3>1. /\ pc[t] \in {"reading", "mutref"}
          /\ ReadOnly
          /\ UNCHANGED <<pd, jn, op>>
          /\ pc'[t] = "ret"
          /\ UNCHANGED <<item, av, dr>>
      BY <1>k, <1>15, <2>2, FinishReadingEffect
    <3> QED BY <1>k, <1>r, <1>s, <2>2, <3>1, SMTT(30) DEF Starts, ReadOnly, HeldLive,
     HandlesLive, Holding, FreesNone, StrongOnStart, StrongOnItem, StrongOnNew, WeakOnStart,
     WeakOnItem, WeakForGroup, At, HoldsValue, Janitoring, Live, Knows, Frames, NewNode,
     Linking, HandleKept, OnChain, Shape, Continues, DropShape, Updating, Upgrading, Dying,
     locals, client, heap, CallFrames
  <2> QED BY <2>1, <2>2
<1> QED BY <1>1, <1>2, <1>3, <1>4, <1>5, <1>6, <1>7, <1>8, <1>9, <1>10, <1>11, <1>12, <1>13,
  <1>14, <1>15 DEF ApiStep

(* The result of a call is a live node.                                     *)
LEMMA ReturnHeld ==
  ASSUME OrderInv, NEW t \in Threads, Shape(t), Holding(t), Return(t)
  PROVE  HeldLive(t)' /\ HandlesLive'
<1>k. TypeOK /\ Knows(pc[t], item[t], av[t], pd[t], jn[t], op[t])
  BY RegistersTyped DEF OrderInv
<1>r. /\ pc \in [Threads -> Labels] /\ item \in [Threads -> Nodes] /\ av \in [Threads -> AdvanceFrames]
      /\ pd \in [Threads -> PayloadFrames] /\ jn \in [Threads -> JanitorFrames]
      /\ dr \in [Threads -> DropFrames] /\ op \in [Threads -> CallFrames]
      /\ strong \in [Nodes -> 0..UsizeMax] /\ UsizeMax \in Nat /\ weak \in [Nodes -> WeakWords]
      /\ mem \in [Nodes -> {"unused", "private", "live", "freed"}] /\ prev \in [Nodes -> Ptrs]
      /\ stamp \in [Nodes -> Nat] /\ next \in [Nodes -> NextWords] /\ adv \in [Nodes -> Int]
      /\ handle \in [Handles -> HandleStates]
  BY HeapAssumption DEF OrderInv, TypeOK
<1>1. /\ pc[t] = "ret" /\ pc'[t] = "idle" /\ UNCHANGED <<heap, av, pd, dr>> /\ op'[t] = IdleOp
      /\ handle' = Result(t)
  BY <1>r DEF Return, Goto
<1>2. ASSUME NEW h \in Handles, handle'[h].kind \in {"strong", "weak"}
      PROVE  Live(handle'[h].node)
  <2>1. CASE handle'[h] = handle[h]
    BY <1>2, <2>1 DEF Holding, HandlesLive
  <2>2. CASE handle'[h] = [kind |-> "strong", node |-> item[t]] /\ HoldsValue(op[t].f) /\ op[t].ok
    BY <1>1, <2>2 DEF Holding, HeldLive, StrongOnItem
  <2>3. CASE handle'[h] = NoHandle
    BY <1>2, <2>3 DEF NoHandle
  <2>4. \/ handle'[h] = handle[h] \/ handle'[h] = NoHandle
        \/ handle'[h] = [kind |-> "strong", node |-> item[t]] /\ HoldsValue(op[t].f) /\ (op[t].ok \/ op[t].f = "rcu")
    <3>1. op[t].f \in {"upgrade", "rcu"} \/ op[t].ok
      BY DEF Shape
    <3> QED BY <1>r, <1>1, <3>1 DEF Result, HoldsValue
  <2>5. CASE handle'[h] = [kind |-> "strong", node |-> item[t]] /\ op[t].f = "rcu"
    BY <1>1, <2>5 DEF Holding, HeldLive, StrongOnItem
  <2> QED BY <2>1, <2>2, <2>3, <2>4, <2>5
<1>3. HandlesLive'
  BY <1>1, <1>2 DEF HandlesLive, Live, heap
<1>4. HeldLive(t)'
  BY <1>1 DEF HeldLive, StrongOnStart, WeakOnStart, StrongOnItem, WeakOnItem, WeakForGroup, StrongOnNew, At, Janitoring
<1> QED BY <1>3, <1>4

(* A call begins with the node of a handle.                                 *)
LEMMA CallHeld ==
  ASSUME OrderInv, NEW t \in Threads, Shape(t), Holding(t), FreesNone, Call(t)
  PROVE  HeldLive(t)' /\ HandlesLive'
<1>k. TypeOK /\ Knows(pc[t], item[t], av[t], pd[t], jn[t], op[t])
  BY RegistersTyped DEF OrderInv
<1>r. /\ pc \in [Threads -> Labels] /\ item \in [Threads -> Nodes] /\ av \in [Threads -> AdvanceFrames]
      /\ pd \in [Threads -> PayloadFrames] /\ jn \in [Threads -> JanitorFrames]
      /\ dr \in [Threads -> DropFrames] /\ op \in [Threads -> CallFrames]
      /\ strong \in [Nodes -> 0..UsizeMax] /\ UsizeMax \in Nat /\ weak \in [Nodes -> WeakWords]
      /\ mem \in [Nodes -> {"unused", "private", "live", "freed"}] /\ prev \in [Nodes -> Ptrs]
      /\ stamp \in [Nodes -> Nat] /\ next \in [Nodes -> NextWords] /\ adv \in [Nodes -> Int]
      /\ handle \in [Handles -> HandleStates]
  BY HeapAssumption DEF OrderInv, TypeOK
<1>s. Shape(t) /\ Holding(t) /\ FreesNone
  OBVIOUS
<1>1. ASSUME NEW h \in Handles, NEW o \in Handles, Clone(t, h, o)
      PROVE  HeldLive(t)' /\ HandlesLive'
  <2>1. /\ Entered(t, "clone", h, o, Null)
        /\ handle[h].kind = "strong"
        /\ handle[o].kind = "none"
        /\ handle' = [handle EXCEPT ![o] = Busy]
        /\ AddStrong(handle[h].node)
        /\ Starts(t, handle[h].node, "strong", "ret")
        /\ UNCHANGED <<next, prev, weak, adv, mem, drops, jn, dr>>
    BY <1>k, <1>1, CloneEffect
  <2> QED BY <1>k, <1>r, <1>s, <2>1, SMTT(30) DEF Entered, Starts, Busy, AddStrong, HeldLive,
     HandlesLive, Holding, FreesNone, StrongOnStart, StrongOnItem, StrongOnNew, WeakOnStart,
     WeakOnItem, WeakForGroup, At, HoldsValue, Janitoring, Live, Knows, Frames, NewNode,
     Linking, HandleKept, OnChain, Shape, Continues, DropShape, Updating, Upgrading, Dying,
     locals, client, heap, CallFrames, HandleStates
<1>2. ASSUME NEW f, NEW h \in Handles, NEW o \in Handles, CloneWeak(t, f, h, o)
      PROVE  HeldLive(t)' /\ HandlesLive'
  <2>1. /\ pc[t] = "idle"
        /\ handle[h].kind = IF f = "downgrade" THEN "strong" ELSE "weak"
        /\ handle[o].kind = "none"
        /\ handle' = [handle EXCEPT ![o] = [kind |-> "weak", node |-> handle[h].node]]
        /\ AddWeak(handle[h].node)
        /\ UNCHANGED <<next, prev, strong, adv, mem, drops, stamp, count, pc, locals>>
    BY <1>k, <1>2, CloneWeakEffect
  <2> QED BY <1>k, <1>r, <1>s, <2>1, SMTT(30) DEF Entered, Starts, AddWeak, HeldLive,
     HandlesLive, Holding, FreesNone, StrongOnStart, StrongOnItem, StrongOnNew, WeakOnStart,
     WeakOnItem, WeakForGroup, At, HoldsValue, Janitoring, Live, Knows, Frames, NewNode,
     Linking, HandleKept, OnChain, Shape, Continues, DropShape, Updating, Upgrading, Dying,
     locals, client, heap, CallFrames, HandleStates
<1>3. ASSUME NEW h \in Handles, NEW o \in Handles, Upgrade(t, h, o)
      PROVE  HeldLive(t)' /\ HandlesLive'
  <2>1. /\ Entered(t, "upgrade", h, o, Null)
        /\ handle[h].kind = "weak"
        /\ handle[o].kind = "none"
        /\ handle' = [handle EXCEPT ![o] = Busy]
        /\ AddWeak(handle[h].node)
        /\ Starts(t, handle[h].node, "weak", "upg_strong")
        /\ UNCHANGED <<next, prev, strong, adv, mem, drops, jn, dr>>
    BY <1>k, <1>3, UpgradeEffect
  <2> QED BY <1>k, <1>r, <1>s, <2>1, SMTT(30) DEF Entered, Starts, Busy, AddWeak, HeldLive,
     HandlesLive, Holding, FreesNone, StrongOnStart, StrongOnItem, StrongOnNew, WeakOnStart,
     WeakOnItem, WeakForGroup, At, HoldsValue, Janitoring, Live, Knows, Frames, NewNode,
     Linking, HandleKept, OnChain, Shape, Continues, DropShape, Updating, Upgrading, Dying,
     locals, client, heap, CallFrames, HandleStates
<1>4. ASSUME NEW h \in Handles, Update(t, h)
      PROVE  HeldLive(t)' /\ HandlesLive'
  <2>1. /\ Unused # {}
        /\ Entered(t, "update", h, h, FreshNode)
        /\ handle[h].kind = "strong"
        /\ \A u \in Threads : pc[u] # "idle" => op[u].hnd # h
        /\ handle' = [handle EXCEPT ![h] = Busy]
        /\ NewHolder(FreshNode, handle[h].node)
        /\ Starts(t, handle[h].node, "strong", "upd_next")
        /\ UNCHANGED <<next, adv, drops, jn, dr>>
    BY <1>k, <1>4, UpdateEffect
  <2>2. FreshNode \in Nodes /\ mem[FreshNode] = "unused" /\ ~Published(FreshNode)
    BY <2>1, FreshIsUnused
  <2> QED BY <1>k, <1>r, <1>s, <2>1, <2>2, SMTT(30) DEF Entered, Starts, Busy, NewHolder,
     HeldLive, HandlesLive, Holding, FreesNone, StrongOnStart, StrongOnItem, StrongOnNew,
     WeakOnStart, WeakOnItem, WeakForGroup, At, HoldsValue, Janitoring, Live, Knows, Frames,
     NewNode, Linking, HandleKept, OnChain, Shape, Continues, DropShape, Updating, Upgrading,
     Dying, locals, client, heap, CallFrames, HandleStates
<1>5. ASSUME NEW h \in Handles, Rcu(t, h)
      PROVE  HeldLive(t)' /\ HandlesLive'
  <2>1. /\ Entered(t, "rcu", h, h, Null)
        /\ handle[h].kind = "strong"
        /\ \A u \in Threads : pc[u] # "idle" => op[u].hnd # h
        /\ handle' = [handle EXCEPT ![h] = Busy]
        /\ Starts(t, handle[h].node, "strong", "upd_next")
        /\ UNCHANGED <<heap, jn, dr>>
    BY <1>k, <1>5, RcuEffect
  <2> QED BY <1>k, <1>r, <1>s, <2>1, SMTT(30) DEF Entered, Starts, Busy, HeldLive, HandlesLive,
     Holding, FreesNone, StrongOnStart, StrongOnItem, StrongOnNew, WeakOnStart, WeakOnItem,
     WeakForGroup, At, HoldsValue, Janitoring, Live, Knows, Frames, NewNode, Linking,
     HandleKept, OnChain, Shape, Continues, DropShape, Updating, Upgrading, Dying, locals,
     client, heap, CallFrames, HandleStates
<1>6. ASSUME NEW f, NEW h \in Handles, DropShift(t, f, h)
      PROVE  HeldLive(t)' /\ HandlesLive'
  <2>1. /\ f \in {"drop", "intoInner"}
        /\ Entered(t, f, h, h, Null)
        /\ handle[h].kind = "strong"
        /\ \A u \in Threads : pc[u] # "idle" => op[u].hnd # h
        /\ handle' = [handle EXCEPT ![h] = Busy]
        /\ Starts(t, handle[h].node, "strong", "ds_dec")
        /\ dr'[t] = [IdleDrop EXCEPT !.ret = "ret"]
        /\ UNCHANGED <<heap, jn>>
    BY <1>k, <1>6, DropShiftEffect
  <2> QED BY <1>k, <1>r, <1>s, <2>1, SMTT(30) DEF Entered, Starts, Busy, IdleDrop, HeldLive,
     HandlesLive, Holding, FreesNone, StrongOnStart, StrongOnItem, StrongOnNew, WeakOnStart,
     WeakOnItem, WeakForGroup, At, HoldsValue, Janitoring, Live, Knows, Frames, NewNode,
     Linking, HandleKept, OnChain, Shape, Continues, DropShape, Updating, Upgrading, Dying,
     locals, client, heap, CallFrames, HandleStates
<1>7. ASSUME NEW h \in Handles, DropShiftWeak(t, h)
      PROVE  HeldLive(t)' /\ HandlesLive'
  <2>1. /\ Entered(t, "dropWeak", h, h, Null)
        /\ handle[h].kind = "weak"
        /\ \A u \in Threads : pc[u] # "idle" => op[u].hnd # h
        /\ handle' = [handle EXCEPT ![h] = Busy]
        /\ Starts(t, handle[h].node, "weak", "jan_lock")
        /\ jn'[t] = [IdleJanitor EXCEPT !.ret = "dw_weak"]
        /\ dr'[t] = [IdleDrop EXCEPT !.ret = "ret"]
        /\ UNCHANGED heap
    BY <1>k, <1>7, DropShiftWeakEffect
  <2> QED BY <1>k, <1>r, <1>s, <2>1, SMTT(30) DEF Entered, Starts, Busy, IdleJanitor, IdleDrop,
     HeldLive, HandlesLive, Holding, FreesNone, StrongOnStart, StrongOnItem, StrongOnNew,
     WeakOnStart, WeakOnItem, WeakForGroup, At, HoldsValue, Janitoring, Live, Knows, Frames,
     NewNode, Linking, HandleKept, OnChain, Shape, Continues, DropShape, Updating, Upgrading,
     Dying, locals, client, heap, CallFrames, HandleStates
<1>8. ASSUME NEW f, NEW h \in Handles, Reload(t, f, h)
      PROVE  HeldLive(t)' /\ HandlesLive'
  <2>1. /\ f \in {"get", "reload", "tryGetMut"}
        /\ Entered(t, f, h, h, Null)
        /\ handle[h].kind = "strong"
        /\ \A u \in Threads : pc[u] # "idle" => op[u].hnd # h
        /\ handle' = [handle EXCEPT ![h] = Busy]
        /\ item'[t] = handle[h].node
        /\ pc'[t] = "get_load"
        /\ UNCHANGED <<heap, av, jn, dr>>
    BY <1>k, <1>8, ReloadEffect
  <2> QED BY <1>k, <1>r, <1>s, <2>1, SMTT(30) DEF Entered, Starts, Busy, HeldLive, HandlesLive,
     Holding, FreesNone, StrongOnStart, StrongOnItem, StrongOnNew, WeakOnStart, WeakOnItem,
     WeakForGroup, At, HoldsValue, Janitoring, Live, Knows, Frames, NewNode, Linking,
     HandleKept, OnChain, Shape, Continues, DropShape, Updating, Upgrading, Dying, locals,
     client, heap, CallFrames, HandleStates
<1>9. ASSUME NEW h \in Handles, SharedGet(t, h)
      PROVE  HeldLive(t)' /\ HandlesLive'
  <2>1. /\ Entered(t, "sharedGet", h, h, Null)
        /\ handle[h].kind = "strong"
        /\ pc'[t] = "sg_load"
        /\ UNCHANGED <<heap, handle, item, av, jn, dr>>
    BY <1>k, <1>9, SharedGetEffect
  <2> QED BY <1>k, <1>r, <1>s, <2>1, SMTT(30) DEF Entered, Starts, HeldLive, HandlesLive,
     Holding, FreesNone, StrongOnStart, StrongOnItem, StrongOnNew, WeakOnStart, WeakOnItem,
     WeakForGroup, At, HoldsValue, Janitoring, Live, Knows, Frames, NewNode, Linking,
     HandleKept, OnChain, Shape, Continues, DropShape, Updating, Upgrading, Dying, locals,
     client, heap, CallFrames, HandleStates
<1> QED BY <1>1, <1>2, <1>3, <1>4, <1>5, <1>6, <1>7, <1>8, <1>9 DEF Call
===============================================================================
