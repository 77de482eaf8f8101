-------------------------- MODULE ArcShiftSafeProofs --------------------------
(***************************************************************************)
(* The links of freed neighbours, the teardown of the chain and the        *)
(* payloads; and with them the invariant SafeInv and the theorems of       *)
(* memory safety.                                                          *)
(***************************************************************************)
EXTENDS ArcShiftCallProofs

USE DEF Advancing, Dropping, Walking, Swapping, SwappedIn, SharedGetting

(* weak_count stays the number of weak references in every step.           *)

(* Links change where a node is linked in, unlinked or freed.               *)
LEMMA LinksStay ==
  ASSUME SafeInv, NEW t \in Threads, AnyStep(t), ~JanitorFree(t), ~JanitorUnlink(t), ~DropWeakFree(t),
         ~(UpdateCas(t) /\ CanLink(item[t], op[t].nw))
  PROVE  \A k \in Nodes : /\ mem'[k] = "live" <=> mem[k] = "live"
                          /\ mem[k] = "live" => prev'[k] = prev[k]
<1>1. SUFFICES ASSUME NEW k \in Nodes
               PROVE  (mem'[k] = "live" <=> mem[k] = "live") /\ (mem[k] = "live" => prev'[k] = prev[k])
  OBVIOUS
<1>2. MemMoves(t, k) /\ PrevMoves(t, k)
  BY StepFacts DEF Moves
<1> QED BY <1>2 DEF MemMoves, PrevMoves, Live

\* what the step changes is balanced, whatever link one looks at
LEMMA HandBalance ==
  ASSUME SafeInv, NEW t \in Threads, AnyStep(t), NEW x \in Handles, NEW m \in Nodes, OnlyHandle(x), WeakByHand(t, x),
         \A k \in Nodes : /\ mem'[k] = "live" <=> mem[k] = "live"
                          /\ mem[k] = "live" => prev'[k] = prev[k]
  PROVE  LinksBut(m) /\ WeakAll(t, x, m)
<1>1. LinksBut(m)
  BY DEF LinksBut
<1>2. SUFFICES ASSUME NEW n \in Nodes, Live(n)
               PROVE  weak'[n].count - WeakOf(t, x, m, n)' = weak[n].count - WeakOf(t, x, m, n)
  BY <1>1 DEF WeakAll
<1>3. weak'[n].count - WeakHand(t, x, n)' = weak[n].count - WeakHand(t, x, n)
  BY <1>2 DEF WeakByHand
<1>4. Ind(mem[m] = "live" /\ prev[m] = n)' = Ind(mem[m] = "live" /\ prev[m] = n)
  BY DEF Ind
<1>5. WeakHand(t, x, n) \in Int /\ WeakHand(t, x, n)' \in Int
  BY DEF WeakHand, WeakMine, Ind
<1>6. weak[n].count \in Int /\ weak'[n].count \in Int /\ Ind(mem[m] = "live" /\ prev[m] = n) \in Int
  BY SafeParts, NodesTyped, StepFacts DEF TypeOK, WeakWords, Ind
<1> QED BY <1>3, <1>4, <1>5, <1>6 DEF WeakOf

(* The call that returns gives its weak reference to a handle, if to any.   *)
LEMMA ReturnWeak ==
  ASSUME SafeInv, NEW t \in Threads, Return(t)
  PROVE  \E x \in Handles : WeakByHand(t, x) /\ OnlyHandle(x)
<1>k. Knows(pc[t], item[t], av[t], pd[t], jn[t], op[t]) /\ TypeOK
  BY SafeParts, RegistersTyped DEF OrderInv
<1>r. /\ op \in [Threads -> CallFrames] /\ handle \in [Handles -> HandleStates] /\ pc \in [Threads -> Labels]
  BY <1>k DEF TypeOK
<1>x. PICK x \in Handles : x = IF op[t].f \in Storing THEN ResultHandle(op[t]) ELSE op[t].hnd
  BY <1>r DEF CallFrames, ResultHandle
<1>1. /\ pc[t] = "ret" /\ pc'[t] = "idle" /\ UNCHANGED <<weak, strong>> /\ handle' = Result(t)
  BY <1>r DEF Return, Goto, heap
<1>2. op[t].f \in Functions \cup {"none"}
  BY <1>r DEF CallFrames
<1>3. handle' = handle \/ (OnlyHandle(x) /\ handle[x].kind # "weak" /\ handle'[x].kind # "weak")
  <2>1. CASE op[t].f \in {"clone", "upgrade"}
    <3>1. handle' = [handle EXCEPT ![op[t].out] = IF op[t].ok THEN [kind |-> "strong", node |-> item[t]] ELSE NoHandle] /\ handle[op[t].out].kind = "busy" /\ x = op[t].out
      BY <1>1, <1>x, <2>1, <1>k DEF Result, Knows, HandleKept, Storing, ResultHandle, Functions
    <3> QED BY <1>r, <3>1 DEF NoHandle, OnlyHandle
  <2>2. CASE op[t].f \in {"get", "reload", "tryGetMut", "update", "rcu"}
    <3>1. handle' = [handle EXCEPT ![op[t].hnd] = [kind |-> "strong", node |-> item[t]]] /\ handle[op[t].hnd].kind = "busy" /\ x = op[t].hnd
      BY <1>1, <1>x, <2>2, <1>k DEF Result, Knows, HandleKept, Storing, ResultHandle, Functions
    <3> QED BY <1>r, <3>1 DEF NoHandle, OnlyHandle
  <2>3. CASE op[t].f \in {"drop", "dropWeak", "intoInner"}
    <3>1. handle' = [handle EXCEPT ![op[t].hnd] = NoHandle] /\ handle[op[t].hnd].kind = "busy" /\ x = op[t].hnd
      BY <1>1, <1>x, <2>3, <1>k DEF Result, Knows, HandleKept, Storing, ResultHandle, Functions
    <3> QED BY <1>r, <3>1 DEF NoHandle, OnlyHandle
  <2>4. CASE op[t].f \in {"none", "downgrade", "cloneWeak", "sharedGet"}
    BY <1>1, <2>4 DEF Result
  <2> QED BY <1>2, <2>1, <2>2, <2>3, <2>4 DEF Functions
<1>4. OnlyHandle(x)
  BY <1>3 DEF OnlyHandle
<1>5. \A n : handle'[x] = [kind |-> "weak", node |-> n] <=> handle[x] = [kind |-> "weak", node |-> n]
  BY <1>3
<1>6. \A n \in Nodes : WeakMine(t, n) = Ind(LiveStrong(strong[n]) > 0) /\ WeakMine(t, n)' = Ind(LiveStrong(strong[n]) > 0)
  <2>1. /\ ~WeakOnStart(t) /\ ~WeakOnItem(t) /\ ~WeakForGroup(t) /\ pc[t] \notin {"adv_dec", "adv_unweak"} /\ ~WeakOnGap(t)
        /\ ~WeakOnStart(t)' /\ ~WeakOnItem(t)' /\ ~WeakForGroup(t)' /\ pc'[t] \notin {"adv_dec", "adv_unweak"} /\ ~WeakOnGap(t)'
    BY <1>1 DEF WeakOnStart, WeakOnItem, WeakForGroup, WeakOnGap, At, Janitoring
  <2>2. \A n \in Nodes : LiveStrong(strong[n])' = LiveStrong(strong[n])
    BY <1>1 DEF LiveStrong
  <2> QED BY <2>1, <2>2 DEF WeakMine, Ind
<1>7. \A n \in Nodes : WeakHand(t, x, n)' = WeakHand(t, x, n)
  <2>1. \A n \in Nodes : Ind(handle[x] = [kind |-> "weak", node |-> n])' = Ind(handle[x] = [kind |-> "weak", node |-> n])
    BY <1>5 DEF Ind
  <2> QED BY <1>6, <2>1 DEF WeakHand
<1>8. WeakByHand(t, x)
  BY <1>1, <1>7 DEF WeakByHand
<1> QED BY <1>4, <1>8

(* A step that leaves the handles and the links alone.                      *)
LEMMA MineBalance ==
  ASSUME SafeInv, NEW t \in Threads, Step(t), ~Return(t), NEW x \in Handles, WeakStep(t)
  PROVE  OnlyHandle(x) /\ \A n \in Nodes : Live(n) /\ Live(n)' => weak'[n].count - WeakHand(t, x, n)' = weak[n].count - WeakHand(t, x, n)
<1>1. UNCHANGED handle
  BY SafeParts, NodesTyped, HandlesStay
<1>2. ASSUME NEW n \in Nodes, Live(n), Live(n)'
      PROVE  weak'[n].count - WeakHand(t, x, n)' = weak[n].count - WeakHand(t, x, n)
  <2>1. weak'[n].count - WeakMine(t, n)' = weak[n].count - WeakMine(t, n)
    BY <1>2 DEF WeakStep
  <2>2. WeakMine(t, n) \in Int /\ WeakMine(t, n)' \in Int
    BY DEF WeakMine, Ind
  <2>3. /\ Ind(handle[x] = [kind |-> "weak", node |-> n])' = Ind(handle[x] = [kind |-> "weak", node |-> n])
        /\ Ind(handle[x] = [kind |-> "weak", node |-> n]) \in Int
    BY <1>1 DEF Ind
  <2>4. weak[n].count \in Int /\ weak'[n].count \in Int
    BY SafeParts, NodesTyped, StepFacts DEF TypeOK, WeakWords, AnyStep
  <2> QED BY <2>1, <2>2, <2>3, <2>4 DEF WeakHand
<1> QED BY <1>1, <1>2 DEF OnlyHandle

(* The janitor frees a node: its link to the left becomes that of the gap.  *)
LEMMA FreeBalance ==
  ASSUME SafeInv, NEW t \in Threads, JanitorFree(t), NEW x \in Handles
  PROVE  OnlyHandle(x) /\ LinksBut(jn[t].del) /\ WeakAll(t, x, jn[t].del)
<1>1. PICK d \in Nodes : d = jn[t].del
  BY OnlyLink DEF JanitorFree, Janitor
<1>2. /\ pc[t] = "jan_free" /\ UNCHANGED <<handle, item, av, next, prev, strong, weak>> /\ mem' = [mem EXCEPT ![d] = "freed"]
      /\ pc'[t] = IF prev[d] = Null THEN "jan_clearprev" ELSE "jan_del"
      /\ jn'[t].cur = jn[t].cur /\ jn'[t].del = prev[d]
  BY <1>1, SafeParts, NodesTyped, JanitorFreeMoves
<1>3. /\ Live(d) /\ Null \notin Nodes /\ mem \in [Nodes -> {"unused", "private", "live", "freed"}] /\ stamp \in [Nodes -> Nat]
      /\ weak \in [Nodes -> WeakWords]
  BY <1>1, <1>2, OnlyLink, SafeParts, NodesTyped
<1>4. mem'[d] = "freed" /\ \A k \in Nodes \ {d} : mem'[k] = mem[k]
  BY <1>2, <1>3
<1>5. OnlyHandle(x) /\ LinksBut(d)
  BY <1>2, <1>4 DEF OnlyHandle, LinksBut
<1>6. ASSUME NEW n \in Nodes, Live(n), prev[d] = n PROVE n # jn[t].cur
  <2>1. CASE d = jn[t].cur
    <3>1. HasLocked(t, d) /\ ~(Gap(t) /\ jn[t].right = d)
      BY <1>1, <1>2, <1>3, <2>1, OnlyLink DEF HasLocked, Before, Gap
    <3>2. Adjacent(d, prev[d])
      BY <1>3, <3>1, ListParts, PrevAdjacent
    <3> QED BY <1>3, <1>6, <2>1, <3>2 DEF Adjacent, Before
  <2>2. CASE d # jn[t].cur
    <3>1. mem[jn[t].cur] = "freed"
      BY <1>1, <1>2, <2>2, SafeParts DEF JanitorKnows
    <3> QED BY <1>6, <3>1 DEF Live
  <2> QED BY <2>1, <2>2
<1>7. ASSUME NEW n \in Nodes, Live(n), n # d PROVE WeakOf(t, x, d, n)' = WeakOf(t, x, d, n)
  <2>1. LiveStrong(strong[n])' = LiveStrong(strong[n])
    BY <1>2 DEF LiveStrong
  <2>2. /\ ~WeakOnStart(t) /\ ~WeakForGroup(t) /\ pc[t] \notin {"adv_dec", "adv_unweak"}
        /\ ~WeakOnStart(t)' /\ ~WeakForGroup(t)' /\ pc'[t] \notin {"adv_dec", "adv_unweak"}
    <3>1. jn[t].ret \in {"dw_weak", "upd_done", "get_done"} /\ jn'[t].ret = jn[t].ret
      BY <1>2, ListParts, JanitorFacts, JanitorFreeMoves DEF Janitoring
    <3> QED BY <1>2, <3>1 DEF WeakOnStart, WeakForGroup, At
  <2>3. WeakOnItem(t)' = WeakOnItem(t)
    <3>1. jn'[t].ret = jn[t].ret
      BY ListParts, JanitorFacts, JanitorFreeMoves
    <3> QED BY <1>2, <3>1 DEF WeakOnItem, At, Janitoring
  <2>4. ~(WeakOnGap(t) /\ jn[t].del = n)
    BY <1>1, <1>7
  <2>5. (WeakOnGap(t)' /\ jn'[t].del = n) <=> prev[d] = n
    BY <1>2, <1>3, <1>6, <1>7 DEF WeakOnGap
  <2>6. (mem[d] = "live" /\ prev[d] = n <=> prev[d] = n) /\ ~(mem'[d] = "live" /\ prev'[d] = n)
    BY <1>3, <1>4 DEF Live
  <2>7. Ind(handle[x] = [kind |-> "weak", node |-> n])' = Ind(handle[x] = [kind |-> "weak", node |-> n])
    BY <1>2 DEF Ind
  <2>8. /\ WeakOf(t, x, d, n) = Ind(prev[d] = n) + (Ind(handle[x] = [kind |-> "weak", node |-> n]) + (Ind(LiveStrong(strong[n]) > 0) + 0
                                 + Ind(WeakOnItem(t) /\ item[t] = n) + 0 + 0 + 0))
    BY <2>2, <2>4, <2>6 DEF WeakOf, WeakHand, WeakMine, Ind
  <2>9. WeakOf(t, x, d, n)' = 0 + (Ind(handle[x] = [kind |-> "weak", node |-> n]) + (Ind(LiveStrong(strong[n]) > 0) + 0
                                 + Ind(WeakOnItem(t) /\ item[t] = n) + 0 + 0 + Ind(prev[d] = n)))
    <3>1. /\ Ind(mem[d] = "live" /\ prev[d] = n)' = 0
          /\ Ind(WeakOnGap(t) /\ jn[t].del = n)' = Ind(prev[d] = n)
      BY <2>5, <2>6 DEF Ind
    <3>2. Ind(WeakOnItem(t) /\ item[t] = n)' = Ind(WeakOnItem(t) /\ item[t] = n)
      BY <1>2, <2>3 DEF Ind
    <3>3. Ind(LiveStrong(strong[n]) > 0)' = Ind(LiveStrong(strong[n]) > 0)
      BY <2>1 DEF Ind
    <3>4. /\ Ind(WeakOnStart(t) /\ av[t].start = n)' = 0 /\ Ind(WeakForGroup(t) /\ item[t] = n)' = 0
          /\ Ind(pc[t] \in {"adv_dec", "adv_unweak"} /\ av[t].nxt = n)' = 0
      BY <2>2 DEF Ind
    <3> QED BY <2>7, <3>1, <3>2, <3>3, <3>4 DEF WeakOf, WeakHand, WeakMine
  <2>10. /\ Ind(prev[d] = n) \in Int /\ Ind(handle[x] = [kind |-> "weak", node |-> n]) \in Int
         /\ Ind(LiveStrong(strong[n]) > 0) \in Int /\ Ind(WeakOnItem(t) /\ item[t] = n) \in Int
    BY DEF Ind
  <2> QED BY <2>8, <2>9, <2>10
<1>8. WeakAll(t, x, d)
  <2>1. SUFFICES ASSUME NEW n \in Nodes, Live(n), Live(n)' PROVE weak'[n].count - WeakOf(t, x, d, n)' = weak[n].count - WeakOf(t, x, d, n)
    BY DEF WeakAll
  <2>2. n # d
    BY <1>4, <2>1 DEF Live
  <2> QED BY <1>2, <1>7, <2>1, <2>2
<1> QED BY <1>1, <1>5, <1>8

(* The janitor unlinks what it has freed: the link of the gap becomes that  *)
(* of the node right of it.                                                 *)
LEMMA UnlinkBalance ==
  ASSUME SafeInv, NEW t \in Threads, JanitorUnlink(t), NEW x \in Handles
  PROVE  \E m \in Nodes : OnlyHandle(x) /\ LinksBut(m) /\ WeakAll(t, x, m)
<1>0. pc[t] = "jan_unlink"
  BY SafeParts, NodesTyped, JanitorUnlinkMoves
<1>1. PICK r \in Nodes : r = jn[t].right
  BY <1>0, ListParts, JanitorFacts, SafeParts DEF JanitorKnows, Freeing, Ptrs
<1>2. /\ UNCHANGED <<handle, item, av, next, mem, strong, weak>> /\ prev' = [prev EXCEPT ![r] = jn[t].del]
      /\ pc'[t] \in {"jan_carry", "jan_uncarry"} /\ jn'[t].ret = jn[t].ret
  <2>1. TypeOK
    BY SafeParts, NodesTyped
  <2> QED BY <1>1, <2>1, JanitorUnlinkMoves
<1>3. /\ Live(r) /\ prev[r] = jn[t].cur /\ mem[jn[t].cur] = "freed" /\ prev \in [Nodes -> Ptrs]
  BY <1>0, <1>1, SafeParts, NodesTyped DEF JanitorKnows, Freeing
<1>4. prev'[r] = jn[t].del /\ \A k \in Nodes \ {r} : prev'[k] = prev[k]
  BY <1>2, <1>3
<1>5. OnlyHandle(x) /\ LinksBut(r)
  BY <1>2, <1>4 DEF OnlyHandle, LinksBut
<1>7. ASSUME NEW n \in Nodes, Live(n) PROVE WeakOf(t, x, r, n)' = WeakOf(t, x, r, n)
  <2>2. /\ ~WeakOnStart(t) /\ ~WeakForGroup(t) /\ pc[t] \notin {"adv_dec", "adv_unweak"}
        /\ ~WeakOnStart(t)' /\ ~WeakForGroup(t)' /\ pc'[t] \notin {"adv_dec", "adv_unweak"}
    <3>1. jn[t].ret \in {"dw_weak", "upd_done", "get_done"}
      BY <1>0, ListParts, JanitorFacts DEF Janitoring
    <3> QED BY <1>0, <1>2, <3>1 DEF WeakOnStart, WeakForGroup, At
  <2>3. WeakOnItem(t)' = WeakOnItem(t)
    BY <1>0, <1>2 DEF WeakOnItem, At, Janitoring
  <2>5. WeakOnGap(t) /\ ~WeakOnGap(t)'
    BY <1>0, <1>2 DEF WeakOnGap
  <2>6. ~(mem[r] = "live" /\ prev[r] = n) /\ (mem'[r] = "live" /\ prev'[r] = n <=> jn[t].del = n)
    BY <1>2, <1>3, <1>4, <1>7 DEF Live
  <2>9. /\ Ind(handle[x] = [kind |-> "weak", node |-> n])' = Ind(handle[x] = [kind |-> "weak", node |-> n])
        /\ Ind(LiveStrong(strong[n]) > 0)' = Ind(LiveStrong(strong[n]) > 0)
    BY <1>2 DEF LiveStrong, Ind
  <2>10. Ind(WeakOnItem(t) /\ item[t] = n)' = Ind(WeakOnItem(t) /\ item[t] = n)
    BY <1>2, <2>3 DEF Ind
  <2>11. /\ Ind(mem[r] = "live" /\ prev[r] = n)' = Ind(jn[t].del = n)
         /\ Ind(WeakOnGap(t) /\ jn[t].del = n)' = 0
         /\ Ind(mem[r] = "live" /\ prev[r] = n) = 0
         /\ Ind(WeakOnGap(t) /\ jn[t].del = n) = Ind(jn[t].del = n)
    BY <2>5, <2>6 DEF Ind
  <2>12. /\ Ind(WeakOnStart(t) /\ av[t].start = n)' = 0 /\ Ind(WeakForGroup(t) /\ item[t] = n)' = 0
         /\ Ind(pc[t] \in {"adv_dec", "adv_unweak"} /\ av[t].nxt = n)' = 0
         /\ Ind(WeakOnStart(t) /\ av[t].start = n) = 0 /\ Ind(WeakForGroup(t) /\ item[t] = n) = 0
         /\ Ind(pc[t] \in {"adv_dec", "adv_unweak"} /\ av[t].nxt = n) = 0
    BY <2>2 DEF Ind
  <2>13. /\ Ind(jn[t].del = n) \in Int /\ Ind(handle[x] = [kind |-> "weak", node |-> n]) \in Int
         /\ Ind(LiveStrong(strong[n]) > 0) \in Int /\ Ind(WeakOnItem(t) /\ item[t] = n) \in Int
    BY DEF Ind
  <2> DEFINE A == Ind(jn[t].del = n)
             B == Ind(handle[x] = [kind |-> "weak", node |-> n])
             C == Ind(LiveStrong(strong[n]) > 0)
             D == Ind(WeakOnItem(t) /\ item[t] = n)
  <2>14. WeakOf(t, x, r, n) = 0 + (B + (C + 0 + D + 0 + 0 + A))
    BY <2>11, <2>12 DEF WeakOf, WeakHand, WeakMine
  <2>15. WeakOf(t, x, r, n)' = A + (B + (C + 0 + D + 0 + 0 + 0))
    BY <2>9, <2>10, <2>11, <2>12 DEF WeakOf, WeakHand, WeakMine
  <2> HIDE DEF A, B, C, D
  <2>16. A \in Int /\ B \in Int /\ C \in Int /\ D \in Int
    BY <2>13 DEF A, B, C, D
  <2> QED BY <2>14, <2>15, <2>16
<1>8. WeakAll(t, x, r)
  BY <1>2, <1>7 DEF WeakAll
<1> QED BY <1>5, <1>8

(* The update that links its node: the link takes over the reference that   *)
(* the update has counted for it.                                           *)
LEMMA LinkBalance ==
  ASSUME SafeInv, NEW t \in Threads, UpdateCas(t), CanLink(item[t], op[t].nw), NEW x \in Handles
  PROVE  \E m \in Nodes : OnlyHandle(x) /\ LinksBut(m) /\ WeakAll(t, x, m)
<1>0. Links(t, item[t], op[t].val)
  BY SafeParts, UpdateLinks
<1>1. PICK v \in Nodes : v = op[t].val
  BY <1>0 DEF Links
<1>2. /\ UNCHANGED <<prev, strong, weak, adv, drops, handle, left, locals>> /\ mem[v] = "private" /\ prev[v] = item[t]
      /\ mem' = [mem EXCEPT ![v] = "live"] /\ pc[t] = "upd_cas" /\ pc'[t] = "upd_mark"
  BY <1>0, <1>1 DEF Links
<1>3. /\ mem'[v] = "live" /\ \A k \in Nodes \ {v} : mem'[k] = mem[k]
  BY <1>2, SafeParts, NodesTyped
<1>5. OnlyHandle(x) /\ LinksBut(v)
  BY <1>2, <1>3 DEF OnlyHandle, LinksBut
<1>7. ASSUME NEW n \in Nodes, Live(n) PROVE WeakOf(t, x, v, n)' = WeakOf(t, x, v, n)
  <2>2. /\ ~WeakOnStart(t) /\ ~WeakForGroup(t) /\ pc[t] \notin {"adv_dec", "adv_unweak"} /\ ~WeakOnGap(t) /\ WeakOnItem(t)
        /\ ~WeakOnStart(t)' /\ ~WeakForGroup(t)' /\ pc'[t] \notin {"adv_dec", "adv_unweak"} /\ ~WeakOnGap(t)' /\ ~WeakOnItem(t)'
    BY <1>2 DEF WeakOnStart, WeakForGroup, WeakOnItem, WeakOnGap, At, Janitoring
  <2>6. ~(mem[v] = "live" /\ prev[v] = n) /\ (mem'[v] = "live" /\ prev'[v] = n <=> item[t] = n)
    BY <1>2, <1>3, <1>7 DEF Live
  <2>9. /\ Ind(handle[x] = [kind |-> "weak", node |-> n])' = Ind(handle[x] = [kind |-> "weak", node |-> n])
        /\ Ind(LiveStrong(strong[n]) > 0)' = Ind(LiveStrong(strong[n]) > 0)
    BY <1>2 DEF LiveStrong, Ind
  <2>11. /\ Ind(mem[v] = "live" /\ prev[v] = n)' = Ind(item[t] = n)
         /\ Ind(WeakOnItem(t) /\ item[t] = n)' = 0
         /\ Ind(mem[v] = "live" /\ prev[v] = n) = 0
         /\ Ind(WeakOnItem(t) /\ item[t] = n) = Ind(item[t] = n)
    BY <2>2, <2>6 DEF Ind
  <2>12. /\ Ind(WeakOnStart(t) /\ av[t].start = n)' = 0 /\ Ind(WeakForGroup(t) /\ item[t] = n)' = 0
         /\ Ind(pc[t] \in {"adv_dec", "adv_unweak"} /\ av[t].nxt = n)' = 0 /\ Ind(WeakOnGap(t) /\ jn[t].del = n)' = 0
         /\ Ind(WeakOnStart(t) /\ av[t].start = n) = 0 /\ Ind(WeakForGroup(t) /\ item[t] = n) = 0
         /\ Ind(pc[t] \in {"adv_dec", "adv_unweak"} /\ av[t].nxt = n) = 0 /\ Ind(WeakOnGap(t) /\ jn[t].del = n) = 0
    BY <2>2 DEF Ind
  <2>13. /\ Ind(item[t] = n) \in Int /\ Ind(handle[x] = [kind |-> "weak", node |-> n]) \in Int
         /\ Ind(LiveStrong(strong[n]) > 0) \in Int
    BY DEF Ind
  <2> DEFINE A == Ind(item[t] = n)
             B == Ind(handle[x] = [kind |-> "weak", node |-> n])
             C == Ind(LiveStrong(strong[n]) > 0)
  <2>14. WeakOf(t, x, v, n) = 0 + (B + (C + 0 + A + 0 + 0 + 0))
    BY <2>11, <2>12 DEF WeakOf, WeakHand, WeakMine
  <2>15. WeakOf(t, x, v, n)' = A + (B + (C + 0 + 0 + 0 + 0 + 0))
    BY <2>9, <2>11, <2>12 DEF WeakOf, WeakHand, WeakMine
  <2> HIDE DEF A, B, C
  <2>16. A \in Int /\ B \in Int /\ C \in Int
    BY <2>13 DEF A, B, C
  <2> QED BY <2>14, <2>15, <2>16
<1>8. WeakAll(t, x, v)
  BY <1>2, <1>7 DEF WeakAll
<1> QED BY <1>5, <1>8

(* An update that loses the race keeps its reference until it gives up.     *)
LEMMA LostBalance ==
  ASSUME SafeInv, NEW t \in Threads, UpdateCas(t), ~CanLink(item[t], op[t].nw)
  PROVE  WeakStep(t)
<1>1. UNCHANGED <<mem, prev, strong, weak, handle, locals>> /\ pc[t] = "upd_cas" /\ pc'[t] = "upd_fail"
  BY SafeParts, NodesTyped DEF UpdateCas, Goto, TypeOK
<1>2. /\ ~WeakOnStart(t) /\ ~WeakForGroup(t) /\ pc[t] \notin {"adv_dec", "adv_unweak"} /\ ~WeakOnGap(t) /\ WeakOnItem(t)
      /\ ~WeakOnStart(t)' /\ ~WeakForGroup(t)' /\ pc'[t] \notin {"adv_dec", "adv_unweak"} /\ ~WeakOnGap(t)' /\ WeakOnItem(t)'
  BY <1>1 DEF WeakOnStart, WeakForGroup, WeakOnItem, WeakOnGap, At, Janitoring
<1>3. ASSUME NEW n \in Nodes PROVE WeakMine(t, n)' = WeakMine(t, n)
  <2>1. Ind(LiveStrong(strong[n]) > 0)' = Ind(LiveStrong(strong[n]) > 0)
    BY <1>1 DEF LiveStrong, Ind
  <2>2. Ind(WeakOnItem(t) /\ item[t] = n)' = Ind(WeakOnItem(t) /\ item[t] = n)
    BY <1>1, <1>2 DEF Ind, locals
  <2>3. /\ Ind(WeakOnStart(t) /\ av[t].start = n)' = 0 /\ Ind(WeakForGroup(t) /\ item[t] = n)' = 0
        /\ Ind(pc[t] \in {"adv_dec", "adv_unweak"} /\ av[t].nxt = n)' = 0 /\ Ind(WeakOnGap(t) /\ jn[t].del = n)' = 0
        /\ Ind(WeakOnStart(t) /\ av[t].start = n) = 0 /\ Ind(WeakForGroup(t) /\ item[t] = n) = 0
        /\ Ind(pc[t] \in {"adv_dec", "adv_unweak"} /\ av[t].nxt = n) = 0 /\ Ind(WeakOnGap(t) /\ jn[t].del = n) = 0
    BY <1>2 DEF Ind
  <2> QED BY <2>1, <2>2, <2>3 DEF WeakMine
<1> QED BY <1>1, <1>3 DEF WeakStep, Live

(* Every step but the last release of the chain keeps the balance between   *)
(* count and holders of live nodes.                                         *)
LEMMA WeakBalance ==
  ASSUME SafeInv, NEW t \in Threads, AnyStep(t), ~DropWeakFree(t)
  PROVE  \E x \in Handles, m \in Nodes : WeakAll(t, x, m) /\ OnlyHandle(x) /\ LinksBut(m)
<1>1. PICK h \in Handles : TRUE
  BY HeapAssumption
<1>2. PICK k \in Nodes : TRUE
  BY SafeParts, NodesTyped
<1>3. CASE JanitorFree(t)
  <2>1. jn[t].del \in Nodes
    BY <1>3, OnlyLink DEF JanitorFree, Janitor
  <2> QED BY <1>1, <1>3, <2>1, FreeBalance
<1>4. CASE JanitorUnlink(t)
  BY <1>1, <1>4, UnlinkBalance
<1>5. CASE UpdateCas(t) /\ CanLink(item[t], op[t].nw)
  BY <1>1, <1>5, LinkBalance
<1>6. ASSUME ~JanitorFree(t), ~JanitorUnlink(t), ~(UpdateCas(t) /\ CanLink(item[t], op[t].nw))
      PROVE  \E x \in Handles, m \in Nodes : WeakAll(t, x, m) /\ OnlyHandle(x) /\ LinksBut(m)
  <2>1. \A n \in Nodes : /\ mem'[n] = "live" <=> mem[n] = "live"
                         /\ mem[n] = "live" => prev'[n] = prev[n]
    BY <1>6, LinksStay
  <2>2. SUFFICES \E x \in Handles : WeakByHand(t, x) /\ OnlyHandle(x)
    BY <1>2, <2>1, HandBalance
  <2>3. CASE Call(t)
    BY <2>3, CallWeak
  <2>4. CASE Return(t)
    BY <2>4, ReturnWeak
  <2>5. CASE Step(t) /\ ~Return(t)
    <3>1. OrderInv /\ Shape(t) /\ Places(t) /\ Room(t)
      BY SafeParts, RoomAll
    <3>2. WeakStep(t)
      <4>1. CASE AdvanceStep(t)
        BY <3>1, <4>1, AdvanceWeak
      <4>2. CASE JanitorStep(t)
        BY <1>6, <3>1, <4>2, JanitorWeak
      <4>3. CASE DropStep(t)
        BY <3>1, <4>3, DropWeak
      <4>4. CASE UpdateStep(t) /\ ~UpdateCas(t)
        BY <3>1, <4>4, UpdateWeak
      <4>5. CASE UpdateCas(t)
        BY <1>6, <4>5, LostBalance
      <4>6. CASE UpgradeStep(t)
        BY <3>1, <4>6, UpgradeWeak
      <4>7. CASE ApiStep(t)
        BY <2>5, <3>1, <4>7, ApiWeak
      <4> QED BY <2>5, <4>1, <4>2, <4>3, <4>4, <4>5, <4>6, <4>7 DEF Step
    <3>3. OnlyHandle(h) /\ \A n \in Nodes : Live(n) /\ Live(n)' => weak'[n].count - WeakHand(t, h, n)' = weak[n].count - WeakHand(t, h, n)
      BY <1>1, <2>5, <3>2, MineBalance
    <3> QED BY <1>1, <2>1, <3>3 DEF WeakByHand, Live
  <2> QED BY <2>3, <2>4, <2>5 DEF AnyStep
<1> QED BY <1>3, <1>4, <1>5, <1>6

(* The new node of an update begins with the weak reference of its strong   *)
(* group.                                                                   *)
LEMMA LinkedWeak ==
  ASSUME SafeInv, NEW t \in Threads, UpdateCas(t), CanLink(item[t], op[t].nw), NEW n \in Nodes, n = op[t].val, mem[n] = "private"
  PROVE  weak'[n].count = Cardinality(WeakHolders(n)')
<1>0. AnyStep(t)
  BY DEF AnyStep, Step, UpdateStep
<1>1. Links(t, item[t], n)
  BY SafeParts, UpdateLinks
<1>2. strong'[n] = 1 /\ weak'[n].count = 1
  BY <1>1, SafeParts DEF Links, PrivateFresh
<1>3. LiveStrong(strong[n])' > 0
  <2>1. LiveStrong(strong[n])' = Cardinality(StrongHolders(n)') /\ Cardinality(StrongHolders(n)') \in Nat
    BY LinkedStrong, <1>1, StrongChange, StepFacts, <1>0, StrongBalance DEF OnlyHandle
  <2>2. Cardinality(StrongHolders(n)') # 0
    <3>1. IsFiniteSet(StrongHolders(n)')
      <4>1. StrongHolders(n)' \in SUBSET Holders
        BY DEF StrongHolders, Holders
      <4> QED BY <4>1, HoldersFinite, FS_Subset
    <3>2. <<"new", t>> \in StrongHolders(n)'
      <4>1. StrongOnNew(t)' /\ op'[t].val = n
        BY <1>1 DEF Links, StrongOnNew, At, locals
      <4> QED BY <4>1 DEF StrongHolders
    <3> HIDE DEF StrongHolders
    <3> QED BY <3>1, <3>2, FS_EmptySet
  <2> HIDE DEF LiveStrong
  <2> QED BY <2>1, <2>2
<1>4. WeakHolders(n)' = {<<"group", n>>}
  <2>2. UNCHANGED <<handle, locals, prev>> /\ pc'[t] = "upd_mark" /\ pc[t] = "upd_cas" /\ \A u \in Threads \ {t} : pc'[u] = pc[u]
    BY <1>0, <1>1, StepFacts DEF Links, Still
  <2>3. \A h \in Handles : handle'[h] # [kind |-> "weak", node |-> n]
    <3>1. \A h \in Handles : handle[h] # [kind |-> "weak", node |-> n]
      BY <1>1, SafeParts DEF HandlesLive, Links, Live
    <3> QED BY <2>2, <3>1
  <2>4. ASSUME NEW u \in Threads
        PROVE  /\ ~(WeakOnStart(u)' /\ av'[u].start = n) /\ ~(WeakOnItem(u)' /\ item'[u] = n) /\ ~(WeakForGroup(u)' /\ item'[u] = n)
               /\ ~(pc'[u] \in {"adv_dec", "adv_unweak"} /\ av'[u].nxt = n) /\ ~(WeakOnGap(u)' /\ jn'[u].del = n)
    <3>1. /\ ~(WeakOnStart(u) /\ av[u].start = n) /\ ~(WeakOnItem(u) /\ item[u] = n) /\ ~(WeakForGroup(u) /\ item[u] = n)
          /\ ~(pc[u] \in {"adv_dec", "adv_unweak"} /\ av[u].nxt = n)
      BY <1>1, SafeParts DEF Links, Live, HeldLive
    <3>2. ~(WeakOnGap(u) /\ jn[u].del = n)
      <4>1. pc[u] \in {"jan_del", "jan_free"} => Live(jn[u].del)
        BY SafeParts DEF JanitorKnows
      <4>2. pc[u] = "jan_unlink" => Live(jn[u].del) \/ jn[u].del = Null
        BY SafeParts DEF JanitorKnows, Adjacent
      <4>3. n # Null /\ ~Live(n)
        BY <1>1, SafeParts, NodesTyped DEF Links, Live
      <4> QED BY <4>1, <4>2, <4>3 DEF WeakOnGap
    <3>3. CASE u # t
      <4>1. /\ WeakOnStart(u)' = WeakOnStart(u) /\ WeakOnItem(u)' = WeakOnItem(u) /\ WeakForGroup(u)' = WeakForGroup(u)
            /\ WeakOnGap(u)' = WeakOnGap(u)
        BY <2>2, <3>3 DEF WeakOnStart, WeakOnItem, WeakForGroup, WeakOnGap, At, locals
      <4> QED BY <2>2, <3>1, <3>2, <3>3, <4>1 DEF locals
    <3>4. CASE u = t
      BY <2>2, <3>4 DEF WeakOnStart, WeakOnItem, WeakForGroup, WeakOnGap, At, Janitoring
    <3> QED BY <3>3, <3>4
  <2>5. ASSUME NEW m \in Nodes PROVE ~(mem'[m] = "live" /\ prev'[m] = n)
    <3>1. CASE m = n
      <4>1. WeakOnItem(t)
        BY <2>2 DEF WeakOnItem, At
      <4>2. item[t] # n
        BY <1>1, <4>1, SafeParts DEF HeldLive, Links, Live
      <4> QED BY <1>1, <3>1, <4>2 DEF Links
    <3>2. CASE m # n
      <4>1. mem'[m] = mem[m] /\ prev'[m] = prev[m]
        BY <1>1, <3>2, SafeParts, NodesTyped DEF Links
      <4>2. ASSUME Live(m) PROVE prev[m] = Null \/ mem[prev[m]] # "private"
        <5>1. CASE \A u \in Threads : ~(Gap(u) /\ jn[u].right = m)
          <6>1. Adjacent(m, prev[m])
            BY <4>2, <5>1, SafeParts DEF Listed
          <6> QED BY <6>1 DEF Adjacent, Live
        <5>2. ASSUME NEW u \in Threads, Gap(u), jn[u].right = m PROVE mem[prev[m]] = "freed"
          <6>1. prev[jn[u].right] = jn[u].cur /\ mem[jn[u].cur] = "freed"
            BY <5>2, SafeParts DEF JanitorKnows, Gap, Freeing
          <6> QED BY <5>2, <6>1
        <5> QED BY <5>1, <5>2
      <4>3. n # Null /\ mem[n] = "private"
        BY <1>1, SafeParts, NodesTyped DEF Links
      <4> QED BY <4>1, <4>2, <4>3 DEF Live
    <3> QED BY <3>1, <3>2
  <2> QED BY <1>3, <2>3, <2>4, <2>5 DEF WeakHolders
<1>5. Cardinality(WeakHolders(n)') = 1
  BY <1>4, FS_Singleton
<1> QED BY <1>2, <1>5

(* weak_count is the number of weak references after every step.           *)
LEMMA WeakKept ==
  ASSUME SafeInv, NEW t \in Threads, AnyStep(t), ~DropWeakFree(t)
  PROVE  WeakExact'
<1>1. SUFFICES ASSUME NEW n \in Nodes, mem'[n] = "live" PROVE weak'[n].count = Cardinality(WeakHolders(n)')
  BY DEF WeakExact, Live
<1>2. CASE Live(n)
  <2>1. PICK x \in Handles, m \in Nodes : WeakAll(t, x, m) /\ OnlyHandle(x) /\ LinksBut(m)
    BY WeakBalance
  <2>2. weak'[n].count - WeakOf(t, x, m, n)' = weak[n].count - WeakOf(t, x, m, n)
    BY <1>1, <1>2, <2>1 DEF WeakAll, Live
  <2>3. /\ Cardinality(WeakHolders(n)) \in Nat /\ Cardinality(WeakHolders(n)') \in Nat
        /\ Cardinality(WeakHolders(n)') - WeakOf(t, x, m, n)' = Cardinality(WeakHolders(n)) - WeakOf(t, x, m, n)
    BY <2>1, StepFacts, WeakChange DEF OnlyHandle
  <2>4. weak[n].count = Cardinality(WeakHolders(n))
    BY <1>2, SafeParts DEF WeakExact
  <2>5. WeakOf(t, x, m, n) \in Int /\ WeakOf(t, x, m, n)' \in Int
    BY DEF WeakOf, WeakHand, WeakMine, Ind
  <2>6. weak'[n].count \in Int
    BY StepFacts DEF TypeOK, WeakWords
  <2> HIDE DEF WeakOf
  <2> QED BY <2>2, <2>3, <2>4, <2>5, <2>6
<1>3. CASE ~Live(n)
  <2>1. MemMoves(t, n)
    BY StepFacts DEF Moves
  <2>2. mem[n] = "private" /\ UpdateCas(t) /\ CanLink(item[t], op[t].nw) /\ n = op[t].val
    BY <1>1, <1>3, <2>1 DEF MemMoves, Live
  <2> QED BY <2>2, LinkedWeak
<1> QED BY <1>2, <1>3

-----------------------------------------------------------------------------
(* Where a call can be after a step, and where the references come from    *)
(* that it has then.                                                       *)

\* the labels before a label
Came(t) ==
  /\ pc'[t] = "adv_weak" => pc[t] = "adv_reload"
  /\ pc'[t] = "sg_strong" => pc[t] = "sg_next"
  /\ pc'[t] = "sg_cas" => pc[t] = "sg_strong"
  /\ pc'[t] = "dw_weak" => pc[t] \in {"jan_lock", "jan_unlock"}
  /\ pc'[t] = "dw_next" => pc[t] = "dw_weak"
  /\ pc'[t] = "dw_claim" => pc[t] = "dw_next"
  /\ pc'[t] = "dw_cas" => pc[t] \in {"dw_next", "dw_claim"} \/ (pc[t] \in {"pay_mark", "pay_drop"} /\ pd[t].ret = "dw_cas")
  /\ pc'[t] = "dw_free" => pc[t] = "dw_cas"
  /\ pc'[t] = "pay_mark" => pc[t] \in {"advs_a_dec", "dw_claim", "upd_dec"}
  /\ pc'[t] = "pay_drop" => pc[t] = "pay_mark"
  /\ pc'[t] = "upg_incw" => pc[t] = "upg_next"
  /\ pc'[t] = "upg_cas" => pc[t] \in {"upg_next", "upg_incw"}
  /\ pc'[t] = "upg_race" => pc[t] = "upg_cas"
  /\ pc'[t] \in Janitoring \ {"jan_lock"} => pc[t] \in Janitoring

(* A step of an advance comes to a label only from the labels before it.   *)
LEMMA AdvanceCame ==
  ASSUME TypeOK, NEW t \in Threads, Shape(t), AdvanceStep(t)
  PROVE  Came(t)
<1>k. TypeOK
  OBVIOUS
<1>r. /\ pc \in [Threads -> Labels] /\ item \in [Threads -> Nodes] /\ av \in [Threads -> AdvanceFrames]
      /\ pd \in [Threads -> PayloadFrames] /\ jn \in [Threads -> JanitorFrames]
      /\ dr \in [Threads -> DropFrames] /\ op \in [Threads -> CallFrames]
      /\ strong \in [Nodes -> 0..UsizeMax] /\ UsizeMax \in Nat /\ weak \in [Nodes -> WeakWords]
      /\ mem \in [Nodes -> {"unused", "private", "live", "freed"}] /\ prev \in [Nodes -> Ptrs]
      /\ stamp \in [Nodes -> Nat] /\ next \in [Nodes -> NextWords] /\ adv \in [Nodes -> Int]
      /\ handle \in [Handles -> HandleStates]
  BY HeapAssumption DEF TypeOK
<1>s. Shape(t)
  OBVIOUS
<1>1. CASE AdvanceLoad(t)
  BY <1>k, <1>r, <1>1, SMTT(30) DEF AdvanceLoad, Goto, ReturnAdvance, ReadOnly, IdleAdvance,
     AdvanceFrames, Came, Janitoring
<1>2. CASE AdvanceInc(t)
  BY <1>k, <1>r, <1>2, SMTT(30) DEF AdvanceInc, Goto, OnlyAdv, Came, Janitoring
<1>3. CASE AdvanceReload(t)
  BY <1>k, <1>r, <1>3, SMTT(30) DEF AdvanceReload, Goto, ReadOnly, Came, Janitoring
<1>4. CASE AdvanceWeakInc(t)
  BY <1>k, <1>r, <1>4, SMTT(30) DEF AdvanceWeakInc, AddWeak, Goto, OnlyWeak, Came, Janitoring
<1>5. CASE AdvanceDec(t)
  BY <1>k, <1>r, <1>5, SMTT(30) DEF AdvanceDec, Goto, OnlyAdv, Came, Janitoring
<1>6. CASE AdvanceWeakDec(t)
  BY <1>k, <1>r, <1>6, SMTT(30) DEF AdvanceWeakDec, SubWeak, Goto, OnlyWeak, Came, Janitoring
<1>7. CASE WeakLeaveStart(t)
  BY <1>k, <1>r, <1>7, SMTT(30) DEF WeakLeaveStart, SubWeak, ReturnAdvance, OnlyWeak, Goto,
     IdleAdvance, AdvanceFrames, Came, Janitoring
<1>8. CASE PayloadMark(t)
  <2>1. CASE pd[t].ret = "advs_a_decw"
    BY <1>k, <1>r, <1>8, <2>1, SMTT(30) DEF PayloadMark, Goto, OnlyNext, IdlePayload, Came,
     Janitoring
  <2>2. CASE pd[t].ret = "dw_cas"
    BY <1>k, <1>r, <1>8, <2>2, SMTT(30) DEF PayloadMark, Goto, OnlyNext, IdlePayload, Came,
     Janitoring
  <2>3. CASE pd[t].ret = "upd_decw"
    BY <1>k, <1>r, <1>8, <2>3, SMTT(30) DEF PayloadMark, Goto, OnlyNext, IdlePayload, Came,
     Janitoring
  <2>r. pd[t].ret \in {"advs_a_decw", "dw_cas", "upd_decw"}
    BY <1>r, <1>s, <1>8 DEF
     PayloadFrames, Shape, PayloadMark
  <2> QED BY <2>1, <2>2, <2>3, <2>r
<1>9. CASE PayloadDrop(t)
  <2>1. CASE pd[t].ret = "advs_a_decw"
    BY <1>k, <1>r, <1>9, <2>1, SMTT(30) DEF PayloadDrop, DropPayload, Goto, IdlePayload, Came,
     Janitoring
  <2>2. CASE pd[t].ret = "dw_cas"
    BY <1>k, <1>r, <1>9, <2>2, SMTT(30) DEF PayloadDrop, DropPayload, Goto, IdlePayload, Came,
     Janitoring
  <2>3. CASE pd[t].ret = "upd_decw"
    BY <1>k, <1>r, <1>9, <2>3, SMTT(30) DEF PayloadDrop, DropPayload, Goto, IdlePayload, Came,
     Janitoring
  <2>r. pd[t].ret \in {"advs_a_decw", "dw_cas", "upd_decw"}
    BY <1>r, <1>s, <1>9 DEF
     PayloadFrames, Shape, PayloadDrop
  <2> QED BY <2>1, <2>2, <2>3, <2>r
<1>10. CASE StrongLoad(t)
  BY <1>k, <1>r, <1>10, SMTT(30) DEF StrongLoad, TryStrong, ReadOnly, Goto, IdleAdvance,
     AdvanceFrames, Came, Janitoring
<1>11. CASE StrongIncWeak(t)
  BY <1>k, <1>r, <1>11, SMTT(30) DEF StrongIncWeak, AddWeak, Goto, OnlyWeak, Came, Janitoring
<1>12. CASE StrongCas(t)
  <2>1. CASE strong[item[t]] = av[t].cs
    BY <1>k, <1>r, <1>12, <2>1, SMTT(30) DEF StrongCas, AddStrong, Goto, TryStrong, OnlyStrong,
     IdleAdvance, AdvanceFrames, Came, Janitoring
  <2>2. CASE strong[item[t]] # av[t].cs /\ av[t].cs = 0
    BY <1>k, <1>r, <1>12, <2>2, SMTT(30) DEF StrongCas, AddStrong, Goto, TryStrong, OnlyStrong,
     IdleAdvance, AdvanceFrames, Came, Janitoring
  <2>3. CASE strong[item[t]] # av[t].cs /\ av[t].cs # 0
    BY <1>k, <1>r, <1>12, <2>3, SMTT(30) DEF StrongCas, AddStrong, Goto, TryStrong, OnlyStrong,
     IdleAdvance, AdvanceFrames, Came, Janitoring
  <2> QED BY <2>1, <2>2, <2>3
<1>13. CASE StrongRaceDecWeak(t)
  BY <1>k, <1>r, <1>13, SMTT(30) DEF StrongRaceDecWeak, SubWeak, TryStrong, OnlyWeak, Goto,
     IdleAdvance, AdvanceFrames, Came, Janitoring
<1>14. CASE StrongRecheck(t)
  BY <1>k, <1>r, <1>14, SMTT(30) DEF StrongRecheck, Goto, ReadOnly, Came, Janitoring
<1>15. CASE StrongUndo(t)
  <2>1. CASE LastStrong(item[t])
    BY <1>k, <1>r, <1>15, <2>1, SMTT(30) DEF StrongUndo, SubStrong, Goto, RetryAdvance,
     OnlyStrong, IdleAdvance, AdvanceFrames, Came, Janitoring
  <2>2. CASE ~LastStrong(item[t])
    BY <1>k, <1>r, <1>15, <2>2, SMTT(30) DEF StrongUndo, SubStrong, Goto, RetryAdvance,
     OnlyStrong, IdleAdvance, AdvanceFrames, Came, Janitoring
  <2> QED BY <2>1, <2>2
<1>16. CASE StrongUndoDecWeak(t)
  BY <1>k, <1>r, <1>16, SMTT(30) DEF StrongUndoDecWeak, SubWeak, RetryAdvance, OnlyWeak, Goto,
     IdleAdvance, AdvanceFrames, Came, Janitoring
<1>17. CASE StrongDecWeakB(t)
  BY <1>k, <1>r, <1>17, SMTT(30) DEF StrongDecWeakB, SubWeak, Goto, OnlyWeak, Came, Janitoring
<1>18. CASE StrongLeaveStart(t)
  <2>1. CASE LastStrong(av[t].start)
    BY <1>k, <1>r, <1>18, <2>1, SMTT(30) DEF StrongLeaveStart, SubStrong, StartPayloadDrop,
     ReturnAdvance, OnlyStrong, Goto, IdleAdvance, AdvanceFrames, Came, Janitoring
  <2>2. CASE ~LastStrong(av[t].start)
    <3>2. CASE av[t].ret = "jan_lock"
      BY <1>k, <1>r, <1>18, <2>2, <3>2, SMTT(30) DEF StrongLeaveStart, SubStrong,
     StartPayloadDrop, ReturnAdvance, OnlyStrong, Goto, IdleAdvance, AdvanceFrames, Came,
     Janitoring
    <3>3. CASE av[t].ret = "ds_dec"
      BY <1>k, <1>r, <1>18, <2>2, <3>3, SMTT(30) DEF StrongLeaveStart, SubStrong,
     StartPayloadDrop, ReturnAdvance, OnlyStrong, Goto, IdleAdvance, AdvanceFrames, Came,
     Janitoring
    <3>4. CASE av[t].ret = "upd_next"
      BY <1>k, <1>r, <1>18, <2>2, <3>4, SMTT(30) DEF StrongLeaveStart, SubStrong,
     StartPayloadDrop, ReturnAdvance, OnlyStrong, Goto, IdleAdvance, AdvanceFrames, Came,
     Janitoring
    <3>5. CASE av[t].ret = "reading"
      BY <1>k, <1>r, <1>18, <2>2, <3>5, SMTT(30) DEF StrongLeaveStart, SubStrong,
     StartPayloadDrop, ReturnAdvance, OnlyStrong, Goto, IdleAdvance, AdvanceFrames, Came,
     Janitoring
    <3>6. CASE av[t].ret = "ret"
      BY <1>k, <1>r, <1>18, <2>2, <3>6, SMTT(30) DEF StrongLeaveStart, SubStrong,
     StartPayloadDrop, ReturnAdvance, OnlyStrong, Goto, IdleAdvance, AdvanceFrames, Came,
     Janitoring
    <3>r. av[t].ret = "jan_lock" \/ av[t].ret = "ds_dec" \/ av[t].ret = "upd_next" \/ av[t].ret = "reading" \/ av[t].ret = "ret"
      BY <1>s, <1>18, <2>2 DEF Shape, Continues, StrongLeaveStart
    <3> QED BY <3>2, <3>3, <3>4, <3>5, <3>6, <3>r
  <2> QED BY <2>1, <2>2
<1>19. CASE StrongDecWeakA(t)
  BY <1>k, <1>r, <1>19, SMTT(30) DEF StrongDecWeakA, SubWeak, ReturnAdvance, OnlyWeak, Goto,
     IdleAdvance, AdvanceFrames, Came, Janitoring
<1> QED BY <1>1, <1>2, <1>3, <1>4, <1>5, <1>6, <1>7, <1>8, <1>9, <1>10, <1>11, <1>12, <1>13,
  <1>14, <1>15, <1>16, <1>17, <1>18, <1>19 DEF AdvanceStep

(* A step of a janitor comes to a label only from the labels before it.    *)
LEMMA JanitorCame ==
  ASSUME TypeOK, NEW t \in Threads, Shape(t), JanitorStep(t)
  PROVE  Came(t)
<1>k. TypeOK
  OBVIOUS
<1>r. /\ pc \in [Threads -> Labels] /\ item \in [Threads -> Nodes] /\ av \in [Threads -> AdvanceFrames]
      /\ pd \in [Threads -> PayloadFrames] /\ jn \in [Threads -> JanitorFrames]
      /\ dr \in [Threads -> DropFrames] /\ op \in [Threads -> CallFrames]
      /\ strong \in [Nodes -> 0..UsizeMax] /\ UsizeMax \in Nat /\ weak \in [Nodes -> WeakWords]
      /\ mem \in [Nodes -> {"unused", "private", "live", "freed"}] /\ prev \in [Nodes -> Ptrs]
      /\ stamp \in [Nodes -> Nat] /\ next \in [Nodes -> NextWords] /\ adv \in [Nodes -> Int]
      /\ handle \in [Handles -> HandleStates]
  BY HeapAssumption DEF TypeOK
<1>s. Shape(t)
  OBVIOUS
<1>1. CASE JanitorLockStart(t)
  <2>1. CASE next[item[t]].locked
    <3>1. /\ pc[t] = "jan_lock"
          /\ OnlyNext
          /\ UNCHANGED <<item, av, pd, dr, op>>
          /\ Disturb(item[t])
          /\ pc'[t] = jn[t].ret
          /\ jn'[t].ret = jn[t].ret /\ ~jn'[t].rerun /\ jn'[t].status = "Indeterminate"
      BY <1>k, <1>1, <2>1, JanitorLockStartEffect
    <3>3. CASE jn[t].ret = "dw_weak"
      BY <1>k, <1>r, <2>1, <3>1, <3>3, SMTT(30) DEF Starts, OnlyNext, Disturb, Came, Janitoring
    <3>4. CASE jn[t].ret = "upd_done"
      BY <1>k, <1>r, <2>1, <3>1, <3>4, SMTT(30) DEF Starts, OnlyNext, Disturb, Came, Janitoring
    <3>5. CASE jn[t].ret = "get_done"
      BY <1>k, <1>r, <2>1, <3>1, <3>5, SMTT(30) DEF Starts, OnlyNext, Disturb, Came, Janitoring
    <3>9. jn[t].ret = "dw_weak" \/ jn[t].ret = "upd_done" \/ jn[t].ret = "get_done"
      BY <1>k, <1>r, <1>s, <3>1, <2>1 DEF DropFrames, Shape, Dying, CallFrames, Continues,
     Janitoring
    <3> QED BY <3>3, <3>4, <3>5, <3>9
  <2>2. CASE ~next[item[t]].locked
    <3>1. /\ pc[t] = "jan_lock"
          /\ OnlyNext
          /\ UNCHANGED <<item, av, pd, dr, op>>
          /\ Lock(item[t])
          /\ pc'[t] = IF prev[item[t]] = Null THEN "jan_unlock" ELSE "jan_sweep"
          /\ jn'[t].ret = jn[t].ret /\ jn'[t].cur = prev[item[t]] /\ jn'[t].cand = prev[item[t]] /\ jn'[t].fail = Null
          /\ jn'[t].rdel = Null /\ jn'[t].right = Null /\ jn'[t].carry = Null /\ jn'[t].del = Null
          /\ ~jn'[t].seen /\ ~jn'[t].rerun
      BY <1>k, <1>1, <2>2, JanitorLockStartEffect
    <3> QED BY <1>k, <1>r, <2>2, <3>1, SMTT(30) DEF Starts, OnlyNext, Lock, Came, Janitoring
  <2> QED BY <2>1, <2>2
<1>2. CASE JanitorSweep(t)
  BY <1>k, <1>r, <1>2, SMTT(30) DEF JanitorSweep, Janitor, Disturb, Goto, Lock, OnlyNext, Came,
     Janitoring
<1>3. CASE JanitorCleanup(t)
  BY <1>k, <1>r, <1>3, SMTT(30) DEF JanitorCleanup, Janitor, Unlock, Goto, OnlyNext, Came,
     Janitoring
<1>4. CASE JanitorUnlockStart(t)
  <2>1. /\ pc[t] = "jan_unlock"
        /\ OnlyNext
        /\ UNCHANGED <<item, av, pd, dr, op>>
        /\ Unlock(item[t])
        /\ pc'[t] = jn[t].ret
        /\ jn'[t].ret = jn[t].ret /\ jn'[t].rerun = (jn[t].rerun \/ next[item[t]].disturbed) /\ jn'[t].status = StrongStatus(jn[t])
    BY <1>k, <1>4, JanitorUnlockStartEffect
  <2>3. CASE jn[t].ret = "dw_weak"
    BY <1>k, <1>r, <2>1, <2>3, SMTT(30) DEF Starts, OnlyNext, Unlock, Came, Janitoring
  <2>4. CASE jn[t].ret = "upd_done"
    BY <1>k, <1>r, <2>1, <2>4, SMTT(30) DEF Starts, OnlyNext, Unlock, Came, Janitoring
  <2>5. CASE jn[t].ret = "get_done"
    BY <1>k, <1>r, <2>1, <2>5, SMTT(30) DEF Starts, OnlyNext, Unlock, Came, Janitoring
  <2>9. jn[t].ret = "dw_weak" \/ jn[t].ret = "upd_done" \/ jn[t].ret = "get_done"
    BY <1>k, <1>r, <1>s, <2>1 DEF DropFrames, Shape, Dying, CallFrames, Continues, Janitoring
  <2> QED BY <2>3, <2>4, <2>5, <2>9
<1>5. CASE JanitorStrong(t)
  BY <1>k, <1>r, <1>5, SMTT(30) DEF JanitorStrong, Janitor, Goto, ReadOnly, Came, Janitoring
<1>6. CASE JanitorSetNext(t)
  BY <1>k, <1>r, <1>6, SMTT(30) DEF JanitorSetNext, Janitor, SetNext, Goto, OnlyNext, Came,
     Janitoring
<1>7. CASE JanitorCheckAdvance(t)
  BY <1>k, <1>r, <1>7, SMTT(30) DEF JanitorCheckAdvance, Janitor, Goto, ReadOnly, Came,
     Janitoring
<1>8. CASE JanitorFinal(t)
  BY <1>k, <1>r, <1>8, SMTT(30) DEF JanitorFinal, Janitor, Goto, ReadOnly, Came, Janitoring
<1>9. CASE JanitorDelete(t)
  BY <1>k, <1>r, <1>9, SMTT(30) DEF JanitorDelete, Janitor, Goto, ReadOnly, Came, Janitoring
<1>10. CASE JanitorFree(t)
  BY <1>k, <1>r, <1>10, SMTT(30) DEF JanitorFree, Janitor, Deallocate, Goto, DropPayload, Came,
     Janitoring
<1>11. CASE JanitorClearPrev(t)
  BY <1>k, <1>r, <1>11, SMTT(30) DEF JanitorClearPrev, Janitor, Goto, OnlyWeak, Came, Janitoring
<1>12. CASE JanitorUnlink(t)
  BY <1>k, <1>r, <1>12, SMTT(30) DEF JanitorUnlink, Janitor, Goto, OnlyPrev, Came, Janitoring
<1>13. CASE JanitorCarry(t)
  BY <1>k, <1>r, <1>13, SMTT(30) DEF JanitorCarry, Janitor, ReleaseCarry, Goto, OnlyNext,
     Unlock, Came, Janitoring
<1>14. CASE JanitorUncarry(t)
  BY <1>k, <1>r, <1>14, SMTT(30) DEF JanitorUncarry, Janitor, ReleaseCarry, Goto, OnlyNext,
     Unlock, Came, Janitoring
<1> QED BY <1>1, <1>2, <1>3, <1>4, <1>5, <1>6, <1>7, <1>8, <1>9, <1>10, <1>11, <1>12, <1>13,
  <1>14 DEF JanitorStep

(* A step of the drop of a reference comes to a label only from the labels *)
(* before it.                                                              *)
LEMMA DropCame ==
  ASSUME TypeOK, NEW t \in Threads, Shape(t), DropStep(t)
  PROVE  Came(t)
<1>k. TypeOK
  OBVIOUS
<1>r. /\ pc \in [Threads -> Labels] /\ item \in [Threads -> Nodes] /\ av \in [Threads -> AdvanceFrames]
      /\ pd \in [Threads -> PayloadFrames] /\ jn \in [Threads -> JanitorFrames]
      /\ dr \in [Threads -> DropFrames] /\ op \in [Threads -> CallFrames]
      /\ strong \in [Nodes -> 0..UsizeMax] /\ UsizeMax \in Nat /\ weak \in [Nodes -> WeakWords]
      /\ mem \in [Nodes -> {"unused", "private", "live", "freed"}] /\ prev \in [Nodes -> Ptrs]
      /\ stamp \in [Nodes -> Nat] /\ next \in [Nodes -> NextWords] /\ adv \in [Nodes -> Int]
      /\ handle \in [Handles -> HandleStates]
  BY HeapAssumption DEF TypeOK
<1>s. Shape(t)
  OBVIOUS
<1>1. CASE DropStrongDec(t)
  <2>1. CASE LastStrong(item[t])
    <3>1. /\ pc[t] = "ds_dec"
          /\ SubStrong(item[t])
          /\ OnlyStrong
          /\ UNCHANGED <<pd, op>>
          /\ Starts(t, item[t], "weak", "jan_lock")
          /\ jn'[t] = [IdleJanitor EXCEPT !.ret = "dw_weak"]
          /\ dr'[t] = [IdleDrop EXCEPT !.ret = dr[t].ret]
      BY <1>k, <1>1, <2>1, DropStrongDecEffect
    <3> QED BY <1>k, <1>r, <2>1, <3>1, SMTT(30) DEF Starts, SubStrong, OnlyStrong, IdleJanitor,
     IdleDrop, Came, Janitoring
  <2>2. CASE ~LastStrong(item[t])
    <3>1. /\ pc[t] = "ds_dec"
          /\ SubStrong(item[t])
          /\ OnlyStrong
          /\ UNCHANGED <<pd, op>>
          /\ pc'[t] = dr[t].ret
          /\ dr'[t] = IdleDrop
          /\ jn'[t] = IdleJanitor
          /\ UNCHANGED <<item, av>>
      BY <1>k, <1>1, <2>2, DropStrongDecEffect
    <3>3. CASE dr[t].ret = "ret"
      BY <1>k, <1>r, <2>2, <3>1, <3>3, SMTT(30) DEF Starts, SubStrong, OnlyStrong, IdleDrop,
     IdleJanitor, Came, Janitoring
    <3>4. CASE dr[t].ret = "sg_dec"
      BY <1>k, <1>r, <2>2, <3>1, <3>4, SMTT(30) DEF Starts, SubStrong, OnlyStrong, IdleDrop,
     IdleJanitor, Came, Janitoring
    <3>9. dr[t].ret = "ret" \/ dr[t].ret = "sg_dec"
      BY <1>k, <1>r, <1>s, <3>1, <2>2 DEF DropFrames, Shape, Dying, CallFrames, Continues,
     Janitoring
    <3> QED BY <3>3, <3>4, <3>9
  <2> QED BY <2>1, <2>2
<1>2. CASE DropWeakLoad(t)
  <2>1. CASE jn[t].rerun
    <3>1. /\ pc[t] = "dw_weak"
          /\ ReadOnly
          /\ UNCHANGED <<pd, op>>
          /\ Starts(t, item[t], "weak", "jan_lock")
          /\ jn'[t] = [IdleJanitor EXCEPT !.ret = "dw_weak"]
          /\ UNCHANGED dr
      BY <1>k, <1>2, <2>1, DropWeakLoadEffect
    <3> QED BY <1>k, <1>r, <2>1, <3>1, SMTT(30) DEF Starts, ReadOnly, IdleJanitor, Came,
     Janitoring
  <2>2. CASE ~jn[t].rerun
    <3>1. /\ pc[t] = "dw_weak"
          /\ ReadOnly
          /\ UNCHANGED <<pd, op>>
          /\ pc'[t] = "dw_next"
          /\ dr'[t] = [dr[t] EXCEPT !.ww = weak[item[t]]]
          /\ UNCHANGED <<item, av, jn>>
      BY <1>k, <1>2, <2>2, DropWeakLoadEffect
    <3> QED BY <1>k, <1>r, <2>2, <3>1, SMTT(30) DEF Starts, ReadOnly, Came, Janitoring
  <2> QED BY <2>1, <2>2
<1>3. CASE DropWeakNext(t)
  <2>1. CASE HasNext(item[t])
    <3>1. /\ pc[t] = "dw_next"
          /\ ReadOnly
          /\ UNCHANGED <<pd, op>>
          /\ Starts(t, item[t], "weak", "jan_lock")
          /\ jn'[t] = [IdleJanitor EXCEPT !.ret = "dw_weak"]
          /\ dr'[t] = [IdleDrop EXCEPT !.ret = dr[t].ret]
      BY <1>k, <1>3, <2>1, DropWeakNextEffect
    <3> QED BY <1>k, <1>r, <2>1, <3>1, SMTT(30) DEF Starts, ReadOnly, IdleJanitor, IdleDrop,
     Came, Janitoring
  <2>2. CASE ~HasNext(item[t])
    <3>1. /\ pc[t] = "dw_next"
          /\ ReadOnly
          /\ UNCHANGED <<pd, op>>
          /\ pc'[t] = IF jn[t].status = "NoStrongRefsExist" THEN "dw_claim" ELSE "dw_cas"
          /\ UNCHANGED <<item, av, jn, dr>>
      BY <1>k, <1>3, <2>2, DropWeakNextEffect
    <3> QED BY <1>k, <1>r, <2>2, <3>1, SMTT(30) DEF Starts, ReadOnly, Came, Janitoring
  <2> QED BY <2>1, <2>2
<1>4. CASE ClaimTeardown(t)
  BY <1>k, <1>r, <1>4, SMTT(30) DEF ClaimTeardown, StartPayloadDrop, Goto, OnlyStrong, Came,
     Janitoring
<1>5. CASE DropWeakCas(t)
  <2>1. CASE ~SameWeakWord(item[t], dr[t].ww)
    <3>1. /\ pc[t] = "dw_cas"
          /\ OnlyWeak
          /\ UNCHANGED <<pd, op>>
          /\ Starts(t, item[t], "weak", "jan_lock")
          /\ jn'[t] = [IdleJanitor EXCEPT !.ret = "dw_weak"]
          /\ dr'[t] = [IdleDrop EXCEPT !.ret = dr[t].ret]
          /\ UNCHANGED weak
      BY <1>k, <1>5, <2>1, DropWeakCasEffect
    <3> QED BY <1>k, <1>r, <2>1, <3>1, SMTT(30) DEF Starts, OnlyWeak, IdleJanitor, IdleDrop,
     Came, Janitoring
  <2>2. CASE SameWeakWord(item[t], dr[t].ww) /\ SoleUser(dr[t].ww)
    <3>1. /\ pc[t] = "dw_cas"
          /\ OnlyWeak
          /\ UNCHANGED <<pd, op>>
          /\ SubWeak(item[t])
          /\ pc'[t] = "dw_free"
          /\ UNCHANGED <<item, av, jn, dr>>
      BY <1>k, <1>5, <2>2, DropWeakCasEffect
    <3> QED BY <1>k, <1>r, <2>2, <3>1, SMTT(30) DEF Starts, OnlyWeak, SubWeak, Came, Janitoring
  <2>3. CASE SameWeakWord(item[t], dr[t].ww) /\ ~SoleUser(dr[t].ww)
    <3>1. /\ pc[t] = "dw_cas"
          /\ OnlyWeak
          /\ UNCHANGED <<pd, op>>
          /\ SubWeak(item[t])
          /\ pc'[t] = dr[t].ret
          /\ dr'[t] = IdleDrop
          /\ jn'[t] = IdleJanitor
          /\ UNCHANGED <<item, av>>
      BY <1>k, <1>5, <2>3, DropWeakCasEffect
    <3>3. CASE dr[t].ret = "ret"
      BY <1>k, <1>r, <2>3, <3>1, <3>3, SMTT(30) DEF Starts, OnlyWeak, SubWeak, IdleDrop,
     IdleJanitor, Came, Janitoring
    <3>4. CASE dr[t].ret = "sg_dec"
      BY <1>k, <1>r, <2>3, <3>1, <3>4, SMTT(30) DEF Starts, OnlyWeak, SubWeak, IdleDrop,
     IdleJanitor, Came, Janitoring
    <3>9. dr[t].ret = "ret" \/ dr[t].ret = "sg_dec"
      BY <1>k, <1>r, <1>s, <3>1, <2>3 DEF DropFrames, Shape, Dying, CallFrames, Continues,
     Janitoring
    <3> QED BY <3>3, <3>4, <3>9
  <2> QED BY <2>1, <2>2, <2>3
<1>6. CASE DropWeakFree(t)
  <2>1. /\ pc[t] = "dw_free"
        /\ mem' = [mem EXCEPT ![item[t]] = "freed"]
        /\ drops' = IF next[item[t]].dropped THEN drops ELSE [drops EXCEPT ![item[t]] = @ + 1]
        /\ UNCHANGED <<next, prev, strong, weak, adv, client, pd>>
        /\ op'[t].f = op[t].f /\ op'[t].ok = op[t].ok /\ op'[t].guard = op[t].guard /\ op'[t].hnd = op[t].hnd /\ op'[t].out = op[t].out
        /\ pc'[t] = dr[t].ret
        /\ dr'[t] = IdleDrop
        /\ jn'[t] = IdleJanitor
        /\ UNCHANGED <<item, av>>
    BY <1>k, <1>6, DropWeakFreeEffect
  <2>3. CASE dr[t].ret = "ret"
    BY <1>k, <1>r, <2>1, <2>3, SMTT(30) DEF Starts, IdleDrop, IdleJanitor, Came, Janitoring
  <2>4. CASE dr[t].ret = "sg_dec"
    BY <1>k, <1>r, <2>1, <2>4, SMTT(30) DEF Starts, IdleDrop, IdleJanitor, Came, Janitoring
  <2>9. dr[t].ret = "ret" \/ dr[t].ret = "sg_dec"
    BY <1>k, <1>r, <1>s, <2>1 DEF DropFrames, Shape, Dying, CallFrames, Continues, Janitoring
  <2> QED BY <2>3, <2>4, <2>9
<1> QED BY <1>1, <1>2, <1>3, <1>4, <1>5, <1>6 DEF DropStep

(* A step of an update comes to a label only from the labels before it.    *)
LEMMA UpdateCame ==
  ASSUME TypeOK, NEW t \in Threads, Shape(t), UpdateStep(t)
  PROVE  Came(t)
<1>k. TypeOK
  OBVIOUS
<1>r. /\ pc \in [Threads -> Labels] /\ item \in [Threads -> Nodes] /\ av \in [Threads -> AdvanceFrames]
      /\ pd \in [Threads -> PayloadFrames] /\ jn \in [Threads -> JanitorFrames]
      /\ dr \in [Threads -> DropFrames] /\ op \in [Threads -> CallFrames]
      /\ strong \in [Nodes -> 0..UsizeMax] /\ UsizeMax \in Nat /\ weak \in [Nodes -> WeakWords]
      /\ mem \in [Nodes -> {"unused", "private", "live", "freed"}] /\ prev \in [Nodes -> Ptrs]
      /\ stamp \in [Nodes -> Nat] /\ next \in [Nodes -> NextWords] /\ adv \in [Nodes -> Int]
      /\ handle \in [Handles -> HandleStates]
  BY HeapAssumption DEF TypeOK
<1>s. Shape(t)
  OBVIOUS
<1>1. CASE UpdateNext(t)
  <2>1. CASE HasNext(item[t])
    <3>1. /\ pc[t] = "upd_next"
          /\ UNCHANGED <<client, pd, jn, dr>>
          /\ UNCHANGED <<next, adv, drops>>
          /\ Starts(t, item[t], "strong", "upd_next")
          /\ UNCHANGED <<heap, op>>
      BY <1>k, <1>1, <2>1, UpdateNextEffect
    <3> QED BY <1>k, <1>r, <2>1, <3>1, SMTT(30) DEF Starts, Came, Janitoring
  <2>2. CASE ~HasNext(item[t]) /\ op[t].val # Null
    <3>1. /\ pc[t] = "upd_next"
          /\ UNCHANGED <<client, pd, jn, dr>>
          /\ UNCHANGED <<next, adv, drops>>
          /\ pc'[t] = "upd_weak"
          /\ op'[t] = [op[t] EXCEPT !.nw = next[item[t]]]
          /\ prev' = [prev EXCEPT ![op[t].val] = item[t]]
          /\ UNCHANGED <<strong, weak, mem, item, av>>
      BY <1>k, <1>1, <2>2, UpdateNextEffect
    <3> QED BY <1>k, <1>r, <2>2, <3>1, SMTT(30) DEF Starts, Came, Janitoring
  <2>3. CASE ~HasNext(item[t]) /\ op[t].val = Null
    <3>1. /\ pc[t] = "upd_next"
          /\ UNCHANGED <<client, pd, jn, dr>>
          /\ UNCHANGED <<next, adv, drops>>
          /\ Unused # {}
          /\ pc'[t] = "upd_weak"
          /\ op'[t] = [op[t] EXCEPT !.val = FreshNode, !.nw = next[item[t]]]
          /\ NewHolder(FreshNode, item[t])
          /\ UNCHANGED <<item, av>>
      BY <1>k, <1>1, <2>3, UpdateNextEffect
    <3> QED BY <1>k, <1>r, <2>3, <3>1, SMTT(30) DEF Starts, NewHolder, Came, Janitoring
  <2> QED BY <2>1, <2>2, <2>3
<1>2. CASE RcuCancel(t)
  BY <1>k, <1>r, <1>2, SMTT(30) DEF RcuCancel, Goto, Came, Janitoring
<1>3. CASE UpdateWeakInc(t)
  BY <1>k, <1>r, <1>3, SMTT(30) DEF UpdateWeakInc, AddWeak, Goto, OnlyWeak, Came, Janitoring
<1>4. CASE UpdateCas(t)
  <2>1. CASE CanLink(item[t], op[t].nw)
    BY <1>k, <1>r, <1>4, <2>1, SMTT(30) DEF UpdateCas, SetNext, Publish, Goto, Came, Janitoring
  <2>2. CASE ~CanLink(item[t], op[t].nw)
    BY <1>k, <1>r, <1>4, <2>2, SMTT(30) DEF UpdateCas, SetNext, Publish, Goto, Came, Janitoring
  <2> QED BY <2>1, <2>2
<1>5. CASE UpdateFail(t)
  <2>1. /\ pc[t] = "upd_fail"
        /\ SubWeak(item[t])
        /\ OnlyWeak
        /\ UNCHANGED <<pd, jn, dr, op>>
        /\ Starts(t, item[t], "strong", "upd_next")
    BY <1>k, <1>5, UpdateFailEffect
  <2> QED BY <1>k, <1>r, <2>1, SMTT(30) DEF Starts, SubWeak, OnlyWeak, Came, Janitoring
<1>6. CASE UpdateMark(t)
  BY <1>k, <1>r, <1>6, SMTT(30) DEF UpdateMark, Goto, OnlyWeak, Came, Janitoring
<1>7. CASE UpdateDec(t)
  <2>1. CASE LastStrong(item[t])
    BY <1>k, <1>r, <1>7, <2>1, SMTT(30) DEF UpdateDec, SubStrong, StartPayloadDrop, Goto,
     OnlyStrong, Came, Janitoring
  <2>2. CASE ~LastStrong(item[t])
    BY <1>k, <1>r, <1>7, <2>2, SMTT(30) DEF UpdateDec, SubStrong, StartPayloadDrop, Goto,
     OnlyStrong, Came, Janitoring
  <2> QED BY <2>1, <2>2
<1>8. CASE UpdateDecWeak(t)
  BY <1>k, <1>r, <1>8, SMTT(30) DEF UpdateDecWeak, SubWeak, Goto, OnlyWeak, Came, Janitoring
<1>9. CASE UpdateDone(t)
  <2>1. CASE jn[t].rerun
    <3>1. /\ pc[t] = "upd_done"
          /\ ReadOnly
          /\ UNCHANGED <<pd, jn, dr, op>>
          /\ Starts(t, item[t], "strong", "jan_lock")
      BY <1>k, <1>9, <2>1, UpdateDoneEffect
    <3> QED BY <1>k, <1>r, <2>1, <3>1, SMTT(30) DEF Starts, ReadOnly, Came, Janitoring
  <2>2. CASE ~jn[t].rerun
    <3>1. /\ pc[t] = "upd_done"
          /\ ReadOnly
          /\ UNCHANGED <<pd, jn, dr, op>>
          /\ pc'[t] = "ret"
          /\ UNCHANGED <<item, av>>
      BY <1>k, <1>9, <2>2, UpdateDoneEffect
    <3> QED BY <1>k, <1>r, <2>2, <3>1, SMTT(30) DEF Starts, ReadOnly, Came, Janitoring
  <2> QED BY <2>1, <2>2
<1> QED BY <1>1, <1>2, <1>3, <1>4, <1>5, <1>6, <1>7, <1>8, <1>9 DEF UpdateStep

(* A step of an upgrade comes to a label only from the labels before it.   *)
LEMMA UpgradeCame ==
  ASSUME TypeOK, NEW t \in Threads, Shape(t), UpgradeStep(t)
  PROVE  Came(t)
<1>k. TypeOK
  OBVIOUS
<1>r. /\ pc \in [Threads -> Labels] /\ item \in [Threads -> Nodes] /\ av \in [Threads -> AdvanceFrames]
      /\ pd \in [Threads -> PayloadFrames] /\ jn \in [Threads -> JanitorFrames]
      /\ dr \in [Threads -> DropFrames] /\ op \in [Threads -> CallFrames]
      /\ strong \in [Nodes -> 0..UsizeMax] /\ UsizeMax \in Nat /\ weak \in [Nodes -> WeakWords]
      /\ mem \in [Nodes -> {"unused", "private", "live", "freed"}] /\ prev \in [Nodes -> Ptrs]
      /\ stamp \in [Nodes -> Nat] /\ next \in [Nodes -> NextWords] /\ adv \in [Nodes -> Int]
      /\ handle \in [Handles -> HandleStates]
  BY HeapAssumption DEF TypeOK
<1>s. Shape(t)
  OBVIOUS
<1>1. CASE UpgradeLoadStrong(t)
  BY <1>k, <1>r, <1>1, SMTT(30) DEF UpgradeLoadStrong, Goto, ReadOnly, Came, Janitoring
<1>2. CASE UpgradeLoadNext(t)
  <2>1. CASE HasNext(item[t])
    <3>1. /\ pc[t] = "upg_next"
          /\ ReadOnly
          /\ UNCHANGED pd
          /\ Starts(t, item[t], "weak", "upg_strong")
          /\ UNCHANGED <<jn, dr, op>>
      BY <1>k, <1>2, <2>1, UpgradeLoadNextEffect
    <3> QED BY <1>k, <1>r, <2>1, <3>1, SMTT(30) DEF Starts, ReadOnly, Came, Janitoring
  <2>2. CASE ~HasNext(item[t]) /\ ValueIsGone(item[t], op[t].cs)
    <3>1. /\ pc[t] = "upg_next"
          /\ ReadOnly
          /\ UNCHANGED pd
          /\ Starts(t, item[t], "weak", "jan_lock")
          /\ jn'[t] = [IdleJanitor EXCEPT !.ret = "dw_weak"]
          /\ dr'[t] = [IdleDrop EXCEPT !.ret = "ret"]
          /\ op'[t] = [op[t] EXCEPT !.ok = FALSE]
      BY <1>k, <1>2, <2>2, UpgradeLoadNextEffect
    <3> QED BY <1>k, <1>r, <2>2, <3>1, SMTT(30) DEF Starts, ReadOnly, IdleJanitor, IdleDrop,
     Came, Janitoring
  <2>3. CASE ~HasNext(item[t]) /\ ~ValueIsGone(item[t], op[t].cs)
    <3>1. /\ pc[t] = "upg_next"
          /\ ReadOnly
          /\ UNCHANGED pd
          /\ pc'[t] = IF op[t].cs = 0 THEN "upg_incw" ELSE "upg_cas"
          /\ UNCHANGED <<item, av, jn, dr, op>>
      BY <1>k, <1>2, <2>3, UpgradeLoadNextEffect
    <3> QED BY <1>k, <1>r, <2>3, <3>1, SMTT(30) DEF Starts, ReadOnly, Came, Janitoring
  <2> QED BY <2>1, <2>2, <2>3
<1>3. CASE UpgradeIncWeak(t)
  BY <1>k, <1>r, <1>3, SMTT(30) DEF UpgradeIncWeak, AddWeak, Goto, OnlyWeak, Came, Janitoring
<1>4. CASE UpgradeCas(t)
  <2>1. CASE strong[item[t]] = op[t].cs
    <3>1. /\ pc[t] = "upg_cas"
          /\ OnlyStrong
          /\ UNCHANGED <<pd, jn, dr, op>>
          /\ AddStrong(item[t])
          /\ pc'[t] = "upg_check"
          /\ UNCHANGED <<item, av>>
      BY <1>k, <1>4, <2>1, UpgradeCasEffect
    <3> QED BY <1>k, <1>r, <2>1, <3>1, SMTT(30) DEF Starts, OnlyStrong, AddStrong, Came,
     Janitoring
  <2>2. CASE strong[item[t]] # op[t].cs /\ op[t].cs = 0
    <3>1. /\ pc[t] = "upg_cas"
          /\ OnlyStrong
          /\ UNCHANGED <<pd, jn, dr, op>>
          /\ pc'[t] = "upg_race"
          /\ UNCHANGED <<strong, item, av>>
      BY <1>k, <1>4, <2>2, UpgradeCasEffect
    <3> QED BY <1>k, <1>r, <2>2, <3>1, SMTT(30) DEF Starts, OnlyStrong, Came, Janitoring
  <2>3. CASE strong[item[t]] # op[t].cs /\ op[t].cs # 0
    <3>1. /\ pc[t] = "upg_cas"
          /\ OnlyStrong
          /\ UNCHANGED <<pd, jn, dr, op>>
          /\ Starts(t, item[t], "weak", "upg_strong")
          /\ UNCHANGED strong
      BY <1>k, <1>4, <2>3, UpgradeCasEffect
    <3> QED BY <1>k, <1>r, <2>3, <3>1, SMTT(30) DEF Starts, OnlyStrong, Came, Janitoring
  <2> QED BY <2>1, <2>2, <2>3
<1>5. CASE UpgradeRaceDecWeak(t)
  <2>1. /\ pc[t] = "upg_race"
        /\ SubWeak(item[t])
        /\ OnlyWeak
        /\ UNCHANGED <<pd, jn, dr, op>>
        /\ Starts(t, item[t], "weak", "upg_strong")
    BY <1>k, <1>5, UpgradeRaceDecWeakEffect
  <2> QED BY <1>k, <1>r, <2>1, SMTT(30) DEF Starts, SubWeak, OnlyWeak, Came, Janitoring
<1>6. CASE UpgradeCheck(t)
  BY <1>k, <1>r, <1>6, SMTT(30) DEF UpgradeCheck, Goto, ReadOnly, Came, Janitoring
<1>7. CASE UpgradeUndo(t)
  <2>1. CASE LastStrong(item[t])
    <3>1. /\ pc[t] = "upg_undo"
          /\ SubStrong(item[t])
          /\ OnlyStrong
          /\ UNCHANGED <<pd, jn, dr, op>>
          /\ pc'[t] = "upg_undo_decw"
          /\ UNCHANGED <<item, av>>
      BY <1>k, <1>7, <2>1, UpgradeUndoEffect
    <3> QED BY <1>k, <1>r, <2>1, <3>1, SMTT(30) DEF Starts, SubStrong, OnlyStrong, Came,
     Janitoring
  <2>2. CASE ~LastStrong(item[t])
    <3>1. /\ pc[t] = "upg_undo"
          /\ SubStrong(item[t])
          /\ OnlyStrong
          /\ UNCHANGED <<pd, jn, dr, op>>
          /\ Starts(t, item[t], "weak", "upg_strong")
      BY <1>k, <1>7, <2>2, UpgradeUndoEffect
    <3> QED BY <1>k, <1>r, <2>2, <3>1, SMTT(30) DEF Starts, SubStrong, OnlyStrong, Came,
     Janitoring
  <2> QED BY <2>1, <2>2
<1>8. CASE UpgradeUndoDecWeak(t)
  <2>1. /\ pc[t] = "upg_undo_decw"
        /\ SubWeak(item[t])
        /\ OnlyWeak
        /\ UNCHANGED <<pd, jn, dr, op>>
        /\ Starts(t, item[t], "weak", "upg_strong")
    BY <1>k, <1>8, UpgradeUndoDecWeakEffect
  <2> QED BY <1>k, <1>r, <2>1, SMTT(30) DEF Starts, SubWeak, OnlyWeak, Came, Janitoring
<1>9. CASE UpgradeDone(t)
  BY <1>k, <1>r, <1>9, SMTT(30) DEF UpgradeDone, SubWeak, Goto, OnlyWeak, Came, Janitoring
<1> QED BY <1>1, <1>2, <1>3, <1>4, <1>5, <1>6, <1>7, <1>8, <1>9 DEF UpgradeStep

(* A step of the remaining code of the public calls comes to a label only  *)
(* from the labels before it.                                              *)
LEMMA ApiCame ==
  ASSUME TypeOK, NEW t \in Threads, Shape(t), ApiStep(t)
  PROVE  Came(t)
<1>k. TypeOK
  OBVIOUS
<1>r. /\ pc \in [Threads -> Labels] /\ item \in [Threads -> Nodes] /\ av \in [Threads -> AdvanceFrames]
      /\ pd \in [Threads -> PayloadFrames] /\ jn \in [Threads -> JanitorFrames]
      /\ dr \in [Threads -> DropFrames] /\ op \in [Threads -> CallFrames]
      /\ strong \in [Nodes -> 0..UsizeMax] /\ UsizeMax \in Nat /\ weak \in [Nodes -> WeakWords]
      /\ mem \in [Nodes -> {"unused", "private", "live", "freed"}] /\ prev \in [Nodes -> Ptrs]
      /\ stamp \in [Nodes -> Nat] /\ next \in [Nodes -> NextWords] /\ adv \in [Nodes -> Int]
      /\ handle \in [Handles -> HandleStates]
  BY HeapAssumption DEF TypeOK
<1>s. Shape(t)
  OBVIOUS
<1>1. CASE GetLoad(t)
  <2>1. CASE NeedsReload(op[t].f, item[t])
    <3>1. /\ pc[t] = "get_load"
          /\ ReadOnly
          /\ UNCHANGED <<pd, dr, op>>
          /\ Starts(t, item[t], "strong", "jan_lock")
          /\ jn'[t].ret = "get_done"
      BY <1>k, <1>1, <2>1, GetLoadEffect
    <3> QED BY <1>k, <1>r, <2>1, <3>1, SMTT(30) DEF Starts, ReadOnly, Came, Janitoring
  <2>2. CASE ~NeedsReload(op[t].f, item[t])
    <3>1. /\ pc[t] = "get_load"
          /\ ReadOnly
          /\ UNCHANGED <<pd, dr, op>>
          /\ pc'[t] = AfterReload(op[t].f)
          /\ UNCHANGED <<item, av, jn>>
      BY <1>k, <1>1, <2>2, GetLoadEffect
    <3> QED BY <1>k, <1>r, <2>2, <3>1, SMTT(30) DEF Starts, ReadOnly, AfterReload, Came,
     Janitoring
  <2> QED BY <2>1, <2>2
<1>2. CASE GetDone(t)
  <2>1. CASE jn[t].rerun
    <3>1. /\ pc[t] = "get_done"
          /\ ReadOnly
          /\ UNCHANGED <<pd, jn, dr, op>>
          /\ Starts(t, item[t], "strong", "jan_lock")
      BY <1>k, <1>2, <2>1, GetDoneEffect
    <3> QED BY <1>k, <1>r, <2>1, <3>1, SMTT(30) DEF Starts, ReadOnly, Came, Janitoring
  <2>2. CASE ~jn[t].rerun
    <3>1. /\ pc[t] = "get_done"
          /\ ReadOnly
          /\ UNCHANGED <<pd, jn, dr, op>>
          /\ pc'[t] = AfterReload(op[t].f)
          /\ UNCHANGED <<item, av>>
      BY <1>k, <1>2, <2>2, GetDoneEffect
    <3> QED BY <1>k, <1>r, <2>2, <3>1, SMTT(30) DEF Starts, ReadOnly, AfterReload, Came,
     Janitoring
  <2> QED BY <2>1, <2>2
<1>3. CASE TryGetMutWeak(t)
  BY <1>k, <1>r, <1>3, SMTT(30) DEF TryGetMutWeak, Goto, ReadOnly, Came, Janitoring
<1>4. CASE TryGetMutStrong(t)
  BY <1>k, <1>r, <1>4, SMTT(30) DEF TryGetMutStrong, Goto, ReadOnly, Came, Janitoring
<1>5. CASE TryGetMutAgain(t)
  BY <1>k, <1>r, <1>5, SMTT(30) DEF TryGetMutAgain, Goto, ReadOnly, Came, Janitoring
<1>6. CASE SharedGetLoad(t)
  <2>1. CASE HasNext(Base(t))
    BY <1>k, <1>r, <1>6, <2>1, SMTT(30) DEF SharedGetLoad, Goto, ReadOnly, Came, Janitoring
  <2>2. CASE ~HasNext(Base(t))
    BY <1>k, <1>r, <1>6, <2>2, SMTT(30) DEF SharedGetLoad, Goto, ReadOnly, Came, Janitoring
  <2> QED BY <2>1, <2>2
<1>7. CASE SharedGetInc(t)
  BY <1>k, <1>r, <1>7, SMTT(30) DEF SharedGetInc, Goto, OnlyAdv, Came, Janitoring
<1>8. CASE SharedGetNext(t)
  BY <1>k, <1>r, <1>8, SMTT(30) DEF SharedGetNext, Goto, ReadOnly, Came, Janitoring
<1>9. CASE SharedGetStrong(t)
  BY <1>k, <1>r, <1>9, SMTT(30) DEF SharedGetStrong, Goto, ReadOnly, Came, Janitoring
<1>10. CASE SharedGetCas(t)
  <2>1. CASE strong[op[t].nxt] = op[t].cs
    BY <1>k, <1>r, <1>10, <2>1, SMTT(30) DEF SharedGetCas, AddStrong, Goto, OnlyStrong, Came,
     Janitoring
  <2>2. CASE strong[op[t].nxt] # op[t].cs
    BY <1>k, <1>r, <1>10, <2>2, SMTT(30) DEF SharedGetCas, AddStrong, Goto, OnlyStrong, Came,
     Janitoring
  <2> QED BY <2>1, <2>2
<1>11. CASE SharedGetRecheck(t)
  <2>1. CASE HasNext(op[t].nxt)
    <3>1. /\ pc[t] = "sg_recheck"
          /\ ReadOnly
          /\ UNCHANGED <<pd, jn, op>>
          /\ Starts(t, op[t].nxt, "strong", "ds_dec")
          /\ dr'[t] = [IdleDrop EXCEPT !.ret = "sg_dec"]
      BY <1>k, <1>11, <2>1, SharedGetRecheckEffect
    <3> QED BY <1>k, <1>r, <2>1, <3>1, SMTT(30) DEF Starts, ReadOnly, IdleDrop, Came, Janitoring
  <2>2. CASE ~HasNext(op[t].nxt)
    <3>1. /\ pc[t] = "sg_recheck"
          /\ ReadOnly
          /\ UNCHANGED <<pd, jn, op>>
          /\ pc'[t] = "sg_light"
          /\ UNCHANGED <<item, av, dr>>
      BY <1>k, <1>11, <2>2, SharedGetRecheckEffect
    <3> QED BY <1>k, <1>r, <2>2, <3>1, SMTT(30) DEF Starts, ReadOnly, Came, Janitoring
  <2> QED BY <2>1, <2>2
<1>12. CASE SharedGetLight(t)
  BY <1>k, <1>r, <1>12, SMTT(30) DEF SharedGetLight, Goto, OnlyAdv, Came, Janitoring
<1>13. CASE SharedGetDec(t)
  BY <1>k, <1>r, <1>13, SMTT(30) DEF SharedGetDec, Goto, OnlyAdv, Came, Janitoring
<1>14. CASE SharedGetClone(t)
  <2>1. /\ pc[t] = "sg_clone"
        /\ AddStrong(Base(t))
        /\ OnlyStrong
        /\ UNCHANGED <<pd, jn, dr>>
        /\ Starts(t, Base(t), "strong", "reading")
        /\ op'[t] = [op[t] EXCEPT !.guard = "full"]
    BY <1>k, <1>14, SharedGetCloneEffect
  <2> QED BY <1>k, <1>r, <2>1, SMTT(30) DEF Starts, AddStrong, OnlyStrong, Came, Janitoring
<1>15. CASE FinishReading(t)
  <2>1. CASE op[t].guard \in {"light", "full"}
    <3>1. /\ pc[t] \in {"reading", "mutref"}
          /\ ReadOnly
          /\ UNCHANGED <<pd, jn, op>>
          /\ Starts(t, item[t], "strong", "ds_dec")
          /\ dr'[t] = [IdleDrop EXCEPT !.ret = "ret"]
      BY <1>k, <1>15, <2>1, FinishReadingEffect
    <3> QED BY <1>k, <1>r, <2>1, <3>1, SMTT(30) DEF Starts, ReadOnly, IdleDrop, Came, Janitoring
  <2>2. CASE op[t].guard \notin {"light", "full"}
    <3>1. /\ pc[t] \in {"reading", "mutref"}
          /\ ReadOnly
          /\ UNCHANGED <<pd, jn, op>>
          /\ pc'[t] = "ret"
          /\ UNCHANGED <<item, av, dr>>
      BY <1>k, <1>15, <2>2, FinishReadingEffect
    <3> QED BY <1>k, <1>r, <2>2, <3>1, SMTT(30) DEF Starts, ReadOnly, Came, Janitoring
  <2> QED BY <2>1, <2>2
<1>16. CASE Return(t)
  BY <1>k, <1>r, <1>16, SMTT(30) DEF Return, Goto, Came, Janitoring
<1> QED BY <1>1, <1>2, <1>3, <1>4, <1>5, <1>6, <1>7, <1>8, <1>9, <1>10, <1>11, <1>12, <1>13,
  <1>14, <1>15, <1>16 DEF ApiStep

(* The entry of a call comes to a label only from the return of the one    *)
(* before.                                                                 *)
LEMMA CallCame ==
  ASSUME TypeOK, NEW t \in Threads, Call(t)
  PROVE  Came(t)
<1>k. TypeOK /\ pc \in [Threads -> Labels]
  BY DEF TypeOK
<1>1. ASSUME NEW h \in Handles, NEW o \in Handles, Clone(t, h, o)
      PROVE  Came(t)
  <2>1. /\ Entered(t, "clone", h, o, Null)
        /\ handle[h].kind = "strong"
        /\ handle[o].kind = "none"
        /\ handle' = [handle EXCEPT ![o] = Busy]
        /\ AddStrong(handle[h].node)
        /\ Starts(t, handle[h].node, "strong", "ret")
        /\ UNCHANGED <<next, prev, weak, adv, mem, drops, jn, dr>>
    BY <1>k, <1>1, CloneEffect
  <2> QED BY <1>k, <2>1 DEF Entered, Starts, Busy, AddStrong, Came, Janitoring, locals
<1>2. ASSUME NEW f, NEW h \in Handles, NEW o \in Handles, CloneWeak(t, f, h, o)
      PROVE  Came(t)
  <2>1. /\ pc[t] = "idle"
        /\ handle[h].kind = IF f = "downgrade" THEN "strong" ELSE "weak"
        /\ handle[o].kind = "none"
        /\ handle' = [handle EXCEPT ![o] = [kind |-> "weak", node |-> handle[h].node]]
        /\ AddWeak(handle[h].node)
        /\ UNCHANGED <<next, prev, strong, adv, mem, drops, stamp, count, pc, locals>>
    BY <1>k, <1>2, CloneWeakEffect
  <2> QED BY <1>k, <2>1 DEF Entered, Starts, AddWeak, Came, Janitoring, locals
<1>3. ASSUME NEW h \in Handles, NEW o \in Handles, Upgrade(t, h, o)
      PROVE  Came(t)
  <2>1. /\ Entered(t, "upgrade", h, o, Null)
        /\ handle[h].kind = "weak"
        /\ handle[o].kind = "none"
        /\ handle' = [handle EXCEPT ![o] = Busy]
        /\ AddWeak(handle[h].node)
        /\ Starts(t, handle[h].node, "weak", "upg_strong")
        /\ UNCHANGED <<next, prev, strong, adv, mem, drops, jn, dr>>
    BY <1>k, <1>3, UpgradeEffect
  <2> QED BY <1>k, <2>1 DEF Entered, Starts, Busy, AddWeak, Came, Janitoring, locals
<1>4. ASSUME NEW h \in Handles, Update(t, h)
      PROVE  Came(t)
  <2>1. /\ Unused # {}
        /\ Entered(t, "update", h, h, FreshNode)
        /\ handle[h].kind = "strong"
        /\ \A u \in Threads : pc[u] # "idle" => op[u].hnd # h
        /\ handle' = [handle EXCEPT ![h] = Busy]
        /\ NewHolder(FreshNode, handle[h].node)
        /\ Starts(t, handle[h].node, "strong", "upd_next")
        /\ UNCHANGED <<next, adv, drops, jn, dr>>
    BY <1>k, <1>4, UpdateEffect
  <2> QED BY <1>k, <2>1 DEF Entered, Starts, Busy, NewHolder, Came, Janitoring, locals
<1>5. ASSUME NEW h \in Handles, Rcu(t, h)
      PROVE  Came(t)
  <2>1. /\ Entered(t, "rcu", h, h, Null)
        /\ handle[h].kind = "strong"
        /\ \A u \in Threads : pc[u] # "idle" => op[u].hnd # h
        /\ handle' = [handle EXCEPT ![h] = Busy]
        /\ Starts(t, handle[h].node, "strong", "upd_next")
        /\ UNCHANGED <<heap, jn, dr>>
    BY <1>k, <1>5, RcuEffect
  <2> QED BY <1>k, <2>1 DEF Entered, Starts, Busy, Came, Janitoring, locals
<1>6. ASSUME NEW f, NEW h \in Handles, DropShift(t, f, h)
      PROVE  Came(t)
  <2>1. /\ f \in {"drop", "intoInner"}
        /\ Entered(t, f, h, h, Null)
        /\ handle[h].kind = "strong"
        /\ \A u \in Threads : pc[u] # "idle" => op[u].hnd # h
        /\ handle' = [handle EXCEPT ![h] = Busy]
        /\ Starts(t, handle[h].node, "strong", "ds_dec")
        /\ dr'[t] = [IdleDrop EXCEPT !.ret = "ret"]
        /\ UNCHANGED <<heap, jn>>
    BY <1>k, <1>6, DropShiftEffect
  <2> QED BY <1>k, <2>1 DEF Entered, Starts, Busy, IdleDrop, Came, Janitoring, locals
<1>7. ASSUME NEW h \in Handles, DropShiftWeak(t, h)
      PROVE  Came(t)
  <2>1. /\ Entered(t, "dropWeak", h, h, Null)
        /\ handle[h].kind = "weak"
        /\ \A u \in Threads : pc[u] # "idle" => op[u].hnd # h
        /\ handle' = [handle EXCEPT ![h] = Busy]
        /\ Starts(t, handle[h].node, "weak", "jan_lock")
        /\ jn'[t] = [IdleJanitor EXCEPT !.ret = "dw_weak"]
        /\ dr'[t] = [IdleDrop EXCEPT !.ret = "ret"]
        /\ UNCHANGED heap
    BY <1>k, <1>7, DropShiftWeakEffect
  <2> QED BY <1>k, <2>1 DEF Entered, Starts, Busy, IdleJanitor, IdleDrop, Came, Janitoring,
     locals
<1>8. ASSUME NEW f, NEW h \in Handles, Reload(t, f, h)
      PROVE  Came(t)
  <2>1. /\ f \in {"get", "reload", "tryGetMut"}
        /\ Entered(t, f, h, h, Null)
        /\ handle[h].kind = "strong"
        /\ \A u \in Threads : pc[u] # "idle" => op[u].hnd # h
        /\ handle' = [handle EXCEPT ![h] = Busy]
        /\ item'[t] = handle[h].node
        /\ pc'[t] = "get_load"
        /\ UNCHANGED <<heap, av, jn, dr>>
    BY <1>k, <1>8, ReloadEffect
  <2> QED BY <1>k, <2>1 DEF Entered, Starts, Busy, Came, Janitoring, locals
<1>9. ASSUME NEW h \in Handles, SharedGet(t, h)
      PROVE  Came(t)
  <2>1. /\ Entered(t, "sharedGet", h, h, Null)
        /\ handle[h].kind = "strong"
        /\ pc'[t] = "sg_load"
        /\ UNCHANGED <<heap, handle, item, av, jn, dr>>
    BY <1>k, <1>9, SharedGetEffect
  <2> QED BY <1>k, <2>1 DEF Entered, Starts, Came, Janitoring, locals
<1> QED BY <1>1, <1>2, <1>3, <1>4, <1>5, <1>6, <1>7, <1>8, <1>9 DEF Call

(* Whatever the step, these are the labels it comes from.                   *)
LEMMA Arrivals ==
  ASSUME SafeInv, NEW t \in Threads, AnyStep(t)
  PROVE  Came(t)
<1>1. TypeOK /\ Shape(t)
  BY SafeParts, NodesTyped
<1> QED BY <1>1, AdvanceCame, JanitorCame, DropCame, UpdateCame, UpgradeCame, ApiCame, CallCame DEF AnyStep, Step

-----------------------------------------------------------------------------
(* What an advance follows is never freed by a janitor under way.          *)

\* janitor t frees nothing from y on, which is next of x
SafeFrom(t, x, y) ==
  /\ pc[t] \in Redirecting /\ ~Before(x, jn[t].cur) => Spares(t, y)
  /\ pc[t] \in Freeing \ {"jan_uncarry"} => Spares(t, y)

(* next of a live node leads past all that a janitor is about to free.      *)
LEMMA NextSpared ==
  ASSUME SafeInv, NEW x \in Nodes, Live(x), HasNext(x), NEW t \in Threads
  PROVE  /\ next[x].ptr \in Nodes /\ Live(next[x].ptr) /\ Before(x, next[x].ptr)
         /\ SafeFrom(t, x, next[x].ptr)
<1>1. next[x].ptr \in Nodes /\ Live(next[x].ptr) /\ Before(x, next[x].ptr)
  BY SafeParts, Line
<1>2. PICK y \in Nodes : y = next[x].ptr
  BY <1>1
<1>k. /\ item[t] \in Nodes /\ Null \notin Nodes
      /\ prev \in [Nodes -> Ptrs] /\ stamp \in [Nodes -> Nat]
      /\ \A m, n \in Nodes : Live(m) /\ Live(n) => Before(m, n) \/ Before(n, m) \/ m = n
      /\ jn[t].cur \in Ptrs /\ jn[t].prv \in Ptrs /\ jn[t].right \in Ptrs /\ jn[t].del \in Ptrs
      /\ JanitorKnows(t) /\ JanitorOrdered(pc[t], item[t], jn[t]) /\ (pc[t] \in Janitoring => Live(item[t]))
  BY ListParts, JanitorFacts, SafeParts, NodesTyped
<1>r. Redirected(t, x) => ~Before(y, item[t])
  BY <1>2, SafeParts DEF Followed
<1>3. ASSUME pc[t] \in Redirecting, ~Before(x, jn[t].cur) PROVE Spares(t, y)
  <2>1. jn[t].cur \in Nodes /\ Live(jn[t].cur) /\ Live(item[t])
    BY <1>3, <1>k DEF Redirecting, JanitorKnows, Ptrs, Janitoring
  <2>2. CASE Before(x, item[t])
    <3>1. CASE pc[t] \in {"jan_strong", "jan_setnext"}
      BY <1>3, <1>r, <2>2, <3>1 DEF Redirected, Spares, Redirecting
    <3>2. CASE pc[t] = "jan_adv"
      <4>1. jn[t].prv \in Nodes /\ Before(jn[t].prv, jn[t].cur)
        <5>1. HasLocked(t, jn[t].cur) /\ ~Gap(t)
          BY <2>1, <3>2, <1>k DEF HasLocked, Redirecting, Gap, JanitorOrdered, Older, Before
        <5>2. Adjacent(jn[t].cur, prev[jn[t].cur])
          BY <2>1, <5>1, ListParts, PrevAdjacent
        <5>3. jn[t].prv = prev[jn[t].cur] /\ jn[t].prv # Null
          BY <3>2, <1>k DEF JanitorKnows
        <5> QED BY <5>2, <5>3, <1>k DEF Adjacent, Ptrs
      <4>2. ~Before(x, jn[t].prv)
        BY <4>1, <1>3, <1>k, <2>1 DEF Before
      <4> QED BY <1>r, <2>2, <3>2, <4>2 DEF Redirected, Spares, Redirecting
    <3> QED BY <1>3, <3>1, <3>2 DEF Redirecting
  <2>3. CASE ~Before(x, item[t])
    <3>1. ~Before(y, item[t])
      BY <1>1, <1>2, <1>k, <2>3 DEF Before
    <3> QED BY <1>3, <3>1 DEF Spares
  <2> QED BY <2>2, <2>3
<1>4. ASSUME pc[t] \in Freeing \ {"jan_uncarry"} PROVE Spares(t, y)
  <2>0. pc[t] \notin Redirecting
    BY <1>4 DEF Redirecting, Freeing
  <2>1. jn[t].right \in Nodes /\ Live(jn[t].right) /\ Live(item[t]) /\ ~Before(item[t], jn[t].right)
    <3>1. pc[t] \in Janitoring
      BY <1>4 DEF Freeing, Janitoring
    <3> QED BY <1>4, <3>1, <1>k DEF Freeing, JanitorKnows, Ptrs, Before
  <2>2. CASE ~Before(x, jn[t].right)
    <3>1. ~Before(y, jn[t].right)
      BY <1>1, <1>2, <1>k, <2>1, <2>2 DEF Before
    <3> QED BY <2>0, <3>1 DEF Spares
  <2>3. CASE Before(x, jn[t].right)
    <3>1. HasLocked(t, x)
      <4>1. CASE pc[t] \in {"jan_final", "jan_del", "jan_free"} /\ ~Gap(t)
        <5>1. HasLocked(t, jn[t].right)
          BY <4>1, <2>1, <1>k DEF HasLocked, JanitorKnows, Freeing, Janitoring
        <5>2. Adjacent(jn[t].right, prev[jn[t].right])
          BY <2>1, <4>1, <5>1, ListParts, PrevAdjacent
        <5>3. prev[jn[t].right] = jn[t].cur /\ jn[t].cur \in Nodes
          BY <4>1, <1>k DEF JanitorKnows, Freeing, Ptrs
        <5>4. ~Before(jn[t].cur, x)
          BY <2>3, <5>2, <5>3 DEF Adjacent
        <5> QED BY <4>1, <5>4 DEF HasLocked
      <4>2. CASE pc[t] \in {"jan_del", "jan_free"} /\ Gap(t)
        <5>1. Adjacent(jn[t].right, jn[t].del) /\ Before(jn[t].del, jn[t].cur) /\ jn[t].del \in Nodes /\ jn[t].cur \in Nodes
          BY <4>2, <1>k DEF Gap, JanitorKnows, Freeing, Ptrs
        <5>2. ~Before(jn[t].cur, x)
          BY <2>3, <5>1, <1>k DEF Adjacent, Before
        <5> QED BY <4>2, <5>2 DEF HasLocked
      <4>3. CASE pc[t] = "jan_clearprev"
        BY <4>3, <2>3, <1>k DEF JanitorKnows, JanitorOrdered, Adjacent
      <4>4. CASE pc[t] = "jan_unlink"
        BY <4>4, <2>3, <1>k DEF JanitorKnows, Adjacent, HasLocked
      <4>5. CASE pc[t] = "jan_carry"
        BY <4>5, <2>1, <2>3, <1>k DEF HasLocked, Before
      <4> QED BY <1>4, <4>1, <4>2, <4>3, <4>4, <4>5 DEF Freeing, Gap
    <3>2. Before(x, item[t])
      BY <2>1, <2>3, <1>k DEF Before
    <3>3. ~Before(y, item[t])
      BY <1>4, <1>r, <3>1, <3>2 DEF Redirected
    <3>4. ~Before(y, jn[t].right)
      BY <2>1, <3>3, <1>k, <1>1, <1>2 DEF Before
    <3> QED BY <2>0, <3>4 DEF Spares
  <2> QED BY <2>2, <2>3
<1> QED BY <1>1, <1>2, <1>3, <1>4 DEF SafeFrom

(* An advance under way is counted at the node that it follows.             *)
LEMMA FollowerCounted ==
  ASSUME SafeInv, NEW u \in Threads, NEW x \in Nodes, NEW y \in Nodes, Follows(u, x, y)
  PROVE  /\ Live(x) /\ adv[x] > 0 /\ Live(y) /\ Before(x, y)
         /\ \A t \in Threads : SafeFrom(t, x, y)
<1>1. Live(y) /\ Before(x, y) /\ \A t \in Threads : SafeFrom(t, x, y)
  BY SafeParts DEF Followed, SafeFrom
<1>2. Live(x) /\ (Walks(u, x) \/ Shares(u, x))
  <2>1. CASE pc[u] = "adv_weak" /\ x = item[u]
    <3>1. StrongOnStart(u) \/ WeakOnStart(u)
      BY <2>1, SafeParts, NodesTyped DEF StrongOnStart, WeakOnStart, TypeOK, AdvanceFrames
    <3>2. WeakOnItem(u) \/ item[u] = av[u].start
      BY <2>1 DEF WeakOnItem
    <3> QED BY <2>1, <3>1, <3>2, SafeParts DEF HeldLive, Walks
  <2>2. CASE pc[u] \in {"sg_strong", "sg_cas"} /\ x = Base(u)
    <3>1. op[u].f = "sharedGet" /\ pc[u] # "idle"
      BY <2>2, SafeParts DEF Shape
    <3> QED BY <2>2, <3>1, Borrowed DEF Shares
  <2> QED BY <2>1, <2>2 DEF Follows
<1>3. adv[x] = Cardinality(Announcers(x))
  BY <1>2, SafeParts DEF AdvanceExact
<1>4. IsFiniteSet(Announcers(x))
  <2>1. IsFiniteSet({<<"walk", w>> : w \in Threads}) /\ IsFiniteSet({<<"share", w>> : w \in Threads})
    BY TaggedSet, HeapAssumption
  <2>2. IsFiniteSet({<<"walk", w>> : w \in Threads} \cup {<<"share", w>> : w \in Threads})
    BY <2>1, FS_Union
  <2>3. Announcers(x) \in SUBSET ({<<"walk", w>> : w \in Threads} \cup {<<"share", w>> : w \in Threads})
    BY DEF Announcers
  <2> QED BY <2>2, <2>3, FS_Subset
<1>5. <<"walk", u>> \in Announcers(x) \/ <<"share", u>> \in Announcers(x)
  BY <1>2 DEF Announcers
<1>6. Cardinality(Announcers(x)) \in Nat /\ Cardinality(Announcers(x)) >= 1
  <2> DEFINE S == Announcers(x)
  <2> HIDE DEF S
  <2> QED BY <1>4, <1>5, SomeCounted DEF S
<1> QED BY <1>1, <1>2, <1>3, <1>6

(* What the janitor has promised an advance it keeps in its next step.      *)
LEMMA PromiseKept ==
  ASSUME SafeInv, NEW t \in Threads, JanitorStep(t), NEW x \in Nodes, NEW y \in Nodes,
         Live(x), Live(y), Before(x, y), adv[x] > 0, SafeFrom(t, x, y)
  PROVE  SafeFrom(t, x, y)'
<1>k. /\ TypeOK /\ jn[t] \in JanitorFrames /\ item[t] \in Nodes /\ Null \notin Nodes
      /\ prev \in [Nodes -> Ptrs] /\ stamp \in [Nodes -> Nat]
      /\ \A m, n \in Nodes : Live(m) /\ Live(n) => Before(m, n) \/ Before(n, m) \/ m = n
      /\ jn[t].cur \in Ptrs /\ jn[t].cand \in Ptrs /\ jn[t].prv \in Ptrs
      /\ jn[t].rdel \in Ptrs /\ jn[t].right \in Ptrs /\ jn[t].del \in Ptrs
      /\ JanitorKnows(t) /\ (pc[t] \in Janitoring => Live(item[t]))
      /\ pc[t] \in Janitoring => jn[t].ret \in {"dw_weak", "upd_done", "get_done"}
      /\ JanitorOrdered(pc[t], item[t], jn[t])
  BY ListParts, JanitorFacts, SafeParts, NodesTyped
<1>p. \A n \in Nodes : Live(n) /\ HasLocked(t, n) /\ ~(Gap(t) /\ jn[t].right = n) => Adjacent(n, prev[n])
  BY ListParts, PrevAdjacent
<1>l. \A n \in Nodes : Live(n) => stamp[n] > 0
  BY SafeParts DEF Listed, Published
<1> USE DEF Before, Redirecting, Freeing, Janitoring, Published
<1>q. pc'[t] \notin Redirecting \cup (Freeing \ {"jan_uncarry"}) => SafeFrom(t, x, y)'
  BY DEF SafeFrom
<1>1. CASE JanitorLockStart(t)
  <2>1. pc[t] = "jan_lock" /\ pc'[t] \in {jn[t].ret, "jan_unlock", "jan_sweep"}
    BY <1>1, <1>k, JanitorLockStartMoves
  <2> QED BY <2>1, <1>k, <1>q
<1>2. CASE JanitorSweep(t)
  <2>0. pc[t] = "jan_sweep"
    BY <1>2 DEF JanitorSweep, Janitor
  <2>1. jn[t].cur \in Nodes /\ jn[t].cand \in Nodes /\ Live(jn[t].cand) /\ prev[item[t]] = jn[t].cand
    BY <2>0, <1>k DEF JanitorKnows, Ptrs, JanitorOrdered, Older
  <2>2. /\ UNCHANGED <<stamp, item>>
        /\ pc'[t] \notin {"jan_clean", "jan_sweep"} => pc'[t] = "jan_strong" /\ jn'[t].cur = jn[t].cand /\ jn'[t].rdel = jn[t].rdel
    BY <1>2, <1>k, <2>1, JanitorSweepMoves
  <2>3. Adjacent(item[t], jn[t].cand)
    <3>1. HasLocked(t, item[t]) /\ ~Gap(t) /\ Live(item[t])
      BY <2>0, <1>k DEF HasLocked, Gap
    <3> QED BY <3>1, <2>1, <1>p, <1>k
  <2>4. ~Before(x, jn[t].cand) => ~Before(y, item[t])
    <3>1. Live(y) /\ Before(y, item[t]) => ~Before(jn[t].cand, y)
      BY <2>3 DEF Adjacent
    <3> QED BY <3>1, <1>k, <2>1
  <2>5. CASE pc'[t] = "jan_strong"
    BY <2>2, <2>4, <2>5 DEF SafeFrom, Spares
  <2> QED BY <2>2, <2>5, <1>q
<1>3. CASE JanitorCleanup(t)
  <2>1. pc'[t] \in {"jan_clean", "jan_unlock"}
    BY <1>3, <1>k, JanitorCleanupMoves
  <2> QED BY <2>1, <1>q
<1>4. CASE JanitorUnlockStart(t)
  <2>1. pc[t] = "jan_unlock" /\ pc'[t] = jn[t].ret
    BY <1>4, <1>k, JanitorUnlockStartMoves
  <2> QED BY <2>1, <1>k, <1>q
<1>5. CASE JanitorStrong(t)
  <2>0. pc[t] = "jan_strong"
    BY <1>5 DEF JanitorStrong, Janitor
  <2>1. CASE prev[jn[t].cur] # Null
    <3>1. pc'[t] = "jan_setnext" /\ jn'[t].cur = jn[t].cur /\ jn'[t].rdel = jn[t].rdel /\ UNCHANGED <<stamp, item>>
      BY <1>5, <2>1, <1>k, JanitorStrongMoves
    <3> QED BY <2>0, <3>1 DEF SafeFrom, Spares
  <2>2. CASE prev[jn[t].cur] = Null
    <3>1. pc'[t] = "jan_final" /\ jn'[t].right = item[t] /\ jn'[t].rdel = jn[t].rdel /\ UNCHANGED <<stamp, item>>
      BY <1>5, <2>2, <1>k, JanitorStrongMoves
    <3>2. jn[t].cur \in Nodes /\ Live(jn[t].cur) /\ HasLocked(t, jn[t].cur) /\ ~Gap(t)
      BY <2>0, <1>k DEF JanitorKnows, Ptrs, HasLocked, Gap, JanitorOrdered, Older
    <3>3. Adjacent(jn[t].cur, Null)
      BY <3>2, <2>2, <1>p
    <3>4. ~Before(x, jn[t].cur)
      BY <3>3 DEF Adjacent
    <3> QED BY <2>0, <3>1, <3>4 DEF SafeFrom, Spares
  <2> QED BY <2>1, <2>2
<1>6. CASE JanitorSetNext(t)
  <2>1. pc[t] = "jan_setnext" /\ pc'[t] = "jan_adv" /\ jn'[t].cur = jn[t].cur /\ jn'[t].rdel = jn[t].rdel /\ UNCHANGED <<stamp, item>>
    BY <1>6, <1>k, JanitorSetNextMoves
  <2> QED BY <2>1 DEF SafeFrom, Spares
<1>7. CASE JanitorCheckAdvance(t)
  <2>1. pc[t] = "jan_adv" /\ pc'[t] = "jan_strong" /\ jn'[t].cur = jn[t].prv /\ UNCHANGED <<stamp, item>>
        /\ jn'[t].rdel = (IF adv[jn[t].prv] > 0 THEN jn[t].cur ELSE jn[t].rdel)
    BY <1>7, <1>k, JanitorCheckAdvanceMoves
  <2>2. jn[t].cur \in Nodes /\ Live(jn[t].cur) /\ HasLocked(t, jn[t].cur) /\ ~Gap(t)
    BY <2>1, <1>k DEF JanitorKnows, Ptrs, HasLocked, Gap, JanitorOrdered, Older
  <2>3. jn[t].prv = prev[jn[t].cur] /\ jn[t].prv \in Nodes
    BY <2>1, <1>k DEF JanitorKnows, Ptrs
  <2>4. Adjacent(jn[t].cur, jn[t].prv)
    BY <2>2, <2>3, <1>p
  <2>5. SUFFICES ASSUME ~Before(x, jn[t].prv) PROVE Spares(t, y)'
    BY <2>1 DEF SafeFrom
  <2>6. CASE ~Before(x, jn[t].cur)
    <3>1. Spares(t, y)
      BY <2>1, <2>6 DEF SafeFrom
    <3>2. CASE adv[jn[t].prv] > 0
      <4>1. ~Before(y, jn[t].cur)
        BY <2>2, <2>6, <1>k
      <4> QED BY <2>1, <2>2, <3>2, <4>1, <1>k, <1>l DEF Spares
    <3>3. CASE ~(adv[jn[t].prv] > 0)
      BY <2>1, <3>1, <3>3 DEF Spares
    <3> QED BY <3>2, <3>3
  <2>7. CASE Before(x, jn[t].cur)
    <3>1. x = jn[t].prv
      BY <2>3, <2>4, <2>5, <2>7, <1>k DEF Adjacent
    <3>2. jn'[t].rdel = jn[t].cur
      BY <2>1, <3>1
    <3>3. ~Before(y, jn[t].cur)
      BY <3>1, <2>4, <1>k DEF Adjacent
    <3> QED BY <2>1, <2>2, <3>2, <3>3, <1>k, <1>l DEF Spares
  <2> QED BY <2>6, <2>7
<1>8. CASE JanitorFinal(t)
  <2>0. pc[t] = "jan_final" /\ Spares(t, y) /\ UNCHANGED <<stamp, item>>
    <3>1. pc[t] = "jan_final" /\ UNCHANGED <<stamp, item>>
      BY <1>8, <1>k, JanitorFinalMoves
    <3> QED BY <3>1 DEF SafeFrom
  <2>1. CASE jn[t].rdel = Null
    <3>1. pc'[t] = "jan_del" /\ jn'[t].right = jn[t].right /\ jn'[t].rdel = jn[t].rdel
      BY <1>8, <1>k, <2>1, JanitorFinalMoves
    <3> QED BY <2>0, <3>1 DEF SafeFrom, Spares
  <2>2. CASE jn[t].rdel # Null
    <3>1. pc'[t] = "jan_carry" /\ jn'[t].right = jn[t].cur /\ jn'[t].rdel = (IF jn[t].rdel = jn[t].cur THEN Null ELSE jn[t].rdel)
      BY <1>8, <1>k, <2>2, JanitorFinalMoves
    <3>2. jn[t].cur \in Nodes /\ jn[t].right \in Nodes /\ Before(jn[t].cur, jn[t].right)
      BY <2>0, <1>k DEF JanitorKnows, JanitorOrdered, Older, Ptrs
    <3>3. CASE ~Before(y, jn[t].right)
      <4>1. ~Before(y, jn[t].cur)
        BY <3>2, <3>3, <1>k
      <4> QED BY <2>0, <3>1, <4>1 DEF SafeFrom, Spares
    <3>4. CASE Published(jn[t].rdel) /\ ~Before(y, jn[t].rdel)
      BY <2>0, <2>2, <3>1, <3>4 DEF SafeFrom, Spares
    <3> QED BY <2>0, <3>3, <3>4 DEF Spares
  <2> QED BY <2>1, <2>2
<1>9. CASE JanitorDelete(t)
  <2>0. pc[t] = "jan_del" /\ Spares(t, y) /\ UNCHANGED <<stamp, item>> /\ jn'[t].rdel = jn[t].rdel
        /\ \/ pc'[t] \in {"jan_free", "jan_unlink"} /\ jn'[t].right = jn[t].right
           \/ pc'[t] = "jan_carry" /\ jn'[t].right = jn[t].del
    <3>1. pc[t] = "jan_del" /\ UNCHANGED <<stamp, item>> /\ jn'[t].rdel = jn[t].rdel
          /\ \/ pc'[t] \in {"jan_free", "jan_unlink"} /\ jn'[t].right = jn[t].right
             \/ pc'[t] = "jan_carry" /\ jn'[t].right = jn[t].del
      BY <1>9, <1>k, JanitorDeleteMoves
    <3> QED BY <3>1 DEF SafeFrom
  <2>1. jn[t].rdel = Null /\ ~Before(y, jn[t].right)
    BY <2>0, <1>k DEF JanitorKnows, Spares
  <2>2. jn[t].del \in Nodes /\ jn[t].right \in Nodes /\ Before(jn[t].del, jn[t].right)
    BY <2>0, <1>k DEF JanitorKnows, JanitorOrdered, Older, Ptrs
  <2>3. ~Before(y, jn[t].del)
    BY <2>1, <2>2, <1>k
  <2> QED BY <2>0, <2>1, <2>3 DEF SafeFrom, Spares
<1>10. CASE JanitorFree(t)
  <2>1. pc[t] = "jan_free" /\ pc'[t] \in {"jan_clearprev", "jan_del"} /\ UNCHANGED <<stamp, item>> /\ jn'[t].rdel = jn[t].rdel
        /\ jn'[t].right = jn[t].right
    BY <1>10, <1>k, JanitorFreeMoves
  <2> QED BY <2>1 DEF SafeFrom, Spares
<1>11. CASE JanitorClearPrev(t)
  <2>1. pc[t] = "jan_clearprev" /\ pc'[t] = "jan_unlink" /\ UNCHANGED <<stamp, item>> /\ jn'[t].rdel = jn[t].rdel
        /\ jn'[t].right = jn[t].right
    BY <1>11, <1>k, JanitorClearPrevMoves
  <2> QED BY <2>1 DEF SafeFrom, Spares
<1>12. CASE JanitorUnlink(t)
  <2>1. pc[t] = "jan_unlink" /\ UNCHANGED <<stamp, item>> /\ jn'[t].rdel = jn[t].rdel
        /\ \/ pc'[t] = "jan_uncarry"
           \/ pc'[t] = "jan_carry" /\ jn'[t].right = jn[t].del /\ jn[t].del # Null
    BY <1>12, <1>k, JanitorUnlinkMoves
  <2>2. jn[t].rdel = Null /\ ~Before(y, jn[t].right)
    BY <2>1, <1>k DEF JanitorKnows, Spares, SafeFrom
  <2>3. ASSUME jn[t].del # Null PROVE ~Before(y, jn[t].del)
    <3>1. jn[t].del \in Nodes /\ jn[t].right \in Nodes /\ Before(jn[t].del, jn[t].right)
      BY <2>1, <2>3, <1>k DEF JanitorKnows, JanitorOrdered, Older, Ptrs
    <3> QED BY <2>2, <3>1, <1>k
  <2> QED BY <2>1, <2>2, <2>3 DEF SafeFrom, Spares
<1>13. CASE JanitorCarry(t)
  <2>1. pc[t] = "jan_carry" /\ pc'[t] \in {"jan_uncarry", "jan_final"} /\ UNCHANGED <<stamp, item>> /\ jn'[t].rdel = jn[t].rdel
        /\ jn'[t].right = jn[t].right
    BY <1>13, <1>k, JanitorCarryMoves
  <2> QED BY <2>1 DEF SafeFrom, Spares
<1>14. CASE JanitorUncarry(t)
  <2>1. pc'[t] = "jan_unlock"
    BY <1>14, <1>k, JanitorUncarryMoves
  <2> QED BY <2>1, <1>q
<1> QED BY <1>1, <1>2, <1>3, <1>4, <1>5, <1>6, <1>7, <1>8, <1>9, <1>10, <1>11, <1>12, <1>13, <1>14 DEF JanitorStep

(* Who follows a link after a step followed it before, or has just read it. *)
LEMMA FollowsFrom ==
  ASSUME SafeInv, NEW t \in Threads, AnyStep(t), NEW u \in Threads, NEW x \in Nodes, NEW y \in Nodes, Follows(u, x, y)'
  PROVE  \/ Follows(u, x, y)
         \/ /\ u = t /\ Live(x) /\ HasNext(x) /\ y = next[x].ptr /\ HeapKept
            /\ pc[t] \in {"adv_reload", "sg_next"}
<1>k. TypeOK /\ OrderInv /\ (\A v \in Threads \ {t} : Still(v)) /\ BaseKept /\ Shape(u) /\ Shape(u)'
      /\ Knows(pc[t], item[t], av[t], pd[t], jn[t], op[t])
  BY SafeParts, NodesTyped, StepFacts DEF OrderInv, Local
<1>d. \A m \in Derefs(t) : m \in Nodes /\ Live(m)
  BY DerefsLive DEF NoUseAfterFree
<1>1. CASE u # t
  <2>1. Still(u)
    BY <1>1, <1>k
  <2>2. ASSUME pc[u] \in {"sg_strong", "sg_cas"} PROVE Base(u)' = Base(u)
    <3>1. op[u].f = "sharedGet" /\ pc[u] # "idle"
      BY <2>2, <1>k DEF Shape
    <3>2. handle'[op[u].hnd] = handle[op[u].hnd] /\ op'[u] = op[u]
      BY <2>1, <3>1, <1>k DEF BaseKept, Still
    <3> QED BY <3>2 DEF Base
  <2> QED BY <2>1, <2>2 DEF Follows, Still
<1>2. CASE u = t
  <2>c. Came(t)
    BY Arrivals
  <2>1. CASE pc'[t] = "adv_weak"
    <3>1. pc[t] = "adv_reload" /\ AdvanceReload(t)
      BY <2>1, <2>c, StepAt DEF Came
    <3>2. UNCHANGED item /\ UNCHANGED heap /\ UNCHANGED stamp /\ av' = [av EXCEPT ![t].nxt = next[item[t]].ptr] /\ UNCHANGED client
      BY <3>1 DEF AdvanceReload, ReadOnly, client
    <3>3. item'[t] = item[t] /\ av'[t].nxt = next[item[t]].ptr
      BY <3>2, <1>k DEF TypeOK, AdvanceFrames
    <3>4. HasNext(item[t]) /\ Live(item[t])
      BY <3>1, <1>k, <1>d DEF Knows, OnChain, Derefs
    <3> QED BY <1>2, <2>1, <3>1, <3>2, <3>3, <3>4 DEF Follows, HeapKept, AgesKept, client
  <2>2. CASE pc'[t] = "sg_strong"
    <3>1. pc[t] = "sg_next" /\ SharedGetNext(t)
      BY <2>2, <2>c, StepAt DEF Came
    <3>2. UNCHANGED heap /\ UNCHANGED <<stamp, handle>> /\ op' = [op EXCEPT ![t].nxt = next[Base(t)].ptr] /\ UNCHANGED client
      BY <3>1 DEF SharedGetNext, ReadOnly, client
    <3>3. op'[t].hnd = op[t].hnd /\ op'[t].nxt = next[Base(t)].ptr
      BY <3>2, <1>k DEF TypeOK, CallFrames
    <3>4. Base(t)' = Base(t)
      BY <3>2, <3>3 DEF Base
    <3>5. HasNext(Base(t)) /\ Live(Base(t))
      BY <3>1, <1>k, <1>d DEF Knows, HandleKept, Derefs, Base
    <3> QED BY <1>2, <2>2, <3>1, <3>2, <3>3, <3>4, <3>5 DEF Follows, HeapKept, AgesKept, client
  <2>3. CASE pc'[t] = "sg_cas"
    <3>1. pc[t] = "sg_strong" /\ SharedGetStrong(t)
      BY <2>3, <2>c, StepAt DEF Came
    <3>2. UNCHANGED handle /\ op' = [op EXCEPT ![t].cs = strong[op[t].nxt]]
      BY <3>1 DEF SharedGetStrong, ReadOnly, client
    <3>3. op'[t].hnd = op[t].hnd /\ op'[t].nxt = op[t].nxt
      BY <3>2, <1>k DEF TypeOK, CallFrames
    <3>4. Base(t)' = Base(t)
      BY <3>2, <3>3 DEF Base
    <3> QED BY <1>2, <2>3, <3>1, <3>3, <3>4 DEF Follows
  <2> QED BY <1>2, <2>1, <2>2, <2>3 DEF Follows
<1> QED BY <1>1, <1>2

(* A node that is followed, or has been read as next, survives the step.    *)
LEMMA FollowedStays ==
  ASSUME SafeInv, NEW t \in Threads, AnyStep(t), ~DropWeakFree(t), NEW x \in Nodes, NEW y \in Nodes, Live(y), SafeFrom(t, x, y)
  PROVE  StaysLive(y)
<1>1. CASE ~JanitorFree(t)
  BY <1>1, FreedBy DEF FreesNone, Live, StaysLive
<1>2. CASE JanitorFree(t)
  <2>1. pc[t] = "jan_free" /\ mem' = [mem EXCEPT ![jn[t].del] = "freed"]
    BY <1>2, SafeParts, NodesTyped, JanitorFreeMoves
  <2>2. jn[t].del \in Nodes /\ jn[t].right \in Nodes /\ Before(jn[t].del, jn[t].right) /\ jn[t].rdel = Null
    BY <2>1, OnlyLink
  <2>3. ~Before(y, jn[t].right)
    BY <2>1, <2>2 DEF SafeFrom, Freeing, Redirecting, Spares
  <2>4. y # jn[t].del
    BY <2>2, <2>3
  <2> QED BY <2>1, <2>4, SafeParts, NodesTyped DEF Live, StaysLive
<1> QED BY <1>1, <1>2

(* A step of one thread leaves what the janitors of the others promise.     *)
LEMMA PromiseStill ==
  ASSUME SafeInv, NEW t \in Threads, AnyStep(t), NEW u \in Threads, Still(u), NEW x \in Nodes, NEW y \in Nodes,
         Published(x), Published(y), SafeFrom(u, x, y)
  PROVE  SafeFrom(u, x, y)'
<1>k. /\ item[u] \in Nodes /\ stamp \in [Nodes -> Nat] /\ Null \notin Nodes
      /\ jn[u].cur \in Ptrs /\ jn[u].rdel \in Ptrs /\ jn[u].right \in Ptrs
      /\ JanitorKnows(u) /\ JanitorOrdered(pc[u], item[u], jn[u]) /\ Published(item[u])
  <2>1. Knows(pc[u], item[u], av[u], pd[u], jn[u], op[u])
    BY SafeParts DEF OrderInv, Local
  <2> QED BY <2>1, ListParts, JanitorFacts, SafeParts, NodesTyped DEF Knows, OnChain
<1>g. \A n \in Nodes : Published(n) => stamp'[n] = stamp[n]
  BY StepFacts DEF Grows
<1>l. \A n \in Nodes : Live(n) => Published(n)
  BY SafeParts DEF Listed
<1>1. pc'[u] = pc[u] /\ item'[u] = item[u] /\ jn'[u] = jn[u]
  BY DEF Still
<1>2. ASSUME pc[u] \in Redirecting PROVE SafeFrom(u, x, y)'
  <2>1. jn[u].cur \in Nodes /\ Published(jn[u].cur)
    BY <1>2, <1>k, <1>l DEF JanitorKnows, Ptrs, JanitorOrdered, Older, Redirecting
  <2>2. jn[u].rdel # Null => jn[u].rdel \in Nodes /\ Published(jn[u].rdel)
    BY <1>2, <1>k, <2>1 DEF JanitorKnows, Ptrs, Before, Published
  <2>3. pc[u] \notin Freeing
    BY <1>2 DEF Redirecting, Freeing
  <2>4. stamp'[x] = stamp[x] /\ stamp'[y] = stamp[y] /\ stamp'[jn[u].cur] = stamp[jn[u].cur] /\ stamp'[item[u]] = stamp[item[u]]
        /\ (jn[u].rdel # Null => stamp'[jn[u].rdel] = stamp[jn[u].rdel])
    BY <1>g, <1>k, <2>1, <2>2
  <2> QED BY <1>1, <1>2, <2>2, <2>3, <2>4 DEF SafeFrom, Spares, Before, Published
<1>3. ASSUME pc[u] \in Freeing \ {"jan_uncarry"} PROVE SafeFrom(u, x, y)'
  <2>1. jn[u].right \in Nodes /\ Published(jn[u].right)
    BY <1>3, <1>k DEF JanitorOrdered, Freeing, Ptrs
  <2>2. pc[u] \notin Redirecting
    BY <1>3 DEF Redirecting, Freeing
  <2>4. stamp'[x] = stamp[x] /\ stamp'[y] = stamp[y] /\ stamp'[jn[u].right] = stamp[jn[u].right]
    BY <1>g, <1>k, <2>1
  <2>5. jn[u].rdel # Null /\ Published(jn[u].rdel) => stamp'[jn[u].rdel] = stamp[jn[u].rdel]
    BY <1>g, <1>k DEF Ptrs
  <2> QED BY <1>1, <1>3, <2>2, <2>4, <2>5 DEF SafeFrom, Spares, Before, Published
<1> QED BY <1>1, <1>2, <1>3 DEF SafeFrom

(* A thread that is not in the janitor promises nothing.                    *)
LEMMA NoPromise ==
  ASSUME SafeInv, NEW t \in Threads, AnyStep(t), ~JanitorStep(t), NEW x, NEW y
  PROVE  SafeFrom(t, x, y)'
<1>1. pc[t] \in Janitoring => JanitorStep(t)
  BY StepAt DEF Janitoring, JanitorStep
<1>2. pc'[t] \notin Janitoring \ {"jan_lock"}
  BY <1>1, Arrivals DEF Came
<1> QED BY <1>2 DEF SafeFrom, Redirecting, Freeing, Janitoring

(* Every step keeps the ways from what a call read to what it will use.    *)
LEMMA FollowKept ==
  ASSUME SafeInv, NEW t \in Threads, AnyStep(t)
  PROVE  Followed'
<1>0. CASE DropWeakFree(t)
  <2>1. SafeInv'
    BY <1>0, LastFree
  <2> QED BY <2>1 DEF SafeInv
<1>1. CASE ~DropWeakFree(t)
  <2>1. RedirectsHold'
    BY ListKept
  <2>2. ASSUME NEW u \in Threads, NEW x \in Nodes, NEW y \in Nodes, Follows(u, x, y)'
        PROVE  Live(y)' /\ Before(x, y)' /\ \A w \in Threads : SafeFrom(w, x, y)'
    <3>1. /\ Live(x) /\ Live(y) /\ Before(x, y) /\ \A w \in Threads : SafeFrom(w, x, y)
          /\ \A w \in Threads : JanitorStep(w) /\ w = t => adv[x] > 0
      <4>1. CASE Follows(u, x, y)
        BY <4>1, FollowerCounted
      <4>2. CASE u = t /\ Live(x) /\ HasNext(x) /\ y = next[x].ptr /\ pc[t] \in {"adv_reload", "sg_next"}
        <5>1. ~JanitorStep(t)
          <6>1. AdvanceReload(t) \/ SharedGetNext(t)
            BY <4>2, StepAt
          <6>2. JanitorStep(t) => pc[t] \in Janitoring
            BY SafeParts, NodesTyped, JanitorStays
          <6> QED BY <4>2, <6>2 DEF Janitoring
        <5> QED BY <4>2, <5>1, NextSpared
      <4> QED BY <2>2, <4>1, <4>2, FollowsFrom
    <3>2. StaysLive(y)
      BY <1>1, <3>1, FollowedStays
    <3>3. Published(x) /\ Published(y)
      BY <3>1, SafeParts DEF Listed
    <3>4. Before(x, y)'
      <4>1. stamp'[x] = stamp[x] /\ stamp'[y] = stamp[y]
        BY <3>3, StepFacts DEF Grows
      <4> QED BY <3>1, <4>1 DEF Before
    <3>5. ASSUME NEW w \in Threads PROVE SafeFrom(w, x, y)'
      <4>1. CASE w # t
        <5>1. Still(w)
          BY <4>1, StepFacts
        <5> QED BY <3>1, <3>3, <5>1, PromiseStill
      <4>2. CASE w = t /\ JanitorStep(t)
        BY <3>1, <4>2, PromiseKept
      <4>3. CASE w = t /\ ~JanitorStep(t)
        BY <4>3, NoPromise
      <4> QED BY <4>1, <4>2, <4>3
    <3> QED BY <3>2, <3>4, <3>5 DEF StaysLive, Live
  <2> QED BY <2>1, <2>2 DEF Followed, RedirectsHold, SafeFrom
<1> QED BY <1>0, <1>1

-----------------------------------------------------------------------------
(* Strong references spread to the right only: a call that gets one has    *)
(* one on the same node or on an older one before, or it has upgraded an   *)
(* ArcShiftWeak to the newest node, or has linked a new node itself.       *)

HandleOn(n) == \E h \in Handles : handle[h].kind = "strong" /\ handle[h].node = n

\* where a reference that t keeps may come from
Gained(t, n) ==
  \/ Keeps(t, n) \/ HandleOn(n)
  \/ Tries(t, n) /\ ~HasNext(n)
  \/ pc[t] \in {"advs_cas", "upg_cas"} /\ n = item[t] /\ ~HasNext(n)
  \/ UpdateCas(t) /\ CanLink(item[t], op[t].nw) /\ n = op[t].val

Traced(t, n) ==
  /\ Keeps(t, n)' => Gained(t, n)
  /\ Tries(t, n)' => Tries(t, n) \/ (pc[t] = "sg_cas" /\ n = op[t].nxt)

(* A step of an advance has a strong reference to a node only if it had    *)
(* one, got it from a link it followed, or made the node.                  *)
LEMMA AdvanceTraced ==
  ASSUME OrderInv, NEW t \in Threads, NEW n \in Nodes, Shape(t), AdvanceStep(t)
  PROVE  Traced(t, n)
<1>k. TypeOK /\ Knows(pc[t], item[t], av[t], pd[t], jn[t], op[t])
  BY RegistersTyped DEF OrderInv
<1>r. /\ pc \in [Threads -> Labels] /\ item \in [Threads -> Nodes] /\ av \in [Threads -> AdvanceFrames]
      /\ pd \in [Threads -> PayloadFrames] /\ jn \in [Threads -> JanitorFrames]
      /\ dr \in [Threads -> DropFrames] /\ op \in [Threads -> CallFrames]
      /\ strong \in [Nodes -> 0..UsizeMax] /\ UsizeMax \in Nat /\ weak \in [Nodes -> WeakWords]
      /\ mem \in [Nodes -> {"unused", "private", "live", "freed"}] /\ prev \in [Nodes -> Ptrs]
      /\ stamp \in [Nodes -> Nat] /\ next \in [Nodes -> NextWords] /\ adv \in [Nodes -> Int]
      /\ handle \in [Handles -> HandleStates]
  BY HeapAssumption DEF OrderInv, TypeOK
<1>s. Shape(t)
  OBVIOUS
<1>1. CASE AdvanceLoad(t)
  BY <1>k, <1>r, <1>s, <1>1, SMTT(30) DEF AdvanceLoad, Goto, ReturnAdvance, ReadOnly,
     IdleAdvance, AdvanceFrames, Traced, Gained, Keeps, Tries, HandleOn, StrongOnStart,
     StrongOnItem, StrongOnNew, At, HoldsValue, Undoing, Janitoring, HasNext, Shape, Continues,
     Dying, Upgrading, Updating, locals, client, heap
<1>2. CASE AdvanceInc(t)
  BY <1>k, <1>r, <1>s, <1>2, SMTT(30) DEF AdvanceInc, Goto, OnlyAdv, Traced, Gained, Keeps,
     Tries, HandleOn, StrongOnStart, StrongOnItem, StrongOnNew, At, HoldsValue, Undoing,
     Janitoring, HasNext, Shape, Continues, Dying, Upgrading, Updating, locals, client, heap
<1>3. CASE AdvanceReload(t)
  BY <1>k, <1>r, <1>s, <1>3, SMTT(30) DEF AdvanceReload, Goto, ReadOnly, Traced, Gained, Keeps,
     Tries, HandleOn, StrongOnStart, StrongOnItem, StrongOnNew, At, HoldsValue, Undoing,
     Janitoring, HasNext, Shape, Continues, Dying, Upgrading, Updating, locals, client, heap
<1>4. CASE AdvanceWeakInc(t)
  BY <1>k, <1>r, <1>s, <1>4, SMTT(30) DEF AdvanceWeakInc, AddWeak, Goto, OnlyWeak, Traced,
     Gained, Keeps, Tries, HandleOn, StrongOnStart, StrongOnItem, StrongOnNew, At, HoldsValue,
     Undoing, Janitoring, HasNext, Shape, Continues, Dying, Upgrading, Updating, locals, client,
     heap
<1>5. CASE AdvanceDec(t)
  BY <1>k, <1>r, <1>s, <1>5, SMTT(30) DEF AdvanceDec, Goto, OnlyAdv, Traced, Gained, Keeps,
     Tries, HandleOn, StrongOnStart, StrongOnItem, StrongOnNew, At, HoldsValue, Undoing,
     Janitoring, HasNext, Shape, Continues, Dying, Upgrading, Updating, locals, client, heap
<1>6. CASE AdvanceWeakDec(t)
  BY <1>k, <1>r, <1>s, <1>6, SMTT(30) DEF AdvanceWeakDec, SubWeak, Goto, OnlyWeak, Traced,
     Gained, Keeps, Tries, HandleOn, StrongOnStart, StrongOnItem, StrongOnNew, At, HoldsValue,
     Undoing, Janitoring, HasNext, Shape, Continues, Dying, Upgrading, Updating, locals, client,
     heap
<1>7. CASE WeakLeaveStart(t)
  BY <1>k, <1>r, <1>s, <1>7, SMTT(30) DEF WeakLeaveStart, SubWeak, ReturnAdvance, OnlyWeak,
     Goto, IdleAdvance, AdvanceFrames, Traced, Gained, Keeps, Tries, HandleOn, StrongOnStart,
     StrongOnItem, StrongOnNew, At, HoldsValue, Undoing, Janitoring, HasNext, Shape, Continues,
     Dying, Upgrading, Updating, locals, client, heap
<1>8. CASE PayloadMark(t)
  <2>1. CASE pd[t].ret = "advs_a_decw"
    BY <1>k, <1>r, <1>s, <1>8, <2>1, SMTT(30) DEF PayloadMark, Goto, OnlyNext, IdlePayload,
     Traced, Gained, Keeps, Tries, HandleOn, StrongOnStart, StrongOnItem, StrongOnNew, At,
     HoldsValue, Undoing, Janitoring, HasNext, Shape, Continues, Dying, Upgrading, Updating,
     locals, client, heap
  <2>2. CASE pd[t].ret = "dw_cas"
    BY <1>k, <1>r, <1>s, <1>8, <2>2, SMTT(30) DEF PayloadMark, Goto, OnlyNext, IdlePayload,
     Traced, Gained, Keeps, Tries, HandleOn, StrongOnStart, StrongOnItem, StrongOnNew, At,
     HoldsValue, Undoing, Janitoring, HasNext, Shape, Continues, Dying, Upgrading, Updating,
     locals, client, heap
  <2>3. CASE pd[t].ret = "upd_decw"
    BY <1>k, <1>r, <1>s, <1>8, <2>3, SMTT(30) DEF PayloadMark, Goto, OnlyNext, IdlePayload,
     Traced, Gained, Keeps, Tries, HandleOn, StrongOnStart, StrongOnItem, StrongOnNew, At,
     HoldsValue, Undoing, Janitoring, HasNext, Shape, Continues, Dying, Upgrading, Updating,
     locals, client, heap
  <2>r. pd[t].ret \in {"advs_a_decw", "dw_cas", "upd_decw"}
    BY <1>r, <1>s, <1>8 DEF
     PayloadFrames, Shape, PayloadMark
  <2> QED BY <2>1, <2>2, <2>3, <2>r
<1>9. CASE PayloadDrop(t)
  <2>1. CASE pd[t].ret = "advs_a_decw"
    BY <1>k, <1>r, <1>s, <1>9, <2>1, SMTT(30) DEF PayloadDrop, DropPayload, Goto, IdlePayload,
     Traced, Gained, Keeps, Tries, HandleOn, StrongOnStart, StrongOnItem, StrongOnNew, At,
     HoldsValue, Undoing, Janitoring, HasNext, Shape, Continues, Dying, Upgrading, Updating,
     locals, client, heap
  <2>2. CASE pd[t].ret = "dw_cas"
    BY <1>k, <1>r, <1>s, <1>9, <2>2, SMTT(30) DEF PayloadDrop, DropPayload, Goto, IdlePayload,
     Traced, Gained, Keeps, Tries, HandleOn, StrongOnStart, StrongOnItem, StrongOnNew, At,
     HoldsValue, Undoing, Janitoring, HasNext, Shape, Continues, Dying, Upgrading, Updating,
     locals, client, heap
  <2>3. CASE pd[t].ret = "upd_decw"
    BY <1>k, <1>r, <1>s, <1>9, <2>3, SMTT(30) DEF PayloadDrop, DropPayload, Goto, IdlePayload,
     Traced, Gained, Keeps, Tries, HandleOn, StrongOnStart, StrongOnItem, StrongOnNew, At,
     HoldsValue, Undoing, Janitoring, HasNext, Shape, Continues, Dying, Upgrading, Updating,
     locals, client, heap
  <2>r. pd[t].ret \in {"advs_a_decw", "dw_cas", "upd_decw"}
    BY <1>r, <1>s, <1>9 DEF
     PayloadFrames, Shape, PayloadDrop
  <2> QED BY <2>1, <2>2, <2>3, <2>r
<1>10. CASE StrongLoad(t)
  BY <1>k, <1>r, <1>s, <1>10, SMTT(30) DEF StrongLoad, TryStrong, ReadOnly, Goto, IdleAdvance,
     AdvanceFrames, Traced, Gained, Keeps, Tries, HandleOn, StrongOnStart, StrongOnItem,
     StrongOnNew, At, HoldsValue, Undoing, Janitoring, HasNext, Shape, Continues, Dying,
     Upgrading, Updating, locals, client, heap
<1>11. CASE StrongIncWeak(t)
  BY <1>k, <1>r, <1>s, <1>11, SMTT(30) DEF StrongIncWeak, AddWeak, Goto, OnlyWeak, Traced,
     Gained, Keeps, Tries, HandleOn, StrongOnStart, StrongOnItem, StrongOnNew, At, HoldsValue,
     Undoing, Janitoring, HasNext, Shape, Continues, Dying, Upgrading, Updating, locals, client,
     heap
<1>12. CASE StrongCas(t)
  <2>1. CASE strong[item[t]] = av[t].cs
    BY <1>k, <1>r, <1>s, <1>12, <2>1, SMTT(30) DEF StrongCas, AddStrong, Goto, TryStrong,
     OnlyStrong, IdleAdvance, AdvanceFrames, Traced, Gained, Keeps, Tries, HandleOn,
     StrongOnStart, StrongOnItem, StrongOnNew, At, HoldsValue, Undoing, Janitoring, HasNext,
     Shape, Continues, Dying, Upgrading, Updating, locals, client, heap
  <2>2. CASE strong[item[t]] # av[t].cs /\ av[t].cs = 0
    BY <1>k, <1>r, <1>s, <1>12, <2>2, SMTT(30) DEF StrongCas, AddStrong, Goto, TryStrong,
     OnlyStrong, IdleAdvance, AdvanceFrames, Traced, Gained, Keeps, Tries, HandleOn,
     StrongOnStart, StrongOnItem, StrongOnNew, At, HoldsValue, Undoing, Janitoring, HasNext,
     Shape, Continues, Dying, Upgrading, Updating, locals, client, heap
  <2>3. CASE strong[item[t]] # av[t].cs /\ av[t].cs # 0
    BY <1>k, <1>r, <1>s, <1>12, <2>3, SMTT(30) DEF StrongCas, AddStrong, Goto, TryStrong,
     OnlyStrong, IdleAdvance, AdvanceFrames, Traced, Gained, Keeps, Tries, HandleOn,
     StrongOnStart, StrongOnItem, StrongOnNew, At, HoldsValue, Undoing, Janitoring, HasNext,
     Shape, Continues, Dying, Upgrading, Updating, locals, client, heap
  <2> QED BY <2>1, <2>2, <2>3
<1>13. CASE StrongRaceDecWeak(t)
  BY <1>k, <1>r, <1>s, <1>13, SMTT(30) DEF StrongRaceDecWeak, SubWeak, TryStrong, OnlyWeak,
     Goto, IdleAdvance, AdvanceFrames, Traced, Gained, Keeps, Tries, HandleOn, StrongOnStart,
     StrongOnItem, StrongOnNew, At, HoldsValue, Undoing, Janitoring, HasNext, Shape, Continues,
     Dying, Upgrading, Updating, locals, client, heap
<1>14. CASE StrongRecheck(t)
  BY <1>k, <1>r, <1>s, <1>14, SMTT(30) DEF StrongRecheck, Goto, ReadOnly, Traced, Gained, Keeps,
     Tries, HandleOn, StrongOnStart, StrongOnItem, StrongOnNew, At, HoldsValue, Undoing,
     Janitoring, HasNext, Shape, Continues, Dying, Upgrading, Updating, locals, client, heap
<1>15. CASE StrongUndo(t)
  <2>1. CASE LastStrong(item[t])
    BY <1>k, <1>r, <1>s, <1>15, <2>1, SMTT(30) DEF StrongUndo, SubStrong, Goto, RetryAdvance,
     OnlyStrong, IdleAdvance, AdvanceFrames, Traced, Gained, Keeps, Tries, HandleOn,
     StrongOnStart, StrongOnItem, StrongOnNew, At, HoldsValue, Undoing, Janitoring, HasNext,
     Shape, Continues, Dying, Upgrading, Updating, locals, client, heap
  <2>2. CASE ~LastStrong(item[t])
    BY <1>k, <1>r, <1>s, <1>15, <2>2, SMTT(30) DEF StrongUndo, SubStrong, Goto, RetryAdvance,
     OnlyStrong, IdleAdvance, AdvanceFrames, Traced, Gained, Keeps, Tries, HandleOn,
     StrongOnStart, StrongOnItem, StrongOnNew, At, HoldsValue, Undoing, Janitoring, HasNext,
     Shape, Continues, Dying, Upgrading, Updating, locals, client, heap
  <2> QED BY <2>1, <2>2
<1>16. CASE StrongUndoDecWeak(t)
  BY <1>k, <1>r, <1>s, <1>16, SMTT(30) DEF StrongUndoDecWeak, SubWeak, RetryAdvance, OnlyWeak,
     Goto, IdleAdvance, AdvanceFrames, Traced, Gained, Keeps, Tries, HandleOn, StrongOnStart,
     StrongOnItem, StrongOnNew, At, HoldsValue, Undoing, Janitoring, HasNext, Shape, Continues,
     Dying, Upgrading, Updating, locals, client, heap
<1>17. CASE StrongDecWeakB(t)
  BY <1>k, <1>r, <1>s, <1>17, SMTT(30) DEF StrongDecWeakB, SubWeak, Goto, OnlyWeak, Traced,
     Gained, Keeps, Tries, HandleOn, StrongOnStart, StrongOnItem, StrongOnNew, At, HoldsValue,
     Undoing, Janitoring, HasNext, Shape, Continues, Dying, Upgrading, Updating, locals, client,
     heap
<1>18. CASE StrongLeaveStart(t)
  <2>1. CASE LastStrong(av[t].start)
    BY <1>k, <1>r, <1>s, <1>18, <2>1, SMTT(30) DEF StrongLeaveStart, SubStrong,
     StartPayloadDrop, ReturnAdvance, OnlyStrong, Goto, IdleAdvance, AdvanceFrames, Traced,
     Gained, Keeps, Tries, HandleOn, StrongOnStart, StrongOnItem, StrongOnNew, At, HoldsValue,
     Undoing, Janitoring, HasNext, Shape, Continues, Dying, Upgrading, Updating, locals, client,
     heap
  <2>2. CASE ~LastStrong(av[t].start)
    <3>2. CASE av[t].ret = "jan_lock"
      BY <1>k, <1>r, <1>s, <1>18, <2>2, <3>2, SMTT(30) DEF StrongLeaveStart, SubStrong,
     StartPayloadDrop, ReturnAdvance, OnlyStrong, Goto, IdleAdvance, AdvanceFrames, Traced,
     Gained, Keeps, Tries, HandleOn, StrongOnStart, StrongOnItem, StrongOnNew, At, HoldsValue,
     Undoing, Janitoring, HasNext, Shape, Continues, Dying, Upgrading, Updating, locals, client,
     heap
    <3>3. CASE av[t].ret = "ds_dec"
      BY <1>k, <1>r, <1>s, <1>18, <2>2, <3>3, SMTT(30) DEF StrongLeaveStart, SubStrong,
     StartPayloadDrop, ReturnAdvance, OnlyStrong, Goto, IdleAdvance, AdvanceFrames, Traced,
     Gained, Keeps, Tries, HandleOn, StrongOnStart, StrongOnItem, StrongOnNew, At, HoldsValue,
     Undoing, Janitoring, HasNext, Shape, Continues, Dying, Upgrading, Updating, locals, client,
     heap
    <3>4. CASE av[t].ret = "upd_next"
      BY <1>k, <1>r, <1>s, <1>18, <2>2, <3>4, SMTT(30) DEF StrongLeaveStart, SubStrong,
     StartPayloadDrop, ReturnAdvance, OnlyStrong, Goto, IdleAdvance, AdvanceFrames, Traced,
     Gained, Keeps, Tries, HandleOn, StrongOnStart, StrongOnItem, StrongOnNew, At, HoldsValue,
     Undoing, Janitoring, HasNext, Shape, Continues, Dying, Upgrading, Updating, locals, client,
     heap
    <3>5. CASE av[t].ret = "reading"
      BY <1>k, <1>r, <1>s, <1>18, <2>2, <3>5, SMTT(30) DEF StrongLeaveStart, SubStrong,
     StartPayloadDrop, ReturnAdvance, OnlyStrong, Goto, IdleAdvance, AdvanceFrames, Traced,
     Gained, Keeps, Tries, HandleOn, StrongOnStart, StrongOnItem, StrongOnNew, At, HoldsValue,
     Undoing, Janitoring, HasNext, Shape, Continues, Dying, Upgrading, Updating, locals, client,
     heap
    <3>6. CASE av[t].ret = "ret"
      BY <1>k, <1>r, <1>s, <1>18, <2>2, <3>6, SMTT(30) DEF StrongLeaveStart, SubStrong,
     StartPayloadDrop, ReturnAdvance, OnlyStrong, Goto, IdleAdvance, AdvanceFrames, Traced,
     Gained, Keeps, Tries, HandleOn, StrongOnStart, StrongOnItem, StrongOnNew, At, HoldsValue,
     Undoing, Janitoring, HasNext, Shape, Continues, Dying, Upgrading, Updating, locals, client,
     heap
    <3>r. av[t].ret = "jan_lock" \/ av[t].ret = "ds_dec" \/ av[t].ret = "upd_next" \/ av[t].ret = "reading" \/ av[t].ret = "ret"
      BY <1>s, <1>18, <2>2 DEF Shape, Continues, StrongLeaveStart
    <3> QED BY <3>2, <3>3, <3>4, <3>5, <3>6, <3>r
  <2> QED BY <2>1, <2>2
<1>19. CASE StrongDecWeakA(t)
  BY <1>k, <1>r, <1>s, <1>19, SMTT(30) DEF StrongDecWeakA, SubWeak, ReturnAdvance, OnlyWeak,
     Goto, IdleAdvance, AdvanceFrames, Traced, Gained, Keeps, Tries, HandleOn, StrongOnStart,
     StrongOnItem, StrongOnNew, At, HoldsValue, Undoing, Janitoring, HasNext, Shape, Continues,
     Dying, Upgrading, Updating, locals, client, heap
<1> QED BY <1>1, <1>2, <1>3, <1>4, <1>5, <1>6, <1>7, <1>8, <1>9, <1>10, <1>11, <1>12, <1>13,
  <1>14, <1>15, <1>16, <1>17, <1>18, <1>19 DEF AdvanceStep

(* A step of the drop of a reference has a strong reference to a node only *)
(* if it had one, got it from a link it followed, or made the node.        *)
LEMMA DropTraced ==
  ASSUME OrderInv, NEW t \in Threads, NEW n \in Nodes, Shape(t), DropStep(t),
         ~DropWeakFree(t)
  PROVE  Traced(t, n)
<1>k. TypeOK /\ Knows(pc[t], item[t], av[t], pd[t], jn[t], op[t])
  BY RegistersTyped DEF OrderInv
<1>r. /\ pc \in [Threads -> Labels] /\ item \in [Threads -> Nodes] /\ av \in [Threads -> AdvanceFrames]
      /\ pd \in [Threads -> PayloadFrames] /\ jn \in [Threads -> JanitorFrames]
      /\ dr \in [Threads -> DropFrames] /\ op \in [Threads -> CallFrames]
      /\ strong \in [Nodes -> 0..UsizeMax] /\ UsizeMax \in Nat /\ weak \in [Nodes -> WeakWords]
      /\ mem \in [Nodes -> {"unused", "private", "live", "freed"}] /\ prev \in [Nodes -> Ptrs]
      /\ stamp \in [Nodes -> Nat] /\ next \in [Nodes -> NextWords] /\ adv \in [Nodes -> Int]
      /\ handle \in [Handles -> HandleStates]
  BY HeapAssumption DEF OrderInv, TypeOK
<1>s. Shape(t)
  OBVIOUS
<1>1. CASE DropStrongDec(t)
  <2>1. CASE LastStrong(item[t])
    <3>1. /\ pc[t] = "ds_dec"
          /\ SubStrong(item[t])
          /\ OnlyStrong
          /\ UNCHANGED <<pd, op>>
          /\ Starts(t, item[t], "weak", "jan_lock")
          /\ jn'[t] = [IdleJanitor EXCEPT !.ret = "dw_weak"]
          /\ dr'[t] = [IdleDrop EXCEPT !.ret = dr[t].ret]
      BY <1>k, <1>1, <2>1, DropStrongDecEffect
    <3> QED BY <1>k, <1>r, <1>s, <2>1, <3>1, SMTT(30) DEF Starts, SubStrong, OnlyStrong,
     IdleJanitor, IdleDrop, Traced, Gained, Keeps, Tries, HandleOn, StrongOnStart, StrongOnItem,
     StrongOnNew, At, HoldsValue, Undoing, Janitoring, HasNext, Shape, Continues, Dying,
     Upgrading, Updating, locals, client, heap
  <2>2. CASE ~LastStrong(item[t])
    <3>1. /\ pc[t] = "ds_dec"
          /\ SubStrong(item[t])
          /\ OnlyStrong
          /\ UNCHANGED <<pd, op>>
          /\ pc'[t] = dr[t].ret
          /\ dr'[t] = IdleDrop
          /\ jn'[t] = IdleJanitor
          /\ UNCHANGED <<item, av>>
      BY <1>k, <1>1, <2>2, DropStrongDecEffect
    <3>3. CASE dr[t].ret = "ret"
      BY <1>k, <1>r, <1>s, <2>2, <3>1, <3>3, SMTT(30) DEF Starts, SubStrong, OnlyStrong,
     IdleDrop, IdleJanitor, Traced, Gained, Keeps, Tries, HandleOn, StrongOnStart, StrongOnItem,
     StrongOnNew, At, HoldsValue, Undoing, Janitoring, HasNext, Shape, Continues, Dying,
     Upgrading, Updating, locals, client, heap
    <3>4. CASE dr[t].ret = "sg_dec"
      BY <1>k, <1>r, <1>s, <2>2, <3>1, <3>4, SMTT(30) DEF Starts, SubStrong, OnlyStrong,
     IdleDrop, IdleJanitor, Traced, Gained, Keeps, Tries, HandleOn, StrongOnStart, StrongOnItem,
     StrongOnNew, At, HoldsValue, Undoing, Janitoring, HasNext, Shape, Continues, Dying,
     Upgrading, Updating, locals, client, heap
    <3>9. dr[t].ret = "ret" \/ dr[t].ret = "sg_dec"
      BY <1>k, <1>r, <1>s, <3>1, <2>2 DEF DropFrames, Shape, Dying, CallFrames, Continues,
     Janitoring
    <3> QED BY <3>3, <3>4, <3>9
  <2> QED BY <2>1, <2>2
<1>2. CASE DropWeakLoad(t)
  <2>1. CASE jn[t].rerun
    <3>1. /\ pc[t] = "dw_weak"
          /\ ReadOnly
          /\ UNCHANGED <<pd, op>>
          /\ Starts(t, item[t], "weak", "jan_lock")
          /\ jn'[t] = [IdleJanitor EXCEPT !.ret = "dw_weak"]
          /\ UNCHANGED dr
      BY <1>k, <1>2, <2>1, DropWeakLoadEffect
    <3> QED BY <1>k, <1>r, <1>s, <2>1, <3>1, SMTT(30) DEF Starts, ReadOnly, IdleJanitor, Traced,
     Gained, Keeps, Tries, HandleOn, StrongOnStart, StrongOnItem, StrongOnNew, At, HoldsValue,
     Undoing, Janitoring, HasNext, Shape, Continues, Dying, Upgrading, Updating, locals, client,
     heap
  <2>2. CASE ~jn[t].rerun
    <3>1. /\ pc[t] = "dw_weak"
          /\ ReadOnly
          /\ UNCHANGED <<pd, op>>
          /\ pc'[t] = "dw_next"
          /\ dr'[t] = [dr[t] EXCEPT !.ww = weak[item[t]]]
          /\ UNCHANGED <<item, av, jn>>
      BY <1>k, <1>2, <2>2, DropWeakLoadEffect
    <3> QED BY <1>k, <1>r, <1>s, <2>2, <3>1, SMTT(30) DEF Starts, ReadOnly, Traced, Gained,
     Keeps, Tries, HandleOn, StrongOnStart, StrongOnItem, StrongOnNew, At, HoldsValue, Undoing,
     Janitoring, HasNext, Shape, Continues, Dying, Upgrading, Updating, locals, client, heap
  <2> QED BY <2>1, <2>2
<1>3. CASE DropWeakNext(t)
  <2>1. CASE HasNext(item[t])
    <3>1. /\ pc[t] = "dw_next"
          /\ ReadOnly
          /\ UNCHANGED <<pd, op>>
          /\ Starts(t, item[t], "weak", "jan_lock")
          /\ jn'[t] = [IdleJanitor EXCEPT !.ret = "dw_weak"]
          /\ dr'[t] = [IdleDrop EXCEPT !.ret = dr[t].ret]
      BY <1>k, <1>3, <2>1, DropWeakNextEffect
    <3> QED BY <1>k, <1>r, <1>s, <2>1, <3>1, SMTT(30) DEF Starts, ReadOnly, IdleJanitor,
     IdleDrop, Traced, Gained, Keeps, Tries, HandleOn, StrongOnStart, StrongOnItem, StrongOnNew,
     At, HoldsValue, Undoing, Janitoring, HasNext, Shape, Continues, Dying, Upgrading, Updating,
     locals, client, heap
  <2>2. CASE ~HasNext(item[t])
    <3>1. /\ pc[t] = "dw_next"
          /\ ReadOnly
          /\ UNCHANGED <<pd, op>>
          /\ pc'[t] = IF jn[t].status = "NoStrongRefsExist" THEN "dw_claim" ELSE "dw_cas"
          /\ UNCHANGED <<item, av, jn, dr>>
      BY <1>k, <1>3, <2>2, DropWeakNextEffect
    <3> QED BY <1>k, <1>r, <1>s, <2>2, <3>1, SMTT(30) DEF Starts, ReadOnly, Traced, Gained,
     Keeps, Tries, HandleOn, StrongOnStart, StrongOnItem, StrongOnNew, At, HoldsValue, Undoing,
     Janitoring, HasNext, Shape, Continues, Dying, Upgrading, Updating, locals, client, heap
  <2> QED BY <2>1, <2>2
<1>4. CASE ClaimTeardown(t)
  BY <1>k, <1>r, <1>s, <1>4, SMTT(30) DEF ClaimTeardown, StartPayloadDrop, Goto, OnlyStrong,
     Traced, Gained, Keeps, Tries, HandleOn, StrongOnStart, StrongOnItem, StrongOnNew, At,
     HoldsValue, Undoing, Janitoring, HasNext, Shape, Continues, Dying, Upgrading, Updating,
     locals, client, heap
<1>5. CASE DropWeakCas(t)
  <2>1. CASE ~SameWeakWord(item[t], dr[t].ww)
    <3>1. /\ pc[t] = "dw_cas"
          /\ OnlyWeak
          /\ UNCHANGED <<pd, op>>
          /\ Starts(t, item[t], "weak", "jan_lock")
          /\ jn'[t] = [IdleJanitor EXCEPT !.ret = "dw_weak"]
          /\ dr'[t] = [IdleDrop EXCEPT !.ret = dr[t].ret]
          /\ UNCHANGED weak
      BY <1>k, <1>5, <2>1, DropWeakCasEffect
    <3> QED BY <1>k, <1>r, <1>s, <2>1, <3>1, SMTT(30) DEF Starts, OnlyWeak, IdleJanitor,
     IdleDrop, Traced, Gained, Keeps, Tries, HandleOn, StrongOnStart, StrongOnItem, StrongOnNew,
     At, HoldsValue, Undoing, Janitoring, HasNext, Shape, Continues, Dying, Upgrading, Updating,
     locals, client, heap
  <2>2. CASE SameWeakWord(item[t], dr[t].ww) /\ SoleUser(dr[t].ww)
    <3>1. /\ pc[t] = "dw_cas"
          /\ OnlyWeak
          /\ UNCHANGED <<pd, op>>
          /\ SubWeak(item[t])
          /\ pc'[t] = "dw_free"
          /\ UNCHANGED <<item, av, jn, dr>>
      BY <1>k, <1>5, <2>2, DropWeakCasEffect
    <3> QED BY <1>k, <1>r, <1>s, <2>2, <3>1, SMTT(30) DEF Starts, OnlyWeak, SubWeak, Traced,
     Gained, Keeps, Tries, HandleOn, StrongOnStart, StrongOnItem, StrongOnNew, At, HoldsValue,
     Undoing, Janitoring, HasNext, Shape, Continues, Dying, Upgrading, Updating, locals, client,
     heap
  <2>3. CASE SameWeakWord(item[t], dr[t].ww) /\ ~SoleUser(dr[t].ww)
    <3>1. /\ pc[t] = "dw_cas"
          /\ OnlyWeak
          /\ UNCHANGED <<pd, op>>
          /\ SubWeak(item[t])
          /\ pc'[t] = dr[t].ret
          /\ dr'[t] = IdleDrop
          /\ jn'[t] = IdleJanitor
          /\ UNCHANGED <<item, av>>
      BY <1>k, <1>5, <2>3, DropWeakCasEffect
    <3>3. CASE dr[t].ret = "ret"
      BY <1>k, <1>r, <1>s, <2>3, <3>1, <3>3, SMTT(30) DEF Starts, OnlyWeak, SubWeak, IdleDrop,
     IdleJanitor, DropShape, Traced, Gained, Keeps, Tries, HandleOn, StrongOnStart, StrongOnItem,
     StrongOnNew, At, HoldsValue, Undoing, Janitoring, HasNext, Shape, Continues, Dying,
     Upgrading, Updating, locals, client, heap
    <3>4. CASE dr[t].ret = "sg_dec"
      BY <1>k, <1>r, <1>s, <2>3, <3>1, <3>4, SMTT(30) DEF Starts, OnlyWeak, SubWeak, IdleDrop,
     IdleJanitor, Traced, Gained, Keeps, Tries, HandleOn, StrongOnStart, StrongOnItem,
     StrongOnNew, At, HoldsValue, Undoing, Janitoring, HasNext, Shape, Continues, Dying,
     Upgrading, Updating, locals, client, heap
    <3>9. dr[t].ret = "ret" \/ dr[t].ret = "sg_dec"
      BY <1>k, <1>r, <1>s, <3>1, <2>3 DEF DropFrames, Shape, Dying, CallFrames, Continues,
     Janitoring
    <3> QED BY <3>3, <3>4, <3>9
  <2> QED BY <2>1, <2>2, <2>3
<1> QED BY <1>1, <1>2, <1>3, <1>4, <1>5 DEF DropStep

(* A step of an update has a strong reference to a node only if it had     *)
(* one, got it from a link it followed, or made the node.                  *)
LEMMA UpdateTraced ==
  ASSUME OrderInv, NEW t \in Threads, NEW n \in Nodes, Shape(t), UpdateStep(t)
  PROVE  Traced(t, n)
<1>k. TypeOK /\ Knows(pc[t], item[t], av[t], pd[t], jn[t], op[t])
  BY RegistersTyped DEF OrderInv
<1>r. /\ pc \in [Threads -> Labels] /\ item \in [Threads -> Nodes] /\ av \in [Threads -> AdvanceFrames]
      /\ pd \in [Threads -> PayloadFrames] /\ jn \in [Threads -> JanitorFrames]
      /\ dr \in [Threads -> DropFrames] /\ op \in [Threads -> CallFrames]
      /\ strong \in [Nodes -> 0..UsizeMax] /\ UsizeMax \in Nat /\ weak \in [Nodes -> WeakWords]
      /\ mem \in [Nodes -> {"unused", "private", "live", "freed"}] /\ prev \in [Nodes -> Ptrs]
      /\ stamp \in [Nodes -> Nat] /\ next \in [Nodes -> NextWords] /\ adv \in [Nodes -> Int]
      /\ handle \in [Handles -> HandleStates]
  BY HeapAssumption DEF OrderInv, TypeOK
<1>s. Shape(t)
  OBVIOUS
<1>1. CASE UpdateNext(t)
  <2>1. CASE HasNext(item[t])
    <3>1. /\ pc[t] = "upd_next"
          /\ UNCHANGED <<client, pd, jn, dr>>
          /\ UNCHANGED <<next, adv, drops>>
          /\ Starts(t, item[t], "strong", "upd_next")
          /\ UNCHANGED <<heap, op>>
      BY <1>k, <1>1, <2>1, UpdateNextEffect
    <3> QED BY <1>k, <1>r, <1>s, <2>1, <3>1, SMTT(30) DEF Starts, Traced, Gained, Keeps, Tries,
     HandleOn, StrongOnStart, StrongOnItem, StrongOnNew, At, HoldsValue, Undoing, Janitoring,
     HasNext, Shape, Continues, Dying, Upgrading, Updating, locals, client, heap, NewNode,
     Linking
  <2>2. CASE ~HasNext(item[t]) /\ op[t].val # Null
    <3>1. /\ pc[t] = "upd_next"
          /\ UNCHANGED <<client, pd, jn, dr>>
          /\ UNCHANGED <<next, adv, drops>>
          /\ pc'[t] = "upd_weak"
          /\ op'[t] = [op[t] EXCEPT !.nw = next[item[t]]]
          /\ prev' = [prev EXCEPT ![op[t].val] = item[t]]
          /\ UNCHANGED <<strong, weak, mem, item, av>>
      BY <1>k, <1>1, <2>2, UpdateNextEffect
    <3> QED BY <1>k, <1>r, <1>s, <2>2, <3>1, SMTT(30) DEF Starts, Traced, Gained, Keeps, Tries,
     HandleOn, StrongOnStart, StrongOnItem, StrongOnNew, At, HoldsValue, Undoing, Janitoring,
     HasNext, Shape, Continues, Dying, Upgrading, Updating, locals, client, heap, NewNode,
     Linking
  <2>3. CASE ~HasNext(item[t]) /\ op[t].val = Null
    <3>1. /\ pc[t] = "upd_next"
          /\ UNCHANGED <<client, pd, jn, dr>>
          /\ UNCHANGED <<next, adv, drops>>
          /\ Unused # {}
          /\ pc'[t] = "upd_weak"
          /\ op'[t] = [op[t] EXCEPT !.val = FreshNode, !.nw = next[item[t]]]
          /\ NewHolder(FreshNode, item[t])
          /\ UNCHANGED <<item, av>>
      BY <1>k, <1>1, <2>3, UpdateNextEffect
    <3> QED BY <1>k, <1>r, <1>s, <2>3, <3>1, SMTT(30) DEF Starts, NewHolder, Traced,
     Gained, Keeps, Tries, HandleOn, StrongOnStart, StrongOnItem, StrongOnNew, At, HoldsValue,
     Undoing, Janitoring, HasNext, Shape, Continues, Dying, Upgrading, Updating, locals, client,
     heap, NewNode, Linking
  <2> QED BY <2>1, <2>2, <2>3
<1>2. CASE RcuCancel(t)
  BY <1>k, <1>r, <1>s, <1>2, SMTT(30) DEF RcuCancel, Goto, Traced, Gained, Keeps, Tries,
     HandleOn, StrongOnStart, StrongOnItem, StrongOnNew, At, HoldsValue, Undoing, Janitoring,
     HasNext, Shape, Continues, Dying, Upgrading, Updating, locals, client, heap
<1>3. CASE UpdateWeakInc(t)
  BY <1>k, <1>r, <1>s, <1>3, SMTT(30) DEF UpdateWeakInc, AddWeak, Goto, OnlyWeak, Traced,
     Gained, Keeps, Tries, HandleOn, StrongOnStart, StrongOnItem, StrongOnNew, At, HoldsValue,
     Undoing, Janitoring, HasNext, Shape, Continues, Dying, Upgrading, Updating, locals, client,
     heap
<1>4. CASE UpdateCas(t)
  <2>1. CASE CanLink(item[t], op[t].nw)
    BY <1>k, <1>r, <1>s, <1>4, <2>1, SMTT(30) DEF UpdateCas, SetNext, Publish, Goto, Traced,
     Gained, Keeps, Tries, HandleOn, StrongOnStart, StrongOnItem, StrongOnNew, At, HoldsValue,
     Undoing, Janitoring, HasNext, Shape, Continues, Dying, Upgrading, Updating, locals, client,
     heap, Linking
  <2>2. CASE ~CanLink(item[t], op[t].nw)
    BY <1>k, <1>r, <1>s, <1>4, <2>2, SMTT(30) DEF UpdateCas, SetNext, Publish, Goto, Traced,
     Gained, Keeps, Tries, HandleOn, StrongOnStart, StrongOnItem, StrongOnNew, At, HoldsValue,
     Undoing, Janitoring, HasNext, Shape, Continues, Dying, Upgrading, Updating, locals, client,
     heap, Linking
  <2> QED BY <2>1, <2>2
<1>5. CASE UpdateFail(t)
  <2>1. /\ pc[t] = "upd_fail"
        /\ SubWeak(item[t])
        /\ OnlyWeak
        /\ UNCHANGED <<pd, jn, dr, op>>
        /\ Starts(t, item[t], "strong", "upd_next")
    BY <1>k, <1>5, UpdateFailEffect
  <2> QED BY <1>k, <1>r, <1>s, <2>1, SMTT(30) DEF Starts, SubWeak, OnlyWeak, Traced, Gained,
     Keeps, Tries, HandleOn, StrongOnStart, StrongOnItem, StrongOnNew, At, HoldsValue, Undoing,
     Janitoring, HasNext, Shape, Continues, Dying, Upgrading, Updating, locals, client, heap
<1>6. CASE UpdateMark(t)
  BY <1>k, <1>r, <1>s, <1>6, SMTT(30) DEF UpdateMark, Goto, OnlyWeak, Traced, Gained, Keeps,
     Tries, HandleOn, StrongOnStart, StrongOnItem, StrongOnNew, At, HoldsValue, Undoing,
     Janitoring, HasNext, Shape, Continues, Dying, Upgrading, Updating, locals, client, heap
<1>7. CASE UpdateDec(t)
  <2>1. CASE LastStrong(item[t])
    BY <1>k, <1>r, <1>s, <1>7, <2>1, SMTT(30) DEF UpdateDec, SubStrong, StartPayloadDrop, Goto,
     OnlyStrong, Traced, Gained, Keeps, Tries, HandleOn, StrongOnStart, StrongOnItem,
     StrongOnNew, At, HoldsValue, Undoing, Janitoring, HasNext, Shape, Continues, Dying,
     Upgrading, Updating, locals, client, heap
  <2>2. CASE ~LastStrong(item[t])
    BY <1>k, <1>r, <1>s, <1>7, <2>2, SMTT(30) DEF UpdateDec, SubStrong, StartPayloadDrop, Goto,
     OnlyStrong, Traced, Gained, Keeps, Tries, HandleOn, StrongOnStart, StrongOnItem,
     StrongOnNew, At, HoldsValue, Undoing, Janitoring, HasNext, Shape, Continues, Dying,
     Upgrading, Updating, locals, client, heap
  <2> QED BY <2>1, <2>2
<1>8. CASE UpdateDecWeak(t)
  BY <1>k, <1>r, <1>s, <1>8, SMTT(30) DEF UpdateDecWeak, SubWeak, Goto, OnlyWeak, Traced,
     Gained, Keeps, Tries, HandleOn, StrongOnStart, StrongOnItem, StrongOnNew, At, HoldsValue,
     Undoing, Janitoring, HasNext, Shape, Continues, Dying, Upgrading, Updating, locals, client,
     heap
<1>9. CASE UpdateDone(t)
  <2>1. CASE jn[t].rerun
    <3>1. /\ pc[t] = "upd_done"
          /\ ReadOnly
          /\ UNCHANGED <<pd, jn, dr, op>>
          /\ Starts(t, item[t], "strong", "jan_lock")
      BY <1>k, <1>9, <2>1, UpdateDoneEffect
    <3> QED BY <1>k, <1>r, <1>s, <2>1, <3>1, SMTT(30) DEF Starts, ReadOnly, Traced, Gained,
     Keeps, Tries, HandleOn, StrongOnStart, StrongOnItem, StrongOnNew, At, HoldsValue, Undoing,
     Janitoring, HasNext, Shape, Continues, Dying, Upgrading, Updating, locals, client, heap
  <2>2. CASE ~jn[t].rerun
    <3>1. /\ pc[t] = "upd_done"
          /\ ReadOnly
          /\ UNCHANGED <<pd, jn, dr, op>>
          /\ pc'[t] = "ret"
          /\ UNCHANGED <<item, av>>
      BY <1>k, <1>9, <2>2, UpdateDoneEffect
    <3> QED BY <1>k, <1>r, <1>s, <2>2, <3>1, SMTT(30) DEF Starts, ReadOnly, Traced, Gained,
     Keeps, Tries, HandleOn, StrongOnStart, StrongOnItem, StrongOnNew, At, HoldsValue, Undoing,
     Janitoring, HasNext, Shape, Continues, Dying, Upgrading, Updating, locals, client, heap
  <2> QED BY <2>1, <2>2
<1> QED BY <1>1, <1>2, <1>3, <1>4, <1>5, <1>6, <1>7, <1>8, <1>9 DEF UpdateStep

(* A step of an upgrade has a strong reference to a node only if it had    *)
(* one, got it from a link it followed, or made the node.                  *)
LEMMA UpgradeTraced ==
  ASSUME OrderInv, NEW t \in Threads, NEW n \in Nodes, Shape(t), UpgradeStep(t)
  PROVE  Traced(t, n)
<1>k. TypeOK /\ Knows(pc[t], item[t], av[t], pd[t], jn[t], op[t])
  BY RegistersTyped DEF OrderInv
<1>r. /\ pc \in [Threads -> Labels] /\ item \in [Threads -> Nodes] /\ av \in [Threads -> AdvanceFrames]
      /\ pd \in [Threads -> PayloadFrames] /\ jn \in [Threads -> JanitorFrames]
      /\ dr \in [Threads -> DropFrames] /\ op \in [Threads -> CallFrames]
      /\ strong \in [Nodes -> 0..UsizeMax] /\ UsizeMax \in Nat /\ weak \in [Nodes -> WeakWords]
      /\ mem \in [Nodes -> {"unused", "private", "live", "freed"}] /\ prev \in [Nodes -> Ptrs]
      /\ stamp \in [Nodes -> Nat] /\ next \in [Nodes -> NextWords] /\ adv \in [Nodes -> Int]
      /\ handle \in [Handles -> HandleStates]
  BY HeapAssumption DEF OrderInv, TypeOK
<1>s. Shape(t)
  OBVIOUS
<1>1. CASE UpgradeLoadStrong(t)
  BY <1>k, <1>r, <1>s, <1>1, SMTT(30) DEF UpgradeLoadStrong, Goto, ReadOnly, Traced, Gained,
     Keeps, Tries, HandleOn, StrongOnStart, StrongOnItem, StrongOnNew, At, HoldsValue, Undoing,
     Janitoring, HasNext, Shape, Continues, Dying, Upgrading, Updating, locals, client, heap
<1>2. CASE UpgradeLoadNext(t)
  <2>1. CASE HasNext(item[t])
    <3>1. /\ pc[t] = "upg_next"
          /\ ReadOnly
          /\ UNCHANGED pd
          /\ Starts(t, item[t], "weak", "upg_strong")
          /\ UNCHANGED <<jn, dr, op>>
      BY <1>k, <1>2, <2>1, UpgradeLoadNextEffect
    <3> QED BY <1>k, <1>r, <1>s, <2>1, <3>1, SMTT(30) DEF Starts, ReadOnly, Traced, Gained,
     Keeps, Tries, HandleOn, StrongOnStart, StrongOnItem, StrongOnNew, At, HoldsValue, Undoing,
     Janitoring, HasNext, Shape, Continues, Dying, Upgrading, Updating, locals, client, heap
  <2>2. CASE ~HasNext(item[t]) /\ ValueIsGone(item[t], op[t].cs)
    <3>1. /\ pc[t] = "upg_next"
          /\ ReadOnly
          /\ UNCHANGED pd
          /\ Starts(t, item[t], "weak", "jan_lock")
          /\ jn'[t] = [IdleJanitor EXCEPT !.ret = "dw_weak"]
          /\ dr'[t] = [IdleDrop EXCEPT !.ret = "ret"]
          /\ op'[t] = [op[t] EXCEPT !.ok = FALSE]
      BY <1>k, <1>2, <2>2, UpgradeLoadNextEffect
    <3> QED BY <1>k, <1>r, <1>s, <2>2, <3>1, SMTT(30) DEF Starts, ReadOnly, IdleJanitor,
     IdleDrop, Traced, Gained, Keeps, Tries, HandleOn, StrongOnStart, StrongOnItem, StrongOnNew,
     At, HoldsValue, Undoing, Janitoring, HasNext, Shape, Continues, Dying, Upgrading, Updating,
     locals, client, heap
  <2>3. CASE ~HasNext(item[t]) /\ ~ValueIsGone(item[t], op[t].cs)
    <3>1. /\ pc[t] = "upg_next"
          /\ ReadOnly
          /\ UNCHANGED pd
          /\ pc'[t] = IF op[t].cs = 0 THEN "upg_incw" ELSE "upg_cas"
          /\ UNCHANGED <<item, av, jn, dr, op>>
      BY <1>k, <1>2, <2>3, UpgradeLoadNextEffect
    <3> QED BY <1>k, <1>r, <1>s, <2>3, <3>1, SMTT(30) DEF Starts, ReadOnly, Traced, Gained,
     Keeps, Tries, HandleOn, StrongOnStart, StrongOnItem, StrongOnNew, At, HoldsValue, Undoing,
     Janitoring, HasNext, Shape, Continues, Dying, Upgrading, Updating, locals, client, heap
  <2> QED BY <2>1, <2>2, <2>3
<1>3. CASE UpgradeIncWeak(t)
  BY <1>k, <1>r, <1>s, <1>3, SMTT(30) DEF UpgradeIncWeak, AddWeak, Goto, OnlyWeak, Traced,
     Gained, Keeps, Tries, HandleOn, StrongOnStart, StrongOnItem, StrongOnNew, At, HoldsValue,
     Undoing, Janitoring, HasNext, Shape, Continues, Dying, Upgrading, Updating, locals, client,
     heap
<1>4. CASE UpgradeCas(t)
  <2>1. CASE strong[item[t]] = op[t].cs
    <3>1. /\ pc[t] = "upg_cas"
          /\ OnlyStrong
          /\ UNCHANGED <<pd, jn, dr, op>>
          /\ AddStrong(item[t])
          /\ pc'[t] = "upg_check"
          /\ UNCHANGED <<item, av>>
      BY <1>k, <1>4, <2>1, UpgradeCasEffect
    <3> QED BY <1>k, <1>r, <1>s, <2>1, <3>1, SMTT(30) DEF Starts, OnlyStrong, AddStrong, Traced,
     Gained, Keeps, Tries, HandleOn, StrongOnStart, StrongOnItem, StrongOnNew, At, HoldsValue,
     Undoing, Janitoring, HasNext, Shape, Continues, Dying, Upgrading, Updating, locals, client,
     heap
  <2>2. CASE strong[item[t]] # op[t].cs /\ op[t].cs = 0
    <3>1. /\ pc[t] = "upg_cas"
          /\ OnlyStrong
          /\ UNCHANGED <<pd, jn, dr, op>>
          /\ pc'[t] = "upg_race"
          /\ UNCHANGED <<strong, item, av>>
      BY <1>k, <1>4, <2>2, UpgradeCasEffect
    <3> QED BY <1>k, <1>r, <1>s, <2>2, <3>1, SMTT(30) DEF Starts, OnlyStrong, Traced, Gained,
     Keeps, Tries, HandleOn, StrongOnStart, StrongOnItem, StrongOnNew, At, HoldsValue, Undoing,
     Janitoring, HasNext, Shape, Continues, Dying, Upgrading, Updating, locals, client, heap
  <2>3. CASE strong[item[t]] # op[t].cs /\ op[t].cs # 0
    <3>1. /\ pc[t] = "upg_cas"
          /\ OnlyStrong
          /\ UNCHANGED <<pd, jn, dr, op>>
          /\ Starts(t, item[t], "weak", "upg_strong")
          /\ UNCHANGED strong
      BY <1>k, <1>4, <2>3, UpgradeCasEffect
    <3> QED BY <1>k, <1>r, <1>s, <2>3, <3>1, SMTT(30) DEF Starts, OnlyStrong, Traced, Gained,
     Keeps, Tries, HandleOn, StrongOnStart, StrongOnItem, StrongOnNew, At, HoldsValue, Undoing,
     Janitoring, HasNext, Shape, Continues, Dying, Upgrading, Updating, locals, client, heap
  <2> QED BY <2>1, <2>2, <2>3
<1>5. CASE UpgradeRaceDecWeak(t)
  <2>1. /\ pc[t] = "upg_race"
        /\ SubWeak(item[t])
        /\ OnlyWeak
        /\ UNCHANGED <<pd, jn, dr, op>>
        /\ Starts(t, item[t], "weak", "upg_strong")
    BY <1>k, <1>5, UpgradeRaceDecWeakEffect
  <2> QED BY <1>k, <1>r, <1>s, <2>1, SMTT(30) DEF Starts, SubWeak, OnlyWeak, Traced, Gained,
     Keeps, Tries, HandleOn, StrongOnStart, StrongOnItem, StrongOnNew, At, HoldsValue, Undoing,
     Janitoring, HasNext, Shape, Continues, Dying, Upgrading, Updating, locals, client, heap
<1>6. CASE UpgradeCheck(t)
  BY <1>k, <1>r, <1>s, <1>6, SMTT(30) DEF UpgradeCheck, Goto, ReadOnly, Traced, Gained, Keeps,
     Tries, HandleOn, StrongOnStart, StrongOnItem, StrongOnNew, At, HoldsValue, Undoing,
     Janitoring, HasNext, Shape, Continues, Dying, Upgrading, Updating, locals, client, heap
<1>7. CASE UpgradeUndo(t)
  <2>1. CASE LastStrong(item[t])
    <3>1. /\ pc[t] = "upg_undo"
          /\ SubStrong(item[t])
          /\ OnlyStrong
          /\ UNCHANGED <<pd, jn, dr, op>>
          /\ pc'[t] = "upg_undo_decw"
          /\ UNCHANGED <<item, av>>
      BY <1>k, <1>7, <2>1, UpgradeUndoEffect
    <3> QED BY <1>k, <1>r, <1>s, <2>1, <3>1, SMTT(30) DEF Starts, SubStrong, OnlyStrong, Traced,
     Gained, Keeps, Tries, HandleOn, StrongOnStart, StrongOnItem, StrongOnNew, At, HoldsValue,
     Undoing, Janitoring, HasNext, Shape, Continues, Dying, Upgrading, Updating, locals, client,
     heap
  <2>2. CASE ~LastStrong(item[t])
    <3>1. /\ pc[t] = "upg_undo"
          /\ SubStrong(item[t])
          /\ OnlyStrong
          /\ UNCHANGED <<pd, jn, dr, op>>
          /\ Starts(t, item[t], "weak", "upg_strong")
      BY <1>k, <1>7, <2>2, UpgradeUndoEffect
    <3> QED BY <1>k, <1>r, <1>s, <2>2, <3>1, SMTT(30) DEF Starts, SubStrong, OnlyStrong, Traced,
     Gained, Keeps, Tries, HandleOn, StrongOnStart, StrongOnItem, StrongOnNew, At, HoldsValue,
     Undoing, Janitoring, HasNext, Shape, Continues, Dying, Upgrading, Updating, locals, client,
     heap
  <2> QED BY <2>1, <2>2
<1>8. CASE UpgradeUndoDecWeak(t)
  <2>1. /\ pc[t] = "upg_undo_decw"
        /\ SubWeak(item[t])
        /\ OnlyWeak
        /\ UNCHANGED <<pd, jn, dr, op>>
        /\ Starts(t, item[t], "weak", "upg_strong")
    BY <1>k, <1>8, UpgradeUndoDecWeakEffect
  <2> QED BY <1>k, <1>r, <1>s, <2>1, SMTT(30) DEF Starts, SubWeak, OnlyWeak, Traced, Gained,
     Keeps, Tries, HandleOn, StrongOnStart, StrongOnItem, StrongOnNew, At, HoldsValue, Undoing,
     Janitoring, HasNext, Shape, Continues, Dying, Upgrading, Updating, locals, client, heap
<1>9. CASE UpgradeDone(t)
  BY <1>k, <1>r, <1>s, <1>9, SMTT(30) DEF UpgradeDone, SubWeak, Goto, OnlyWeak, Traced, Gained,
     Keeps, Tries, HandleOn, StrongOnStart, StrongOnItem, StrongOnNew, At, HoldsValue, Undoing,
     Janitoring, HasNext, Shape, Continues, Dying, Upgrading, Updating, locals, client, heap
<1> QED BY <1>1, <1>2, <1>3, <1>4, <1>5, <1>6, <1>7, <1>8, <1>9 DEF UpgradeStep

(* A step of the remaining code of the public calls has a strong reference *)
(* to a node only if it had one, got it from a link it followed, or made   *)
(* the node.                                                               *)
LEMMA ApiTraced ==
  ASSUME OrderInv, NEW t \in Threads, NEW n \in Nodes, Shape(t), ApiStep(t),
         ~Return(t)
  PROVE  Traced(t, n)
<1>k. TypeOK /\ Knows(pc[t], item[t], av[t], pd[t], jn[t], op[t])
  BY RegistersTyped DEF OrderInv
<1>r. /\ pc \in [Threads -> Labels] /\ item \in [Threads -> Nodes] /\ av \in [Threads -> AdvanceFrames]
      /\ pd \in [Threads -> PayloadFrames] /\ jn \in [Threads -> JanitorFrames]
      /\ dr \in [Threads -> DropFrames] /\ op \in [Threads -> CallFrames]
      /\ strong \in [Nodes -> 0..UsizeMax] /\ UsizeMax \in Nat /\ weak \in [Nodes -> WeakWords]
      /\ mem \in [Nodes -> {"unused", "private", "live", "freed"}] /\ prev \in [Nodes -> Ptrs]
      /\ stamp \in [Nodes -> Nat] /\ next \in [Nodes -> NextWords] /\ adv \in [Nodes -> Int]
      /\ handle \in [Handles -> HandleStates]
  BY HeapAssumption DEF OrderInv, TypeOK
<1>s. Shape(t)
  OBVIOUS
<1>1. CASE GetLoad(t)
  <2>1. CASE NeedsReload(op[t].f, item[t])
    <3>1. /\ pc[t] = "get_load"
          /\ ReadOnly
          /\ UNCHANGED <<pd, dr, op>>
          /\ Starts(t, item[t], "strong", "jan_lock")
          /\ jn'[t].ret = "get_done"
      BY <1>k, <1>1, <2>1, GetLoadEffect
    <3> QED BY <1>k, <1>r, <1>s, <2>1, <3>1, SMTT(30) DEF Starts, ReadOnly, Traced, Gained,
     Keeps, Tries, HandleOn, StrongOnStart, StrongOnItem, StrongOnNew, At, HoldsValue, Undoing,
     Janitoring, HasNext, Shape, Continues, Dying, Upgrading, Updating, locals, client, heap
  <2>2. CASE ~NeedsReload(op[t].f, item[t])
    <3>1. /\ pc[t] = "get_load"
          /\ ReadOnly
          /\ UNCHANGED <<pd, dr, op>>
          /\ pc'[t] = AfterReload(op[t].f)
          /\ UNCHANGED <<item, av, jn>>
      BY <1>k, <1>1, <2>2, GetLoadEffect
    <3> QED BY <1>k, <1>r, <1>s, <2>2, <3>1, SMTT(30) DEF Starts, ReadOnly, AfterReload, Traced,
     Gained, Keeps, Tries, HandleOn, StrongOnStart, StrongOnItem, StrongOnNew, At, HoldsValue,
     Undoing, Janitoring, HasNext, Shape, Continues, Dying, Upgrading, Updating, locals, client,
     heap
  <2> QED BY <2>1, <2>2
<1>2. CASE GetDone(t)
  <2>1. CASE jn[t].rerun
    <3>1. /\ pc[t] = "get_done"
          /\ ReadOnly
          /\ UNCHANGED <<pd, jn, dr, op>>
          /\ Starts(t, item[t], "strong", "jan_lock")
      BY <1>k, <1>2, <2>1, GetDoneEffect
    <3> QED BY <1>k, <1>r, <1>s, <2>1, <3>1, SMTT(30) DEF Starts, ReadOnly, Traced, Gained,
     Keeps, Tries, HandleOn, StrongOnStart, StrongOnItem, StrongOnNew, At, HoldsValue, Undoing,
     Janitoring, HasNext, Shape, Continues, Dying, Upgrading, Updating, locals, client, heap
  <2>2. CASE ~jn[t].rerun
    <3>1. /\ pc[t] = "get_done"
          /\ ReadOnly
          /\ UNCHANGED <<pd, jn, dr, op>>
          /\ pc'[t] = AfterReload(op[t].f)
          /\ UNCHANGED <<item, av>>
      BY <1>k, <1>2, <2>2, GetDoneEffect
    <3> QED BY <1>k, <1>r, <1>s, <2>2, <3>1, SMTT(30) DEF Starts, ReadOnly, AfterReload, Traced,
     Gained, Keeps, Tries, HandleOn, StrongOnStart, StrongOnItem, StrongOnNew, At, HoldsValue,
     Undoing, Janitoring, HasNext, Shape, Continues, Dying, Upgrading, Updating, locals, client,
     heap
  <2> QED BY <2>1, <2>2
<1>3. CASE TryGetMutWeak(t)
  BY <1>k, <1>r, <1>s, <1>3, SMTT(30) DEF TryGetMutWeak, Goto, ReadOnly, Traced, Gained, Keeps,
     Tries, HandleOn, StrongOnStart, StrongOnItem, StrongOnNew, At, HoldsValue, Undoing,
     Janitoring, HasNext, Shape, Continues, Dying, Upgrading, Updating, locals, client, heap
<1>4. CASE TryGetMutStrong(t)
  BY <1>k, <1>r, <1>s, <1>4, SMTT(30) DEF TryGetMutStrong, Goto, ReadOnly, Traced, Gained,
     Keeps, Tries, HandleOn, StrongOnStart, StrongOnItem, StrongOnNew, At, HoldsValue, Undoing,
     Janitoring, HasNext, Shape, Continues, Dying, Upgrading, Updating, locals, client, heap
<1>5. CASE TryGetMutAgain(t)
  BY <1>k, <1>r, <1>s, <1>5, SMTT(30) DEF TryGetMutAgain, Goto, ReadOnly, Traced, Gained, Keeps,
     Tries, HandleOn, StrongOnStart, StrongOnItem, StrongOnNew, At, HoldsValue, Undoing,
     Janitoring, HasNext, Shape, Continues, Dying, Upgrading, Updating, locals, client, heap
<1>6. CASE SharedGetLoad(t)
  <2>1. CASE HasNext(Base(t))
    BY <1>k, <1>r, <1>s, <1>6, <2>1, SMTT(30) DEF SharedGetLoad, Goto, ReadOnly, Traced, Gained,
     Keeps, Tries, HandleOn, StrongOnStart, StrongOnItem, StrongOnNew, At, HoldsValue, Undoing,
     Janitoring, HasNext, Shape, Continues, Dying, Upgrading, Updating, locals, client, heap
  <2>2. CASE ~HasNext(Base(t))
    BY <1>k, <1>r, <1>s, <1>6, <2>2, SMTT(30) DEF SharedGetLoad, CallFrames, Goto, ReadOnly, Traced, Gained,
     Keeps, Tries, HandleOn, StrongOnStart, StrongOnItem, StrongOnNew, At, HoldsValue, Undoing,
     Janitoring, HasNext, Shape, Continues, Dying, Upgrading, Updating, locals, client, heap
  <2> QED BY <2>1, <2>2
<1>7. CASE SharedGetInc(t)
  BY <1>k, <1>r, <1>s, <1>7, SMTT(30) DEF SharedGetInc, Goto, OnlyAdv, Traced, Gained, Keeps,
     Tries, HandleOn, StrongOnStart, StrongOnItem, StrongOnNew, At, HoldsValue, Undoing,
     Janitoring, HasNext, Shape, Continues, Dying, Upgrading, Updating, locals, client, heap
<1>8. CASE SharedGetNext(t)
  BY <1>k, <1>r, <1>s, <1>8, SMTT(30) DEF SharedGetNext, Goto, ReadOnly, Traced, Gained, Keeps,
     Tries, HandleOn, StrongOnStart, StrongOnItem, StrongOnNew, At, HoldsValue, Undoing,
     Janitoring, HasNext, Shape, Continues, Dying, Upgrading, Updating, locals, client, heap
<1>9. CASE SharedGetStrong(t)
  BY <1>k, <1>r, <1>s, <1>9, SMTT(30) DEF SharedGetStrong, Goto, ReadOnly, Traced, Gained,
     Keeps, Tries, HandleOn, StrongOnStart, StrongOnItem, StrongOnNew, At, HoldsValue, Undoing,
     Janitoring, HasNext, Shape, Continues, Dying, Upgrading, Updating, locals, client, heap
<1>10. CASE SharedGetCas(t)
  <2>1. CASE strong[op[t].nxt] = op[t].cs
    BY <1>k, <1>r, <1>s, <1>10, <2>1, SMTT(30) DEF SharedGetCas, AddStrong, Goto, OnlyStrong,
     Traced, Gained, Keeps, Tries, HandleOn, StrongOnStart, StrongOnItem, StrongOnNew, At,
     HoldsValue, Undoing, Janitoring, HasNext, Shape, Continues, Dying, Upgrading, Updating,
     locals, client, heap
  <2>2. CASE strong[op[t].nxt] # op[t].cs
    BY <1>k, <1>r, <1>s, <1>10, <2>2, SMTT(30) DEF SharedGetCas, AddStrong, Goto, OnlyStrong,
     Traced, Gained, Keeps, Tries, HandleOn, StrongOnStart, StrongOnItem, StrongOnNew, At,
     HoldsValue, Undoing, Janitoring, HasNext, Shape, Continues, Dying, Upgrading, Updating,
     locals, client, heap
  <2> QED BY <2>1, <2>2
<1>11. CASE SharedGetRecheck(t)
  <2>1. CASE HasNext(op[t].nxt)
    <3>1. /\ pc[t] = "sg_recheck"
          /\ ReadOnly
          /\ UNCHANGED <<pd, jn, op>>
          /\ Starts(t, op[t].nxt, "strong", "ds_dec")
          /\ dr'[t] = [IdleDrop EXCEPT !.ret = "sg_dec"]
      BY <1>k, <1>11, <2>1, SharedGetRecheckEffect
    <3> QED BY <1>k, <1>r, <1>s, <2>1, <3>1, SMTT(30) DEF Starts, ReadOnly, IdleDrop, Traced,
     Gained, Keeps, Tries, HandleOn, StrongOnStart, StrongOnItem, StrongOnNew, At, HoldsValue,
     Undoing, Janitoring, HasNext, Shape, Continues, Dying, Upgrading, Updating, locals, client,
     heap
  <2>2. CASE ~HasNext(op[t].nxt)
    <3>1. /\ pc[t] = "sg_recheck"
          /\ ReadOnly
          /\ UNCHANGED <<pd, jn, op>>
          /\ pc'[t] = "sg_light"
          /\ UNCHANGED <<item, av, dr>>
      BY <1>k, <1>11, <2>2, SharedGetRecheckEffect
    <3> QED BY <1>k, <1>r, <1>s, <2>2, <3>1, SMTT(30) DEF Starts, ReadOnly, Traced, Gained,
     Keeps, Tries, HandleOn, StrongOnStart, StrongOnItem, StrongOnNew, At, HoldsValue, Undoing,
     Janitoring, HasNext, Shape, Continues, Dying, Upgrading, Updating, locals, client, heap
  <2> QED BY <2>1, <2>2
<1>12. CASE SharedGetLight(t)
  BY <1>k, <1>r, <1>s, <1>12, SMTT(30) DEF SharedGetLight, Goto, OnlyAdv, Traced, Gained, Keeps,
     Tries, HandleOn, StrongOnStart, StrongOnItem, StrongOnNew, At, HoldsValue, Undoing,
     Janitoring, HasNext, Shape, Continues, Dying, Upgrading, Updating, locals, client, heap
<1>13. CASE SharedGetDec(t)
  BY <1>k, <1>r, <1>s, <1>13, SMTT(30) DEF SharedGetDec, Goto, OnlyAdv, Traced, Gained, Keeps,
     Tries, HandleOn, StrongOnStart, StrongOnItem, StrongOnNew, At, HoldsValue, Undoing,
     Janitoring, HasNext, Shape, Continues, Dying, Upgrading, Updating, locals, client, heap
<1>14. CASE SharedGetClone(t)
  <2>1. /\ pc[t] = "sg_clone"
        /\ AddStrong(Base(t))
        /\ OnlyStrong
        /\ UNCHANGED <<pd, jn, dr>>
        /\ Starts(t, Base(t), "strong", "reading")
        /\ op'[t] = [op[t] EXCEPT !.guard = "full"]
    BY <1>k, <1>14, SharedGetCloneEffect
  <2>2. HandleOn(Base(t))
    BY <1>k, <1>s, <2>1 DEF HandleOn, Base, Knows, HandleKept, Shape, TypeOK, CallFrames
  <2> QED BY <1>k, <1>r, <1>s, <2>1, <2>2, SMTT(30) DEF Starts, AddStrong, OnlyStrong, Traced, Gained,
     Keeps, Tries, StrongOnStart, StrongOnItem, StrongOnNew, At, HoldsValue, Undoing,
     Janitoring, HasNext, Shape, Continues, Dying, Upgrading, Updating, locals, client, heap
<1>15. CASE FinishReading(t)
  <2>1. CASE op[t].guard \in {"light", "full"}
    <3>1. /\ pc[t] \in {"reading", "mutref"}
          /\ ReadOnly
          /\ UNCHANGED <<pd, jn, op>>
          /\ Starts(t, item[t], "strong", "ds_dec")
          /\ dr'[t] = [IdleDrop EXCEPT !.ret = "ret"]
      BY <1>k, <1>15, <2>1, FinishReadingEffect
    <3> QED BY <1>k, <1>r, <1>s, <2>1, <3>1, SMTT(30) DEF Starts, ReadOnly, IdleDrop, Traced,
     Gained, Keeps, Tries, HandleOn, StrongOnStart, StrongOnItem, StrongOnNew, At, HoldsValue,
     Undoing, Janitoring, HasNext, Shape, Continues, Dying, Upgrading, Updating, locals, client,
     heap
  <2>2. CASE op[t].guard \notin {"light", "full"}
    <3>1. /\ pc[t] \in {"reading", "mutref"}
          /\ ReadOnly
          /\ UNCHANGED <<pd, jn, op>>
          /\ pc'[t] = "ret"
          /\ UNCHANGED <<item, av, dr>>
      BY <1>k, <1>15, <2>2, FinishReadingEffect
    <3> QED BY <1>k, <1>r, <1>s, <2>2, <3>1, SMTT(30) DEF Starts, ReadOnly, Traced, Gained,
     Keeps, Tries, HandleOn, StrongOnStart, StrongOnItem, StrongOnNew, At, HoldsValue, Undoing,
     Janitoring, HasNext, Shape, Continues, Dying, Upgrading, Updating, locals, client, heap
  <2> QED BY <2>1, <2>2
<1> QED BY <1>1, <1>2, <1>3, <1>4, <1>5, <1>6, <1>7, <1>8, <1>9, <1>10, <1>11, <1>12, <1>13,
  <1>14, <1>15 DEF ApiStep

(* The entry of a call has a strong reference only where its handle had    *)
(* one.                                                                    *)
LEMMA CallTraced ==
  ASSUME OrderInv, NEW t \in Threads, NEW n \in Nodes, Shape(t), Call(t)
  PROVE  Traced(t, n)
<1>k. TypeOK /\ Knows(pc[t], item[t], av[t], pd[t], jn[t], op[t])
  BY RegistersTyped DEF OrderInv
<1>r. /\ pc \in [Threads -> Labels] /\ item \in [Threads -> Nodes] /\ av \in [Threads -> AdvanceFrames]
      /\ pd \in [Threads -> PayloadFrames] /\ jn \in [Threads -> JanitorFrames]
      /\ dr \in [Threads -> DropFrames] /\ op \in [Threads -> CallFrames]
      /\ strong \in [Nodes -> 0..UsizeMax] /\ UsizeMax \in Nat /\ weak \in [Nodes -> WeakWords]
      /\ mem \in [Nodes -> {"unused", "private", "live", "freed"}] /\ prev \in [Nodes -> Ptrs]
      /\ stamp \in [Nodes -> Nat] /\ next \in [Nodes -> NextWords] /\ adv \in [Nodes -> Int]
      /\ handle \in [Handles -> HandleStates]
  BY HeapAssumption DEF OrderInv, TypeOK
<1>s. Shape(t)
  OBVIOUS
<1>1. ASSUME NEW h \in Handles, NEW o \in Handles, Clone(t, h, o)
      PROVE  Traced(t, n)
  <2>1. /\ Entered(t, "clone", h, o, Null)
        /\ handle[h].kind = "strong"
        /\ handle[o].kind = "none"
        /\ handle' = [handle EXCEPT ![o] = Busy]
        /\ AddStrong(handle[h].node)
        /\ Starts(t, handle[h].node, "strong", "ret")
        /\ UNCHANGED <<next, prev, weak, adv, mem, drops, jn, dr>>
    BY <1>k, <1>1, CloneEffect
  <2> QED BY <1>k, <1>r, <1>s, <2>1, SMTT(30) DEF Entered, Starts, Busy, AddStrong, Traced,
     Gained, Keeps, Tries, HandleOn, StrongOnStart, StrongOnItem, StrongOnNew, At, HoldsValue,
     Undoing, Janitoring, HasNext, Shape, Continues, Dying, Upgrading, Updating, locals, client,
     heap
<1>2. ASSUME NEW f, NEW h \in Handles, NEW o \in Handles, CloneWeak(t, f, h, o)
      PROVE  Traced(t, n)
  <2>1. /\ pc[t] = "idle"
        /\ handle[h].kind = IF f = "downgrade" THEN "strong" ELSE "weak"
        /\ handle[o].kind = "none"
        /\ handle' = [handle EXCEPT ![o] = [kind |-> "weak", node |-> handle[h].node]]
        /\ AddWeak(handle[h].node)
        /\ UNCHANGED <<next, prev, strong, adv, mem, drops, stamp, count, pc, locals>>
    BY <1>k, <1>2, CloneWeakEffect
  <2> QED BY <1>k, <1>r, <1>s, <2>1, SMTT(30) DEF Entered, Starts, AddWeak, Traced, Gained,
     Keeps, Tries, HandleOn, StrongOnStart, StrongOnItem, StrongOnNew, At, HoldsValue, Undoing,
     Janitoring, HasNext, Shape, Continues, Dying, Upgrading, Updating, locals, client, heap
<1>3. ASSUME NEW h \in Handles, NEW o \in Handles, Upgrade(t, h, o)
      PROVE  Traced(t, n)
  <2>1. /\ Entered(t, "upgrade", h, o, Null)
        /\ handle[h].kind = "weak"
        /\ handle[o].kind = "none"
        /\ handle' = [handle EXCEPT ![o] = Busy]
        /\ AddWeak(handle[h].node)
        /\ Starts(t, handle[h].node, "weak", "upg_strong")
        /\ UNCHANGED <<next, prev, strong, adv, mem, drops, jn, dr>>
    BY <1>k, <1>3, UpgradeEffect
  <2> QED BY <1>k, <1>r, <1>s, <2>1, SMTT(30) DEF Entered, Starts, Busy, AddWeak, Traced,
     Gained, Keeps, Tries, HandleOn, StrongOnStart, StrongOnItem, StrongOnNew, At, HoldsValue,
     Undoing, Janitoring, HasNext, Shape, Continues, Dying, Upgrading, Updating, locals, client,
     heap
<1>4. ASSUME NEW h \in Handles, Update(t, h)
      PROVE  Traced(t, n)
  <2>1. /\ Unused # {}
        /\ Entered(t, "update", h, h, FreshNode)
        /\ handle[h].kind = "strong"
        /\ \A u \in Threads : pc[u] # "idle" => op[u].hnd # h
        /\ handle' = [handle EXCEPT ![h] = Busy]
        /\ NewHolder(FreshNode, handle[h].node)
        /\ Starts(t, handle[h].node, "strong", "upd_next")
        /\ UNCHANGED <<next, adv, drops, jn, dr>>
    BY <1>k, <1>4, UpdateEffect
  <2> QED BY <1>k, <1>r, <1>s, <2>1, SMTT(30) DEF Entered, Starts, Busy, NewHolder,
     Traced, Gained, Keeps, Tries, HandleOn, StrongOnStart, StrongOnItem, StrongOnNew, At,
     HoldsValue, Undoing, Janitoring, HasNext, Shape, Continues, Dying, Upgrading, Updating,
     locals, client, heap
<1>5. ASSUME NEW h \in Handles, Rcu(t, h)
      PROVE  Traced(t, n)
  <2>1. /\ Entered(t, "rcu", h, h, Null)
        /\ handle[h].kind = "strong"
        /\ \A u \in Threads : pc[u] # "idle" => op[u].hnd # h
        /\ handle' = [handle EXCEPT ![h] = Busy]
        /\ Starts(t, handle[h].node, "strong", "upd_next")
        /\ UNCHANGED <<heap, jn, dr>>
    BY <1>k, <1>5, RcuEffect
  <2> QED BY <1>k, <1>r, <1>s, <2>1, SMTT(30) DEF Entered, Starts, Busy, Traced, Gained, Keeps,
     Tries, HandleOn, StrongOnStart, StrongOnItem, StrongOnNew, At, HoldsValue, Undoing,
     Janitoring, HasNext, Shape, Continues, Dying, Upgrading, Updating, locals, client, heap
<1>6. ASSUME NEW f, NEW h \in Handles, DropShift(t, f, h)
      PROVE  Traced(t, n)
  <2>1. /\ f \in {"drop", "intoInner"}
        /\ Entered(t, f, h, h, Null)
        /\ handle[h].kind = "strong"
        /\ \A u \in Threads : pc[u] # "idle" => op[u].hnd # h
        /\ handle' = [handle EXCEPT ![h] = Busy]
        /\ Starts(t, handle[h].node, "strong", "ds_dec")
        /\ dr'[t] = [IdleDrop EXCEPT !.ret = "ret"]
        /\ UNCHANGED <<heap, jn>>
    BY <1>k, <1>6, DropShiftEffect
  <2> QED BY <1>k, <1>r, <1>s, <2>1, SMTT(30) DEF Entered, Starts, Busy, IdleDrop, Traced,
     Gained, Keeps, Tries, HandleOn, StrongOnStart, StrongOnItem, StrongOnNew, At, HoldsValue,
     Undoing, Janitoring, HasNext, Shape, Continues, Dying, Upgrading, Updating, locals, client,
     heap
<1>7. ASSUME NEW h \in Handles, DropShiftWeak(t, h)
      PROVE  Traced(t, n)
  <2>1. /\ Entered(t, "dropWeak", h, h, Null)
        /\ handle[h].kind = "weak"
        /\ \A u \in Threads : pc[u] # "idle" => op[u].hnd # h
        /\ handle' = [handle EXCEPT ![h] = Busy]
        /\ Starts(t, handle[h].node, "weak", "jan_lock")
        /\ jn'[t] = [IdleJanitor EXCEPT !.ret = "dw_weak"]
        /\ dr'[t] = [IdleDrop EXCEPT !.ret = "ret"]
        /\ UNCHANGED heap
    BY <1>k, <1>7, DropShiftWeakEffect
  <2> QED BY <1>k, <1>r, <1>s, <2>1, SMTT(30) DEF Entered, Starts, Busy, IdleJanitor, IdleDrop,
     Traced, Gained, Keeps, Tries, HandleOn, StrongOnStart, StrongOnItem, StrongOnNew, At,
     HoldsValue, Undoing, Janitoring, HasNext, Shape, Continues, Dying, Upgrading, Updating,
     locals, client, heap
<1>8. ASSUME NEW f, NEW h \in Handles, Reload(t, f, h)
      PROVE  Traced(t, n)
  <2>1. /\ f \in {"get", "reload", "tryGetMut"}
        /\ Entered(t, f, h, h, Null)
        /\ handle[h].kind = "strong"
        /\ \A u \in Threads : pc[u] # "idle" => op[u].hnd # h
        /\ handle' = [handle EXCEPT ![h] = Busy]
        /\ item'[t] = handle[h].node
        /\ pc'[t] = "get_load"
        /\ UNCHANGED <<heap, av, jn, dr>>
    BY <1>k, <1>8, ReloadEffect
  <2> QED BY <1>k, <1>r, <1>s, <2>1, SMTT(30) DEF Entered, Starts, Busy, Traced, Gained, Keeps,
     Tries, HandleOn, StrongOnStart, StrongOnItem, StrongOnNew, At, HoldsValue, Undoing,
     Janitoring, HasNext, Shape, Continues, Dying, Upgrading, Updating, locals, client, heap
<1>9. ASSUME NEW h \in Handles, SharedGet(t, h)
      PROVE  Traced(t, n)
  <2>1. /\ Entered(t, "sharedGet", h, h, Null)
        /\ handle[h].kind = "strong"
        /\ pc'[t] = "sg_load"
        /\ UNCHANGED <<heap, handle, item, av, jn, dr>>
    BY <1>k, <1>9, SharedGetEffect
  <2> QED BY <1>k, <1>r, <1>s, <2>1, SMTT(30) DEF Entered, Starts, Traced, Gained, Keeps, Tries,
     HandleOn, StrongOnStart, StrongOnItem, StrongOnNew, At, HoldsValue, Undoing, Janitoring,
     HasNext, Shape, Continues, Dying, Upgrading, Updating, locals, client, heap
<1> QED BY <1>1, <1>2, <1>3, <1>4, <1>5, <1>6, <1>7, <1>8, <1>9 DEF Call

-----------------------------------------------------------------------------
(* Where there is no strong reference left of a node, there never will be  *)
(* one again: a call that gets a strong reference takes it from a holder   *)
(* on the same node or left of it, or gets it on the newest node.          *)

\* A janitor gains no strong reference for the call it runs in.
LEMMA JanitorTraced ==
  ASSUME TypeOK, NEW t \in Threads, NEW n \in Nodes, Shape(t), JanitorStep(t)
  PROVE  (Keeps(t, n)' => Keeps(t, n)) /\ ~Tries(t, n)'
<1>1. /\ pc[t] \in Janitoring /\ (pc'[t] \in Janitoring \/ pc'[t] = jn[t].ret) /\ jn'[t].ret = jn[t].ret
      /\ UNCHANGED <<handle, item, av, pd, dr>>
      /\ op'[t].f = op[t].f /\ op'[t].ok = op[t].ok /\ op'[t].guard = op[t].guard
      /\ op'[t].val = op[t].val /\ op'[t].nxt = op[t].nxt
  BY JanitorStays
<1>2. pc[t] \in Janitoring /\ jn[t].ret \in {"dw_weak", "upd_done", "get_done"}
  BY <1>1 DEF Shape, Continues, Janitoring
<1>3. StrongOnItem(t)' => StrongOnItem(t)
  BY <1>1, <1>2 DEF StrongOnItem, At, Janitoring, HoldsValue
<1>4. ~StrongOnStart(t)' /\ ~StrongOnNew(t)' /\ pc'[t] \notin {"sg_recheck", "sg_light"}
  BY <1>1, <1>2 DEF StrongOnStart, StrongOnNew, At, Janitoring
<1>5. ~Undoing(t)
  BY <1>2 DEF Undoing, Janitoring
<1> QED BY <1>1, <1>3, <1>4, <1>5 DEF Keeps, Tries

\* A call that returns has no reference left: its handle has it.
LEMMA ReturnTraced ==
  ASSUME TypeOK, NEW t \in Threads, NEW n \in Nodes, Shape(t), Return(t)
  PROVE  ~Keeps(t, n)' /\ ~Tries(t, n)'
<1>1. pc'[t] = "idle" /\ pd' = pd /\ pc[t] = "ret"
  BY DEF Return, Goto, TypeOK
<1>2. ~StrongOnStart(t)' /\ ~StrongOnNew(t)' /\ ~StrongOnItem(t)' /\ pc'[t] \notin {"sg_recheck", "sg_light"}
  BY <1>1 DEF StrongOnStart, StrongOnNew, StrongOnItem, At, Janitoring
<1> QED BY <1>2 DEF Keeps, Tries

(* Every new strong reference comes from somewhere.                        *)
LEMMA AllTraced ==
  ASSUME SafeInv, NEW t \in Threads, AnyStep(t), ~DropWeakFree(t), NEW n \in Nodes
  PROVE  Traced(t, n)
<1>1. OrderInv /\ Shape(t) /\ TypeOK
  BY DEF SafeInv, OrderInv
<1>2. CASE AdvanceStep(t)
  BY <1>1, <1>2, AdvanceTraced
<1>3. CASE JanitorStep(t)
  BY <1>1, <1>3, JanitorTraced DEF Traced, Gained
<1>4. CASE DropStep(t)
  BY <1>1, <1>4, DropTraced
<1>5. CASE UpdateStep(t)
  BY <1>1, <1>5, UpdateTraced
<1>6. CASE UpgradeStep(t)
  BY <1>1, <1>6, UpgradeTraced
<1>7. CASE ApiStep(t)
  BY <1>1, <1>7, ApiTraced, ReturnTraced DEF Traced
<1>8. CASE Call(t)
  BY <1>1, <1>8, CallTraced
<1> QED BY <1>2, <1>3, <1>4, <1>5, <1>6, <1>7, <1>8 DEF AnyStep, Step

\* A call puts no strong reference into a handle; only Return does.
LEMMA CallHandles ==
  ASSUME TypeOK, NEW t \in Threads, Call(t), NEW g \in Handles, handle'[g].kind = "strong"
  PROVE  handle'[g] = handle[g]
<1>0. handle \in [Handles -> HandleStates]
  BY DEF TypeOK
<1>1. PICK h \in Handles, o \in Handles :
        \/ Clone(t, h, o) \/ CloneWeak(t, "downgrade", h, o) \/ CloneWeak(t, "cloneWeak", h, o)
        \/ Upgrade(t, h, o) \/ Update(t, h) \/ Rcu(t, h)
        \/ DropShift(t, "drop", h) \/ DropShift(t, "intoInner", h) \/ DropShiftWeak(t, h)
        \/ Reload(t, "get", h) \/ Reload(t, "reload", h) \/ Reload(t, "tryGetMut", h)
        \/ SharedGet(t, h)
  BY DEF Call
<1>2. \/ handle' = handle
      \/ handle' = [handle EXCEPT ![o] = Busy] \/ handle' = [handle EXCEPT ![h] = Busy]
      \/ handle' = [handle EXCEPT ![o] = [kind |-> "weak", node |-> handle[h].node]]
  BY <1>1 DEF Clone, CloneWeak, Upgrade, Update, Rcu, DropShift, DropShiftWeak, Reload, SharedGet, Reserve, Take
<1>3. Busy.kind # "strong"
  BY DEF Busy
<1> QED BY <1>0, <1>2, <1>3

(* A handle gets only a reference that its thread had.                     *)
LEMMA ReturnHandles ==
  ASSUME TypeOK, NEW t \in Threads, Shape(t), Return(t), NEW g \in Handles, handle'[g].kind = "strong",
         handle'[g] # handle[g]
  PROVE  Keeps(t, handle'[g].node)
<1>1. pc[t] = "ret" /\ handle' = Result(t) /\ handle \in [Handles -> HandleStates]
  BY DEF Return, TypeOK
<1>2. NoHandle.kind # "strong"
  BY DEF NoHandle
<1>3. CASE op[t].f \in {"clone", "upgrade"}
  <2>1. handle' = [handle EXCEPT ![op[t].out] =
            IF op[t].ok THEN [kind |-> "strong", node |-> item[t]] ELSE NoHandle]
    BY <1>1, <1>3 DEF Result
  <2>2. op[t].ok /\ handle'[g].node = item[t]
    BY <1>1, <1>2, <2>1
  <2>3. StrongOnItem(t) /\ ~Undoing(t)
    BY <1>1, <1>3, <2>2 DEF StrongOnItem, HoldsValue, Undoing
  <2> QED BY <2>2, <2>3 DEF Keeps
<1>4. CASE op[t].f \in {"get", "reload", "tryGetMut", "update", "rcu"}
  <2>1. handle' = [handle EXCEPT ![op[t].hnd] = [kind |-> "strong", node |-> item[t]]]
    BY <1>1, <1>4 DEF Result
  <2>2. handle'[g].node = item[t]
    BY <1>1, <2>1
  <2>3. op[t].f = "rcu" \/ op[t].ok
    BY <1>4 DEF Shape
  <2>4. StrongOnItem(t) /\ ~Undoing(t)
    BY <1>1, <1>4, <2>3 DEF StrongOnItem, HoldsValue, Undoing
  <2> QED BY <2>2, <2>4 DEF Keeps
<1>5. CASE op[t].f \in {"drop", "dropWeak", "intoInner"}
  <2>1. handle' = [handle EXCEPT ![op[t].hnd] = NoHandle]
    BY <1>1, <1>5 DEF Result
  <2> QED BY <1>1, <1>2, <2>1
<1>6. CASE op[t].f \notin {"clone", "upgrade", "get", "reload", "tryGetMut", "update", "rcu", "drop", "dropWeak", "intoInner"}
  BY <1>1, <1>6 DEF Result
<1> QED BY <1>3, <1>4, <1>5, <1>6

\* What other threads keep does not depend on t.
LEMMA OthersKeep ==
  ASSUME NEW u \in Threads, Still(u), Grows, OrderInv, NEW n \in Nodes
  PROVE  (Keeps(u, n)' => Keeps(u, n)) /\ (Tries(u, n)' => Tries(u, n))
<1>1. /\ pc'[u] = pc[u] /\ item'[u] = item[u] /\ av'[u] = av[u] /\ pd'[u] = pd[u]
      /\ jn'[u] = jn[u] /\ dr'[u] = dr[u] /\ op'[u] = op[u]
  BY DEF Still
<1>2. /\ StrongOnStart(u)' = StrongOnStart(u) /\ StrongOnItem(u)' = StrongOnItem(u) /\ StrongOnNew(u)' = StrongOnNew(u)
  BY <1>1 DEF StrongOnStart, StrongOnItem, StrongOnNew, At
<1>3. ~Undoing(u)' => ~Undoing(u)
  <2>1. item[u] \in Nodes
    BY NodesTyped
  <2>2. HasNext(item[u]) => next'[item[u]].ptr # Null
    BY <2>1 DEF Grows, HasNext
  <2> QED BY <1>1, <2>2 DEF Undoing, HasNext
<1> QED BY <1>1, <1>2, <1>3 DEF Keeps, Tries

\* who has a strong reference is live
LEMMA KeptLive ==
  ASSUME SafeInv, NEW n \in Nodes, Kept(n) \/ Tried(n)
  PROVE  Live(n) /\ Published(n)
<1>1. handle \in [Handles -> HandleStates] /\ OrderInv /\ Listed
  BY NodesTyped DEF SafeInv
<1>2. \E x : x \in StrongHolders(n)
  BY <1>1, KeptIsHeld
<1>3. Live(n)
  BY <1>2, PrivateUnheld
<1> QED BY <1>1, <1>3 DEF Listed

\* Where a strong reference that is there after a step may come from.
LEMMA KeptFrom ==
  ASSUME SafeInv, NEW t \in Threads, AnyStep(t), ~DropWeakFree(t), NEW n \in Nodes, Kept(n)'
  PROVE  \/ Kept(n)
         \/ Live(n) /\ ~HasNext(n)
         \/ UpdateCas(t) /\ CanLink(item[t], op[t].nw) /\ n = op[t].val
<1>1. /\ OrderInv /\ TypeOK /\ Grows /\ Shape(t) /\ HeldLive(t) /\ handle \in [Handles -> HandleStates]
      /\ \A u \in Threads \ {t} : Still(u)
  BY StepFacts, NodesTyped DEF SafeInv
<1>2. CASE \E h \in Handles : handle'[h].kind = "strong" /\ handle'[h].node = n
  <2>1. PICK h \in Handles : handle'[h].kind = "strong" /\ handle'[h].node = n
    BY <1>2
  <2>2. CASE handle'[h] = handle[h]
    BY <2>1, <2>2 DEF Kept
  <2>3. CASE handle'[h] # handle[h]
    <3>1. Return(t)
      BY <1>1, <2>1, <2>3, HandlesStay, CallHandles DEF AnyStep
    <3>2. Keeps(t, n)
      BY <1>1, <2>1, <2>3, <3>1, ReturnHandles
    <3> QED BY <3>2 DEF Kept
  <2> QED BY <2>2, <2>3
<1>3. CASE \E u \in Threads : Keeps(u, n)'
  <2>1. PICK u \in Threads : Keeps(u, n)'
    BY <1>3
  <2>2. CASE u # t
    <3>1. Keeps(u, n)
      BY <1>1, <2>1, <2>2, OthersKeep
    <3> QED BY <3>1 DEF Kept
  <2>3. CASE u = t
    <3>1. Gained(t, n)
      BY <2>1, <2>3, AllTraced DEF Traced
    <3>2. Keeps(t, n) \/ HandleOn(n) => Kept(n)
      BY DEF Kept, HandleOn
    <3>3. Tries(t, n) => Live(n)
      BY KeptLive DEF Tried
    <3>4. pc[t] \in {"advs_cas", "upg_cas"} /\ n = item[t] => Live(n)
      BY <1>1 DEF HeldLive, WeakOnItem, At
    <3> QED BY <3>1, <3>2, <3>3, <3>4 DEF Gained
  <2> QED BY <2>2, <2>3
<1> QED BY <1>2, <1>3 DEF Kept

(* A node is newly tried only by the compare-and-swap of shared_get.       *)
LEMMA TriedFrom ==
  ASSUME SafeInv, NEW t \in Threads, AnyStep(t), ~DropWeakFree(t), NEW n \in Nodes, Tried(n)'
  PROVE  Tried(n) \/ (pc[t] = "sg_cas" /\ n = op[t].nxt)
<1>1. OrderInv /\ Grows /\ \A u \in Threads \ {t} : Still(u)
  BY StepFacts DEF SafeInv
<1>2. PICK u \in Threads : Tries(u, n)'
  BY DEF Tried
<1>3. CASE u # t
  BY <1>1, <1>2, <1>3, OthersKeep DEF Tried
<1>4. CASE u = t
  BY <1>2, <1>4, AllTraced DEF Traced, Tried
<1> QED BY <1>3, <1>4

\* What shared_get tries, it tries right of the handle it has borrowed.
LEMMA TriedRight ==
  ASSUME SafeInv, NEW m \in Nodes, NEW t \in Threads, Tries(t, m) \/ (pc[t] = "sg_cas" /\ m = op[t].nxt)
  PROVE  Base(t) \in Nodes /\ Kept(Base(t)) /\ Before(Base(t), m)
<1>1. Shape(t) /\ Places(t)
  BY DEF SafeInv
<1>2. op[t].f = "sharedGet" /\ pc[t] # "idle"
  BY <1>1 DEF Tries, Shape, DropShape, StrongOnStart
<1>3. Before(Base(t), m)
  BY <1>1 DEF Tries, Places
<1> QED BY <1>2, <1>3, Borrowed

-----------------------------------------------------------------------------
(* The teardown: a janitor that has seen no strong reference from its node *)
(* leftwards is right about it, and what it has reported stays true.       *)

(* The node without a successor has the last stamp.                        *)
LEMMA NewestIsLast ==
  ASSUME SafeInv, NEW m \in Nodes, NEW n \in Nodes, Live(m), ~HasNext(m)
  PROVE  ~Before(m, n) /\ stamp[m] = count /\ stamp[n] <= count
<1>1. ChainOrdered /\ Listed /\ stamp \in [Nodes -> Nat] /\ count \in Nat
  BY NodesTyped DEF SafeInv, OrderInv
<1>2. stamp[m] = count /\ stamp[n] <= count
  BY <1>1 DEF ChainOrdered, Listed
<1> QED BY <1>1, <1>2 DEF Before

\* A strong reference left of n, after a step, has come from one left of n.
LEMMA ComesFromLeft ==
  ASSUME SafeInv, NEW t \in Threads, AnyStep(t), ~DropWeakFree(t), NEW m \in Nodes, NEW n \in Nodes, Published(n),
         Kept(m)' \/ Tried(m)', stamp'[m] < stamp'[n]
  PROVE  \E k \in Nodes : (Kept(k) \/ Tried(k)) /\ Before(k, n)
<1>1. Grows /\ stamp'[n] = stamp[n] /\ stamp \in [Nodes -> Nat] /\ count \in Nat
  BY StepFacts, NodesTyped DEF Grows, SafeInv
<1>2. ASSUME Kept(m) \/ Tried(m)
      PROVE  \E k \in Nodes : (Kept(k) \/ Tried(k)) /\ Before(k, n)
  <2>1. Published(m)
    BY <1>2, KeptLive
  <2>2. Before(m, n)
    BY <1>1, <2>1 DEF Grows, Before
  <2> QED BY <1>2, <2>2
<1>3. CASE Kept(m)'
  <2>1. CASE Live(m) /\ ~HasNext(m)
    <3>1. Published(m)
      BY <2>1 DEF SafeInv, Listed
    <3>2. Before(m, n)
      BY <1>1, <3>1 DEF Grows, Before
    <3> QED BY <2>1, <3>2, NewestIsLast
  <2>2. CASE UpdateCas(t) /\ CanLink(item[t], op[t].nw) /\ m = op[t].val
    <3>1. Links(t, item[t], op[t].val)
      BY <2>2, UpdateLinks DEF SafeInv
    <3>2. stamp'[m] = count + 1
      BY <1>1, <2>2, <3>1 DEF Links
    <3>3. stamp[n] <= count
      BY DEF SafeInv, OrderInv, ChainOrdered
    <3> QED BY <1>1, <3>2, <3>3
  <2> QED BY <1>2, <1>3, <2>1, <2>2, KeptFrom
<1>4. CASE Tried(m)'
  <2>1. CASE pc[t] = "sg_cas" /\ m = op[t].nxt
    <3>1. Base(t) \in Nodes /\ Kept(Base(t)) /\ Before(Base(t), m)
      BY <2>1, TriedRight
    <3>2. Published(m)
      <4>1. Follows(t, Base(t), m)
        BY <2>1 DEF Follows
      <4>2. Live(m)
        BY <3>1, <4>1 DEF SafeInv, Followed
      <4> QED BY <4>2 DEF SafeInv, Listed
    <3>3. Before(Base(t), n)
      BY <1>1, <3>1, <3>2 DEF Grows, Before
    <3> QED BY <3>1, <3>3
  <2> QED BY <1>2, <1>4, <2>1, TriedFrom
<1> QED BY <1>3, <1>4

(* Once no node before n is kept or tried, none will be again.             *)
LEMMA NoneBeforeStays ==
  ASSUME SafeInv, NEW t \in Threads, AnyStep(t), ~DropWeakFree(t), NEW n \in Nodes, Published(n), NoneBefore(n)
  PROVE  \A m \in Nodes : Kept(m)' \/ Tried(m)' => ~(stamp'[m] < stamp'[n])
BY ComesFromLeft DEF NoneBefore

\* No new reference turns up in the part of the list that a janitor has passed.
LEMMA KeptBehind ==
  ASSUME SafeInv, NEW t \in Threads, AnyStep(t), ~DropWeakFree(t), NEW m \in Nodes, NEW n \in Nodes, Published(n),
         Kept(m)', stamp'[m] < stamp'[n]
  PROVE  Kept(m) /\ Live(m) /\ Before(m, n) /\ stamp'[m] = stamp[m]
<1>1. Grows /\ stamp'[n] = stamp[n] /\ stamp \in [Nodes -> Nat] /\ count \in Nat
  BY StepFacts, NodesTyped DEF Grows, SafeInv
<1>2. CASE Kept(m)
  <2>1. Published(m) /\ Live(m)
    BY <1>2, KeptLive
  <2> QED BY <1>1, <1>2, <2>1 DEF Grows, Before
<1>3. CASE Live(m) /\ ~HasNext(m)
  <2>1. Published(m)
    BY <1>3 DEF SafeInv, Listed
  <2>2. Before(m, n)
    BY <1>1, <2>1 DEF Grows, Before
  <2> QED BY <1>3, <2>2, NewestIsLast
<1>4. CASE UpdateCas(t) /\ CanLink(item[t], op[t].nw) /\ m = op[t].val
  <2>1. Links(t, item[t], op[t].val)
    BY <1>4, UpdateLinks DEF SafeInv
  <2>2. stamp'[m] = count + 1
    BY <1>1, <1>4, <2>1 DEF Links
  <2>3. stamp[n] <= count
    BY DEF SafeInv, OrderInv, ChainOrdered
  <2> QED BY <1>1, <2>2, <2>3
<1> QED BY <1>2, <1>3, <1>4, KeptFrom

(* What a janitor found unused while it swept stays unused while others    *)
(* step.                                                                   *)
LEMMA FoundNoneStays ==
  ASSUME SafeInv, NEW t \in Threads, AnyStep(t), ~DropWeakFree(t), NEW u \in Threads, Still(u), pc[u] \in Redirecting, FoundNone(u)
  PROVE  FoundNone(u)'
<1>1. Grows /\ stamp \in [Nodes -> Nat] /\ Listed /\ OrderInv /\ JanitorKnows(u) /\ JanitorOrdered(pc[u], item[u], jn[u])
  BY StepFacts, NodesTyped DEF SafeInv, OrderInv, Local, Knows
<1>2. item[u] \in Nodes /\ Published(item[u])
  BY <1>1, NodesTyped DEF OrderInv, Local, Knows, OnChain
<1>3. jn[u].cur \in Nodes /\ Published(jn[u].cur)
  <2>1. jn[u].cur \in Ptrs
    BY <1>1 DEF OrderInv, TypeOK, JanitorFrames
  <2> QED BY <1>1, <2>1 DEF JanitorOrdered, Older, Redirecting, Ptrs
<1>4. /\ stamp'[item[u]] = stamp[item[u]] /\ stamp'[jn[u].cur] = stamp[jn[u].cur]
      /\ pc'[u] = pc[u] /\ item'[u] = item[u] /\ jn'[u] = jn[u]
  BY <1>1, <1>2, <1>3 DEF Grows, Still
<1>5. ASSUME NEW m \in Nodes, Kept(m)', Seen(u, m)' PROVE FALSE
  <2>1. stamp'[m] < stamp'[item[u]]
    BY <1>4, <1>5 DEF Seen, Before
  <2>2. Kept(m) /\ Before(m, item[u]) /\ stamp'[m] = stamp[m]
    BY <1>2, <1>5, <2>1, KeptBehind
  <2>3. Seen(u, m)
    BY <1>4, <1>5, <2>2 DEF Seen, Before
  <2> QED BY <2>2, <2>3 DEF FoundNone
<1> QED BY <1>5 DEF FoundNone

(* A janitor takes no strong reference to a node it sweeps over.           *)
LEMMA JanitorKeepsNone ==
  ASSUME SafeInv, NEW t \in Threads, JanitorStep(t), NEW m \in Nodes
  PROVE  (Kept(m)' => Kept(m)) /\ (Tried(m)' => Tried(m))
<1>1. /\ OrderInv /\ TypeOK /\ Shape(t) /\ Grows /\ handle' = handle /\ \A u \in Threads \ {t} : Still(u)
  <2>1. AnyStep(t) /\ OrderInv /\ Shape(t)
    BY DEF AnyStep, Step, SafeInv
  <2>2. TypeOK
    BY <2>1 DEF OrderInv
  <2>3. handle' = handle
    BY <2>2, JanitorStays
  <2> QED BY <2>1, <2>2, <2>3, StepFacts
<1>2. \A u \in Threads : (Keeps(u, m)' => Keeps(u, m)) /\ (Tries(u, m)' => Tries(u, m))
  BY <1>1, OthersKeep, JanitorTraced
<1>3. Kept(m)' => Kept(m)
  BY <1>1, <1>2 DEF Kept
<1>4. Tried(m)' => Tried(m)
  BY <1>2 DEF Tried
<1> QED BY <1>3, <1>4

\* A janitor that has seen nothing so far has looked at every node it has passed.
LEMMA OwnFoundNone ==
  ASSUME SafeInv, NEW t \in Threads, JanitorStep(t), pc'[t] \in Redirecting, ~jn'[t].seen
  PROVE  FoundNone(t)'
<1>0. ListInv /\ TypeOK /\ OrderInv
  BY ListParts DEF ListInv, OrderInv
<1>1. /\ jn[t] \in JanitorFrames /\ item[t] \in Nodes /\ stamp \in [Nodes -> Nat] /\ prev \in [Nodes -> Ptrs]
      /\ JanitorKnows(t) /\ JanitorOrdered(pc[t], item[t], jn[t])
      /\ pc[t] \in Janitoring => Live(item[t])
      /\ jn[t].cur \in Ptrs /\ jn[t].cand \in Ptrs /\ jn[t].prv \in Ptrs
      /\ \A n \in Nodes : n # Null
      /\ \A m, n \in Nodes : Live(m) /\ Live(n) => Before(m, n) \/ Before(n, m) \/ m = n
  BY <1>0, JanitorFacts
<1>r. pc[t] \in {"jan_sweep"} \cup Redirecting => jn[t].cur \in Nodes /\ jn[t].cand \in Nodes
  BY <1>1 DEF JanitorOrdered, Older, Redirecting, Ptrs
<1>p. \A n \in Nodes : Live(n) /\ HasLocked(t, n) /\ ~(Gap(t) /\ jn[t].right = n) => Adjacent(n, prev[n])
  BY <1>0, PrevAdjacent
<1>s. SUFFICES ASSUME NEW m \in Nodes, Kept(m), Live(m), Seen(t, m)' PROVE FALSE
  <2>1. \A m \in Nodes : Kept(m)' => Kept(m) /\ Live(m)
    BY JanitorKeepsNone, KeptLive
  <2> QED BY <2>1 DEF FoundNone
<1> USE DEF Before, Redirecting, Seen
<1>2. CASE JanitorSweep(t)
  <2>0. pc[t] = "jan_sweep"
    BY <1>2 DEF JanitorSweep, Janitor
  <2>1. UNCHANGED <<stamp, item>> /\ pc'[t] = "jan_strong" /\ jn'[t].cur = jn[t].cand
    BY <1>2, <1>0, <2>0, <1>r, JanitorSweepMoves
  <2>2. HasLocked(t, item[t]) /\ ~Gap(t) /\ Live(item[t]) /\ prev[item[t]] = jn[t].cand
    BY <2>0, <1>1 DEF HasLocked, Gap, Janitoring, JanitorKnows
  <2>3. Adjacent(item[t], jn[t].cand)
    BY <2>2, <1>p, <1>1
  <2>4. Before(m, item[t]) => ~Before(jn[t].cand, m)
    BY <2>3, <1>s DEF Adjacent
  <2> QED BY <2>1, <2>4, <1>s
<1>3. CASE JanitorStrong(t)
  <2>1. pc[t] = "jan_strong" /\ UNCHANGED <<stamp, item, strong>> /\ pc'[t] = "jan_setnext" /\ jn'[t].cur = jn[t].cur
        /\ ~jn[t].seen /\ ~(LiveStrong(strong[jn[t].cur]) > 0)
    BY <1>3, <1>0, JanitorStrongMoves
  <2>2. ~Seen(t, m)
    BY <2>1, <1>s DEF SafeInv, TeardownSafe, FoundNone
  <2>3. ~Before(jn[t].cur, m) /\ ~Before(m, jn[t].cur)
    BY <2>1, <2>2, <1>s
  <2>4. m = jn[t].cur
    BY <2>1, <2>3, <1>r, <1>1, <1>s DEF JanitorKnows
  <2>5. LiveStrong(strong[m]) = Cardinality(StrongHolders(m))
    BY <1>s DEF SafeInv, StrongExact
  <2>6. \E x : x \in StrongHolders(m)
    BY <1>s, KeptIsHeld, NodesTyped DEF SafeInv
  <2>7. Cardinality(StrongHolders(m)) >= 1 /\ Cardinality(StrongHolders(m)) \in Nat
    BY <2>6, HoldersOf, SomeCounted
  <2>8. ~(LiveStrong(strong[m]) > 0)
    BY <2>1, <2>4
  <2> QED BY <2>5, <2>7, <2>8
<1>4. CASE JanitorSetNext(t)
  <2>1. pc[t] = "jan_setnext" /\ UNCHANGED <<stamp, item>> /\ pc'[t] = "jan_adv" /\ jn'[t].cur = jn[t].cur /\ ~jn[t].seen
    BY <1>4, <1>0, JanitorSetNextMoves
  <2>2. ~Seen(t, m)
    BY <2>1, <1>s DEF SafeInv, TeardownSafe, FoundNone
  <2> QED BY <2>1, <2>2, <1>s
<1>5. CASE JanitorCheckAdvance(t)
  <2>1. pc[t] = "jan_adv" /\ UNCHANGED <<stamp, item>> /\ pc'[t] = "jan_strong" /\ jn'[t].cur = jn[t].prv /\ ~jn[t].seen
    BY <1>5, <1>0, JanitorCheckAdvanceMoves
  <2>2. ~Seen(t, m)
    BY <2>1, <1>s DEF SafeInv, TeardownSafe, FoundNone
  <2>3. jn[t].cur \in Nodes /\ Live(jn[t].cur) /\ HasLocked(t, jn[t].cur) /\ ~Gap(t)
    BY <2>1, <1>1, <1>r DEF JanitorKnows, Ptrs, HasLocked, Gap, JanitorOrdered, Older
  <2>4. jn[t].prv = prev[jn[t].cur] /\ jn[t].prv \in Nodes
    BY <2>1, <1>1 DEF JanitorKnows, Ptrs
  <2>5. Adjacent(jn[t].cur, jn[t].prv)
    BY <2>3, <2>4, <1>p
  <2>6. Before(jn[t].prv, m) /\ Before(m, item[t])
    BY <2>1, <1>s
  <2>7. ~Before(m, jn[t].cur)
    BY <2>5, <2>6, <1>s DEF Adjacent
  <2> QED BY <2>1, <2>2, <2>6, <2>7
<1>6. CASE ~JanitorSweep(t) /\ ~JanitorStrong(t) /\ ~JanitorSetNext(t) /\ ~JanitorCheckAdvance(t)
  <2>1. pc[t] \in Janitoring => jn[t].ret \in {"dw_weak", "upd_done", "get_done"}
    BY <1>0, JanitorFacts
  <2>2. pc'[t] \in {jn[t].ret, "jan_unlock", "jan_sweep", "jan_clean"} \cup Freeing /\ pc[t] \in Janitoring
    <3> USE DEF Freeing, Janitoring
    <3>1. CASE JanitorLockStart(t)
      BY <1>0, <3>1, JanitorLockStartMoves
    <3>2. CASE JanitorCleanup(t)
      BY <1>0, <3>2, JanitorCleanupMoves
    <3>3. CASE JanitorUnlockStart(t)
      BY <1>0, <3>3, JanitorUnlockStartMoves
    <3>4. CASE JanitorFinal(t)
      BY <1>0, <3>4, JanitorFinalMoves
    <3>5. CASE JanitorDelete(t)
      BY <1>0, <3>5, JanitorDeleteMoves
    <3>6. CASE JanitorFree(t)
      BY <1>0, <3>6, JanitorFreeMoves
    <3>7. CASE JanitorClearPrev(t)
      BY <1>0, <3>7, JanitorClearPrevMoves
    <3>8. CASE JanitorUnlink(t)
      BY <1>0, <3>8, JanitorUnlinkMoves
    <3>9. CASE JanitorCarry(t)
      BY <1>0, <3>9, JanitorCarryMoves
    <3>10. CASE JanitorUncarry(t)
      BY <1>0, <3>10, JanitorUncarryMoves
    <3> QED BY <1>6, <3>1, <3>2, <3>3, <3>4, <3>5, <3>6, <3>7, <3>8, <3>9, <3>10 DEF JanitorStep
  <2> QED BY <2>1, <2>2 DEF Freeing
<1> QED BY <1>2, <1>3, <1>4, <1>5, <1>6

\* t has found that there is no strong reference left of its node
Concluded(t) ==
  \/ pc[t] \in Freeing \cup {"jan_unlock"} /\ StrongStatus(jn[t]) = "NoStrongRefsExist"
  \/ pc[t] \in {"dw_weak", "dw_next"} /\ jn[t].status = "NoStrongRefsExist"
  \/ pc[t] = "dw_claim"

(* A janitor that swept to the start of the list and saw no reference      *)
(* concludes rightly that there is none.                                   *)
LEMMA Concludes ==
  ASSUME SafeInv, NEW t \in Threads, Concluded(t)
  PROVE  NoneBefore(item[t])
BY DEF SafeInv, TeardownSafe, Concluded

\* At the end of the first loop every node has been looked at.
LEMMA LoopDone ==
  ASSUME SafeInv, NEW t \in Threads, pc[t] = "jan_strong", prev[jn[t].cur] = Null, ~jn[t].seen,
         ~(LiveStrong(strong[jn[t].cur]) > 0)
  PROVE  NoneBefore(item[t])
<1>0. ListInv /\ TypeOK /\ OrderInv
  BY ListParts DEF ListInv, OrderInv
<1>1. /\ jn[t] \in JanitorFrames /\ item[t] \in Nodes /\ stamp \in [Nodes -> Nat] /\ prev \in [Nodes -> Ptrs]
      /\ JanitorKnows(t) /\ JanitorOrdered(pc[t], item[t], jn[t])
      /\ Live(item[t])
      /\ jn[t].cur \in Ptrs
      /\ \A n \in Nodes : n # Null
      /\ \A m, n \in Nodes : Live(m) /\ Live(n) => Before(m, n) \/ Before(n, m) \/ m = n
  BY <1>0, JanitorFacts DEF Janitoring
<1>2. jn[t].cur \in Nodes /\ Live(jn[t].cur) /\ HasLocked(t, jn[t].cur) /\ ~Gap(t)
  BY <1>1 DEF JanitorKnows, Ptrs, HasLocked, Gap, JanitorOrdered, Older, Redirecting, Before
<1>3. Adjacent(jn[t].cur, Null)
  <2>1. Adjacent(jn[t].cur, prev[jn[t].cur])
    BY <1>0, <1>2, PrevAdjacent
  <2> QED BY <2>1
<1>4. ASSUME NEW m \in Nodes, Kept(m), Before(m, item[t]) PROVE FALSE
  <2>1. Live(m)
    BY <1>4, KeptLive
  <2>2. ~Before(jn[t].cur, m)
    BY <1>4 DEF SafeInv, TeardownSafe, FoundNone, Seen, Redirecting
  <2>3. ~Before(m, jn[t].cur)
    BY <1>3, <2>1 DEF Adjacent
  <2>4. m = jn[t].cur
    BY <1>1, <1>2, <2>1, <2>2, <2>3
  <2>5. LiveStrong(strong[m]) = Cardinality(StrongHolders(m))
    BY <2>1 DEF SafeInv, StrongExact
  <2>6. \E x : x \in StrongHolders(m)
    BY <1>4, KeptIsHeld, NodesTyped DEF SafeInv
  <2>7. Cardinality(StrongHolders(m)) >= 1 /\ Cardinality(StrongHolders(m)) \in Nat
    BY <2>6, HoldersOf, SomeCounted
  <2>8. ~(LiveStrong(strong[m]) > 0)
    BY <2>4
  <2> QED BY <2>5, <2>7, <2>8
<1>5. ASSUME NEW m \in Nodes, Tried(m), Before(m, item[t]) PROVE FALSE
  <2>1. PICK u \in Threads : Tries(u, m)
    BY <1>5 DEF Tried
  <2>2. Base(u) \in Nodes /\ Kept(Base(u)) /\ Before(Base(u), m)
    BY <2>1, TriedRight
  <2>3. Before(Base(u), item[t])
    BY <1>1, <1>5, <2>2 DEF Before
  <2> QED BY <1>4, <2>2, <2>3
<1> QED BY <1>4, <1>5 DEF NoneBefore

\* A conclusion is drawn where it is true.
LEMMA Conclusion ==
  ASSUME SafeInv, NEW t \in Threads, AnyStep(t), ~DropWeakFree(t), Concluded(t)'
  PROVE  item'[t] = item[t] /\ NoneBefore(item[t])
<1>0. ListInv /\ TypeOK /\ OrderInv
  BY ListParts DEF ListInv, OrderInv
<1>1. /\ Came(t) /\ JanitorKnows(t) /\ item[t] \in Nodes /\ jn[t] \in JanitorFrames
      /\ pc[t] \in Janitoring => Live(item[t]) /\ jn[t].ret \in {"dw_weak", "upd_done", "get_done"}
  BY <1>0, Arrivals, JanitorFacts
<1>r. pc[t] = "jan_sweep" => jn[t].cur \in Nodes
  BY <1>0, JanitorFacts DEF JanitorOrdered, Older, Ptrs
<1> USE DEF Freeing, Redirecting, Janitoring
<1>2. CASE JanitorStep(t)
  <2>0. item' = item
    BY <1>0, <1>2, JanitorStays
  <2>c. SUFFICES NoneBefore(item[t])
    BY <2>0
  <2>1. CASE JanitorLockStart(t)
    <3>1. \/ /\ pc'[t] = jn[t].ret /\ jn'[t].status = "Indeterminate"
          \/ /\ ~next[item[t]].locked /\ prev[item[t]] = Null /\ pc'[t] = "jan_unlock"
          \/ pc'[t] = "jan_sweep"
      BY <1>0, <2>1, JanitorLockStartEffect
    <3>2. pc[t] = "jan_lock"
      BY <2>1 DEF JanitorLockStart, Janitor
    <3>3. ~next[item[t]].locked /\ prev[item[t]] = Null
      BY <1>1, <3>1, <3>2 DEF Concluded
    <3>4. Adjacent(item[t], Null)
      <4>1. Adjacent(item[t], prev[item[t]])
        BY <1>0, <1>1, <3>2, <3>3, UnlockedAdjacent
      <4> QED BY <3>3, <4>1
    <3>5. \A m \in Nodes : Kept(m) \/ Tried(m) => Live(m)
      BY KeptLive
    <3> QED BY <3>4, <3>5 DEF Adjacent, NoneBefore
  <2>2. CASE JanitorSweep(t)
    <3>1. pc[t] = "jan_sweep"
      BY <2>2 DEF JanitorSweep, Janitor
    <3>2. pc'[t] \in {"jan_sweep", "jan_clean", "jan_strong"}
      BY <1>0, <1>r, <2>2, <3>1, JanitorSweepMoves
    <3> QED BY <3>2 DEF Concluded
  <2>3. CASE JanitorCleanup(t)
    <3>1. pc'[t] \in {"jan_clean", "jan_unlock"} /\ jn'[t].fail = jn[t].fail /\ pc[t] = "jan_clean"
      BY <1>0, <2>3, JanitorCleanupMoves
    <3>2. jn[t].fail # Null
      BY <1>1, <3>1 DEF JanitorKnows
    <3> QED BY <3>1, <3>2 DEF Concluded, StrongStatus
  <2>4. CASE JanitorUnlockStart(t)
    <3>1. pc[t] = "jan_unlock" /\ pc'[t] = jn[t].ret /\ jn'[t].status = StrongStatus(jn[t])
      BY <1>0, <2>4, JanitorUnlockStartEffect
    <3>2. StrongStatus(jn[t]) = "NoStrongRefsExist"
      BY <1>1, <3>1 DEF Concluded
    <3>3. Concluded(t)
      BY <3>1, <3>2 DEF Concluded
    <3> QED BY <3>3, Concludes
  <2>5. CASE JanitorStrong(t)
    <3>1. CASE prev[jn[t].cur] # Null
      BY <1>0, <2>5, <3>1, JanitorStrongMoves DEF Concluded
    <3>2. CASE prev[jn[t].cur] = Null
      <4>1. pc[t] = "jan_strong" /\ pc'[t] = "jan_final"
            /\ jn'[t].seen = (jn[t].seen \/ LiveStrong(strong[jn[t].cur]) > 0)
        BY <1>0, <2>5, <3>2, JanitorStrongMoves
      <4>2. ~jn'[t].seen
        BY <4>1 DEF Concluded, StrongStatus
      <4>3. ~jn[t].seen /\ ~(LiveStrong(strong[jn[t].cur]) > 0)
        BY <4>1, <4>2
      <4> QED BY <3>2, <4>1, <4>3, LoopDone
    <3> QED BY <3>1, <3>2
  <2>6. CASE JanitorSetNext(t) \/ JanitorCheckAdvance(t)
    BY <1>0, <2>6, JanitorSetNextMoves, JanitorCheckAdvanceMoves DEF Concluded
  <2>7. ASSUME pc[t] \in Freeing, pc'[t] \in Freeing \cup {"jan_unlock"},
               jn'[t].seen = jn[t].seen /\ jn'[t].fail = jn[t].fail
        PROVE  NoneBefore(item[t])
    <3>1. Concluded(t)
      BY <2>7 DEF Concluded, StrongStatus
    <3> QED BY <3>1, Concludes
  <2>8. CASE JanitorFinal(t)
    BY <1>0, <2>7, <2>8, JanitorFinalMoves
  <2>9. CASE JanitorDelete(t)
    BY <1>0, <2>7, <2>9, JanitorDeleteMoves
  <2>10. CASE JanitorFree(t)
    BY <1>0, <2>7, <2>10, JanitorFreeMoves
  <2>11. CASE JanitorClearPrev(t)
    BY <1>0, <2>7, <2>11, JanitorClearPrevMoves
  <2>12. CASE JanitorUnlink(t)
    BY <1>0, <2>7, <2>12, JanitorUnlinkMoves
  <2>13. CASE JanitorCarry(t)
    BY <1>0, <2>7, <2>13, JanitorCarryMoves
  <2>14. CASE JanitorUncarry(t)
    BY <1>0, <2>7, <2>14, JanitorUncarryMoves
  <2> QED BY <1>2, <2>1, <2>2, <2>3, <2>4, <2>5, <2>6, <2>8, <2>9, <2>10, <2>11, <2>12, <2>13, <2>14 DEF JanitorStep
<1>3. CASE ~JanitorStep(t)
  <2>0. pc[t] \notin Janitoring
    BY <1>3, StepAt DEF JanitorStep
  <2>1. CASE pc'[t] = "dw_next"
    <3>1. DropWeakLoad(t) /\ pc[t] = "dw_weak"
      BY <2>1, <1>1, StepAt DEF Came
    <3>2. item' = item /\ jn' = jn
      BY <1>0, <2>1, <3>1, DropWeakLoadEffect DEF Starts
    <3>3. Concluded(t)
      BY <2>1, <3>1, <3>2 DEF Concluded
    <3> QED BY <3>2, <3>3, Concludes
  <2>2. CASE pc'[t] = "dw_claim"
    <3>1. DropWeakNext(t) /\ pc[t] = "dw_next"
      BY <2>2, <1>1, StepAt DEF Came
    <3>2. item' = item /\ jn[t].status = "NoStrongRefsExist"
      BY <1>0, <2>2, <3>1, DropWeakNextEffect DEF Starts
    <3>3. Concluded(t)
      BY <3>1, <3>2 DEF Concluded
    <3> QED BY <3>2, <3>3, Concludes
  <2>3. CASE pc'[t] = "dw_weak" \/ pc'[t] \in Freeing \cup {"jan_unlock"}
    BY <1>1, <2>0, <2>3 DEF Came
  <2> QED BY <2>1, <2>2, <2>3 DEF Concluded
<1> QED BY <1>2, <1>3

(* What the janitor itself passes while it saw nothing is unused.          *)
LEMMA OwnKeepsNone ==
  ASSUME SafeInv, NEW t \in Threads, AnyStep(t), pc'[t] \in Redirecting, ~jn'[t].seen
  PROVE  FoundNone(t)'
<1>1. pc[t] \in Janitoring
  BY Arrivals DEF Came, Redirecting, Janitoring
<1>2. JanitorStep(t)
  BY <1>1, StepAt DEF JanitorStep, Janitoring
<1> QED BY <1>2, OwnFoundNone

\* The payload that do_drop_weak goes on to drop is that of the node it has claimed.
LEMMA ClaimedFirst ==
  ASSUME SafeInv, NEW t \in Threads, AnyStep(t), NEW u \in Threads, pd'[u].ret = "dw_cas"
  PROVE  strong'[pd'[u].tgt] = STRONG_DROPPED
<1>1. /\ OrderInv /\ TypeOK /\ OrderInv' /\ Came(t) /\ \A v \in Threads \ {t} : Still(v)
      /\ \A n \in Nodes : strong[n] = STRONG_DROPPED => strong'[n] = STRONG_DROPPED
      /\ pd[u].tgt \in Nodes /\ item[t] \in Nodes
  BY StepFacts, Arrivals, SentinelKept, NodesTyped DEF SafeInv
<1>2. CASE pd'[u] = pd[u]
  <2>1. strong[pd[u].tgt] = STRONG_DROPPED
    BY <1>2 DEF SafeInv, TeardownSafe
  <2> QED BY <1>1, <1>2, <2>1
<1>3. CASE pd'[u] # pd[u]
  <2>1. u = t
    BY <1>1, <1>3 DEF Still
  <2>2. pc'[t] \in Dropping
    BY <1>1, <2>1 DEF OrderInv, Local, Knows, Frames
  <2>3. pc[t] \in {"pay_mark", "advs_a_dec", "dw_claim", "upd_dec"}
    BY <1>1, <2>2 DEF Came
  <2>4. CASE pc[t] = "pay_mark"
    <3>1. PayloadMark(t)
      BY <2>4, StepAt
    <3>2. pd'[t] = pd[t] \/ pd'[t] = IdlePayload
      BY <1>1, <3>1 DEF PayloadMark, TypeOK
    <3> QED BY <1>3, <2>1, <3>2 DEF IdlePayload
  <2>5. CASE pc[t] = "advs_a_dec"
    <3>1. StrongLeaveStart(t)
      BY <2>5, StepAt
    <3>2. pd'[t] = pd[t] \/ pd'[t].ret = "advs_a_decw"
      BY <1>1, <3>1 DEF StrongLeaveStart, StartPayloadDrop, TypeOK
    <3> QED BY <1>3, <2>1, <3>2
  <2>6. CASE pc[t] = "upd_dec"
    <3>1. UpdateDec(t)
      BY <2>6, StepAt
    <3>2. pd'[t] = pd[t] \/ pd'[t].ret = "upd_decw"
      BY <1>1, <3>1 DEF UpdateDec, StartPayloadDrop, TypeOK
    <3> QED BY <1>3, <2>1, <3>2
  <2>7. CASE pc[t] = "dw_claim"
    <3>1. ClaimTeardown(t)
      BY <2>7, StepAt
    <3>2. pd'[t] = pd[t] \/ (pd'[t].tgt = item[t] /\ strong'[item[t]] = STRONG_DROPPED)
      BY <1>1, <3>1 DEF ClaimTeardown, StartPayloadDrop, TypeOK
    <3> QED BY <1>3, <2>1, <3>2
  <2> QED BY <2>3, <2>4, <2>5, <2>6, <2>7
<1> QED BY <1>2, <1>3

\* An upgrade goes on from a strong count it has found alive.
LEMMA UpgradesAlive ==
  ASSUME SafeInv, NEW t \in Threads, AnyStep(t), NEW u \in Threads, pc'[u] \in {"upg_incw", "upg_cas", "upg_race"}
  PROVE  op'[u].cs # STRONG_DROPPED
<1>1. OrderInv /\ TypeOK /\ Came(t) /\ \A v \in Threads \ {t} : Still(v)
  BY StepFacts, Arrivals DEF SafeInv, OrderInv
<1>2. CASE u # t
  BY <1>1, <1>2 DEF Still, SafeInv, TeardownSafe
<1>3. CASE u = t
  <2>1. pc[t] \in {"upg_next", "upg_incw", "upg_cas"}
    BY <1>1, <1>3 DEF Came
  <2>2. CASE pc[t] = "upg_next"
    <3>1. UpgradeLoadNext(t)
      BY <2>2, StepAt
    <3>2. op' = op /\ ~ValueIsGone(item[t], op[t].cs)
      BY <1>1, <1>3, <3>1, UpgradeLoadNextEffect DEF Starts
    <3> QED BY <1>3, <3>2 DEF ValueIsGone
  <2>3. CASE pc[t] = "upg_incw"
    <3>1. op' = op
      BY <2>3, StepAt DEF UpgradeIncWeak, locals
    <3> QED BY <1>3, <2>3, <3>1 DEF SafeInv, TeardownSafe
  <2>4. CASE pc[t] = "upg_cas"
    <3>1. UpgradeCas(t)
      BY <2>4, StepAt
    <3>2. op' = op
      BY <1>1, <3>1, UpgradeCasEffect
    <3> QED BY <1>3, <2>4, <3>2 DEF SafeInv, TeardownSafe
  <2> QED BY <2>1, <2>2, <2>3, <2>4
<1> QED BY <1>2, <1>3

(* Every step keeps the conclusions on which the teardown of the chain     *)
(* rests.                                                                  *)
LEMMA TeardownKept ==
  ASSUME SafeInv, NEW t \in Threads, AnyStep(t), ~DropWeakFree(t)
  PROVE  TeardownSafe'
<1>1. /\ OrderInv /\ TypeOK /\ Listed /\ Grows /\ \A u \in Threads \ {t} : Still(u)
      /\ \A u \in Threads : item[u] \in Nodes /\ Published(item[u])
      /\ UsizeMax \in Nat /\ UsizeMax > 1
  <2>1. OrderInv /\ TypeOK /\ Listed /\ Grows /\ \A u \in Threads \ {t} : Still(u)
    BY StepFacts DEF SafeInv, OrderInv
  <2>2. \A u \in Threads : item[u] \in Nodes /\ Published(item[u])
    BY <2>1, NodesTyped DEF OrderInv, Local, Knows, OnChain
  <2>3. UsizeMax \in Nat /\ UsizeMax > 1
    <3>1. Cardinality(Handles) \in Nat /\ Cardinality(Threads) \in Nat
      BY HeapAssumption, FS_CardinalityType
    <3> QED BY <3>1, HeapAssumption
  <2> QED BY <2>1, <2>2, <2>3
<1>2. \A u \in Threads : pc'[u] \in Redirecting /\ ~jn'[u].seen => FoundNone(u)'
  <2>1. SUFFICES ASSUME NEW u \in Threads, pc'[u] \in Redirecting /\ ~jn'[u].seen PROVE FoundNone(u)'
    OBVIOUS
  <2>2. CASE u = t
    BY <2>1, <2>2, OwnKeepsNone
  <2>3. CASE u # t
    <3>1. Still(u)
      BY <1>1, <2>3
    <3>2. pc[u] \in Redirecting /\ ~jn[u].seen
      BY <2>1, <3>1 DEF Still
    <3>3. FoundNone(u)
      BY <3>2 DEF SafeInv, TeardownSafe
    <3> QED BY <3>1, <3>2, <3>3, FoundNoneStays
  <2> QED BY <2>2, <2>3
<1>3. \A u \in Threads : Concluded(u)' => \A m \in Nodes : Kept(m)' \/ Tried(m)' => ~(stamp'[m] < stamp'[item'[u]])
  <2>1. SUFFICES ASSUME NEW u \in Threads, Concluded(u)'
                 PROVE  \A m \in Nodes : Kept(m)' \/ Tried(m)' => ~(stamp'[m] < stamp'[item'[u]])
    OBVIOUS
  <2>2. item'[u] = item[u] /\ NoneBefore(item[u])
    <3>1. CASE u = t
      BY <2>1, <3>1, Conclusion
    <3>2. CASE u # t
      <4>1. Still(u)
        BY <1>1, <3>2
      <4>2. Concluded(u) /\ item'[u] = item[u]
        BY <2>1, <4>1 DEF Still, Concluded, StrongStatus
      <4> QED BY <4>2, Concludes
    <3> QED BY <3>1, <3>2
  <2> QED BY <1>1, <2>2, NoneBeforeStays
<1>4. \A n \in Nodes : mem'[n] = "live" /\ strong'[n] = STRONG_DROPPED
        => \A m \in Nodes : Kept(m)' \/ Tried(m)' => ~(stamp'[m] < stamp'[n])
  <2>1. SUFFICES ASSUME NEW n \in Nodes, mem'[n] = "live", strong'[n] = STRONG_DROPPED
                 PROVE  Published(n) /\ NoneBefore(n)
    BY NoneBeforeStays
  <2>2. CASE strong[n] = STRONG_DROPPED
    <3>1. Live(n)
      <4>1. MemMoves(t, n)
        BY AllMoves DEF Moves
      <4>2. mem[n] = "private" => strong[n] = 1
        BY DEF SafeInv, PrivateFresh
      <4> QED BY <1>1, <2>1, <2>2, <4>1, <4>2 DEF MemMoves, STRONG_DROPPED, Live
    <3> QED BY <2>2, <3>1 DEF SafeInv, TeardownSafe, Listed
  <2>3. CASE strong[n] # STRONG_DROPPED
    <3>1. ClaimTeardown(t) /\ n = item[t]
      BY <2>1, <2>3, SentinelKept
    <3>2. Concluded(t)
      BY <3>1 DEF ClaimTeardown, Concluded
    <3> QED BY <1>1, <3>1, <3>2, Concludes
  <2> QED BY <2>2, <2>3
<1>5. \A u \in Threads : pd'[u].ret = "dw_cas" => strong'[pd'[u].tgt] = STRONG_DROPPED
  BY ClaimedFirst
<1>6. \A u \in Threads : pc'[u] \in {"upg_incw", "upg_cas", "upg_race"} => op'[u].cs # STRONG_DROPPED
  BY UpgradesAlive
<1>7. \A u \in Threads :
       \/ pc'[u] \in Freeing \cup {"jan_unlock"} /\ StrongStatus(jn[u])' = "NoStrongRefsExist"
       \/ pc'[u] \in {"dw_weak", "dw_next"} /\ jn'[u].status = "NoStrongRefsExist"
       \/ pc'[u] = "dw_claim"
       => Concluded(u)'
  BY DEF Concluded
<1>8. (\A u \in Threads :
       \/ pc[u] \in Freeing \cup {"jan_unlock"} /\ StrongStatus(jn[u]) = "NoStrongRefsExist"
       \/ pc[u] \in {"dw_weak", "dw_next"} /\ jn[u].status = "NoStrongRefsExist"
       \/ pc[u] = "dw_claim"
       => NoneBefore(item[u]))'
  BY <1>3, <1>7 DEF NoneBefore, Before
<1>9. (\A n \in Nodes : Live(n) /\ strong[n] = STRONG_DROPPED => NoneBefore(n))'
  BY <1>4 DEF NoneBefore, Before, Live
<1> QED BY <1>2, <1>5, <1>6, <1>8, <1>9 DEF TeardownSafe

-----------------------------------------------------------------------------
(* What do_drop_weak learns from the weak word: that it is the last user,  *)
(* of the last node, is true when it takes the count to 0 and stays true.  *)

\* A weak word with a single count and no flag is that of the last node, of its last user.
LEMMA SoleHolder ==
  ASSUME SafeInv, NEW t \in Threads, pc[t] = "dw_cas", weak[item[t]].count = 1,
         ~weak[item[t]].haveNext, ~weak[item[t]].havePrev
  PROVE  /\ item[t] \in Nodes /\ Live(item[t]) /\ ~HasNext(item[t])
         /\ \A n \in Nodes : Live(n) => n = item[t]
<1> DEFINE i == item[t]
<1>1. /\ OrderInv /\ Listed /\ Flagged /\ WeakExact /\ HeldLive(t) /\ i \in Nodes /\ i # Null /\ ListInv
      /\ stamp \in [Nodes -> Nat] /\ UsizeMax \in Nat
  BY ListParts, NodesTyped DEF SafeInv
<1>2. WeakOnItem(t)
  BY DEF WeakOnItem, At
<1>3. Live(i)
  BY <1>1, <1>2 DEF HeldLive
<1>4. \A x \in WeakHolders(i) : x = <<"item", t>>
  <2>1. Cardinality(WeakHolders(i)) = 1
    BY <1>1, <1>3 DEF WeakExact
  <2>2. <<"item", t>> \in WeakHolders(i)
    BY <1>2 DEF WeakHolders
  <2>3. IsFiniteSet(WeakHolders(i))
    BY <1>1, HoldersOf
  <2> HIDE DEF i
  <2> QED BY <2>1, <2>2, <2>3, OnlyOne
<1>5. ~(LiveStrong(strong[i]) > 0)
  <2>1. SUFFICES ASSUME LiveStrong(strong[i]) > 0 PROVE FALSE
    OBVIOUS
  <2>2. <<"group", i>> \in WeakHolders(i)
    BY <2>1 DEF WeakHolders
  <2> QED BY <1>4, <2>2
<1>6. \A v \in Threads : StrongOnItem(v) => item[v] # i
  <2>1. SUFFICES ASSUME NEW v \in Threads, StrongOnItem(v), item[v] = i PROVE FALSE
    OBVIOUS
  <2>2. strong[i] \in 1..(UsizeMax - 2)
    BY <2>1, RoomAll DEF Room
  <2> QED BY <1>1, <1>5, <2>2 DEF LiveStrong, STRONG_DROPPED
<1>7. \A v \in Threads \ {t} : WeakOnItem(v) => item[v] # i
  <2>1. SUFFICES ASSUME NEW v \in Threads \ {t}, WeakOnItem(v), item[v] = i PROVE FALSE
    OBVIOUS
  <2>2. <<"item", v>> \in WeakHolders(i)
    BY <2>1 DEF WeakHolders
  <2> QED BY <1>4, <2>2
<1>8. ~HasNext(i)
  <2>1. \A v \in Threads : pc[v] = "upd_mark" => StrongOnItem(v)
    BY DEF StrongOnItem, At
  <2> QED BY <1>1, <1>3, <1>6, <2>1 DEF Flagged
<1>9. \A v \in Threads : ~(Gap(v) /\ jn[v].right = i)
  <2>1. SUFFICES ASSUME NEW v \in Threads, Gap(v), jn[v].right = i PROVE FALSE
    OBVIOUS
  <2>2. /\ JanitorKnows(v) /\ item[v] \in Nodes /\ Shape(v)
        /\ pc[v] \in Janitoring => Live(item[v]) /\ jn[v].ret \in {"dw_weak", "upd_done", "get_done"}
    BY <1>1, JanitorFacts
  <2>3. pc[v] \in Janitoring /\ pc[v] # "dw_cas"
    BY <2>1 DEF Gap, Janitoring
  <2>4. ~Before(item[v], i)
    BY <2>1, <2>2 DEF Gap, JanitorKnows, Freeing
  <2>5. item[v] = i
    BY <1>1, <1>3, <1>8, <2>2, <2>3, <2>4, NewestIsLast, Line
  <2>6. WeakOnItem(v) \/ StrongOnItem(v)
    BY <2>2, <2>3 DEF WeakOnItem, StrongOnItem, At
  <2> QED BY <1>6, <1>7, <2>3, <2>5, <2>6
<1>10. Adjacent(i, Null)
  <2>1. Adjacent(i, prev[i])
    BY <1>1, <1>3, <1>9 DEF Listed
  <2>2. \A v \in Threads : pc[v] = "jan_unlink" => Gap(v)
    BY DEF Gap
  <2>3. prev[i] = Null
    BY <1>1, <1>3, <1>9, <2>2 DEF Flagged
  <2> QED BY <2>1, <2>3
<1>11. ASSUME NEW n \in Nodes, Live(n) PROVE n = i
  <2>1. ~Before(n, i)
    BY <1>10, <1>11 DEF Adjacent
  <2>2. ~Before(i, n)
    BY <1>1, <1>3, <1>8, NewestIsLast
  <2> QED BY <1>1, <1>3, <1>11, <2>1, <2>2, Line
<1> QED BY <1>1, <1>3, <1>8, <1>11

\* A call that frees the last node is the only one that is not done.
LEMMA LastUser ==
  ASSUME SafeInv, NEW t \in Threads, AnyStep(t), ~DropWeakFree(t), NEW u \in Threads, pc'[u] = "dw_free"
  PROVE  /\ \A n \in Nodes : mem'[n] = "live" => n = item'[u]
         /\ next'[item'[u]].ptr = Null /\ weak'[item'[u]].count = 0
         /\ \A v \in Threads : pc'[v] = "dw_free" => v = u
<1>1. /\ OrderInv /\ TypeOK /\ Came(t) /\ WordKnown(u) /\ \A v \in Threads \ {t} : Still(v)
      /\ weak \in [Nodes -> WeakWords]
  BY StepFacts, Arrivals, NodesTyped DEF SafeInv, OrderInv
<1>2. CASE u # t
  <2>1. Still(u) /\ pc[u] = "dw_free"
    BY <1>1, <1>2 DEF Still
  <2>2. Return(t)
    BY <1>2, <2>1, AloneStep
  <2>3. mem' = mem /\ next' = next /\ weak' = weak /\ item'[u] = item[u] /\ pc'[t] = "idle"
    BY <1>1, <2>1, <2>2 DEF Return, heap, Goto, TypeOK, Still
  <2>4. \A v \in Threads : pc'[v] = "dw_free" => pc[v] = "dw_free"
    BY <1>1, <2>3 DEF Still
  <2> QED BY <1>1, <2>1, <2>3, <2>4 DEF WordKnown, HasNext, Live
<1>3. CASE u = t
  <2>1. pc[t] = "dw_cas"
    BY <1>1, <1>3 DEF Came
  <2>2. DropWeakCas(t) /\ dr[t].ret \in {"idle", "ret", "sg_dec"}
    BY <1>1, <2>1, StepAt DEF TypeOK, DropFrames
  <2>3. /\ SameWeakWord(item[t], dr[t].ww) /\ SoleUser(dr[t].ww) /\ SubWeak(item[t]) /\ item' = item
        /\ next' = next /\ mem' = mem
    BY <1>1, <1>3, <2>2, DropWeakCasEffect DEF Starts, OnlyWeak
  <2>4. /\ item[t] \in Nodes /\ Live(item[t]) /\ ~HasNext(item[t])
        /\ \A n \in Nodes : Live(n) => n = item[t]
        /\ weak[item[t]].count = 1
    <3>1. ~dr[t].ww.haveNext
      BY <2>1 DEF SafeInv, WordKnown
    <3>2. weak[item[t]].count = 1 /\ ~weak[item[t]].haveNext /\ ~weak[item[t]].havePrev
      BY <2>3, <3>1 DEF SameWeakWord, SoleUser
    <3> QED BY <2>1, <3>2, SoleHolder
  <2>5. weak'[item[t]].count = 0
    BY <1>1, <2>3, <2>4 DEF SubWeak, WeakWords
  <2>6. \A v \in Threads : pc'[v] = "dw_free" => v = t
    <3>1. SUFFICES ASSUME NEW v \in Threads \ {t}, pc'[v] = "dw_free" PROVE FALSE
      OBVIOUS
    <3>2. pc[v] = "dw_free"
      BY <1>1, <3>1 DEF Still
    <3>3. Return(t)
      BY <3>2, AloneStep
    <3> QED BY <2>1, <3>3 DEF Return
  <2> QED BY <1>3, <2>3, <2>4, <2>5, <2>6 DEF HasNext, Live
<1> QED BY <1>2, <1>3

(* Every step keeps what is known of a weak word between its load and the  *)
(* compare-and-swap.                                                       *)
LEMMA WordsKept ==
  ASSUME SafeInv, NEW t \in Threads, AnyStep(t), ~DropWeakFree(t), NEW u \in Threads
  PROVE  WordKnown(u)'
<1>1. /\ OrderInv /\ TypeOK /\ OrderInv' /\ Came(t) /\ WordKnown(u) /\ Grows /\ \A v \in Threads \ {t} : Still(v)
      /\ item[u] \in Nodes
  BY StepFacts, Arrivals, NodesTyped DEF SafeInv, OrderInv
<1>2. ASSUME pc'[u] = "dw_next", dr'[u].ww.haveNext PROVE next'[item'[u]].ptr # Null
  <2>1. CASE u # t
    BY <1>1, <1>2, <2>1 DEF Still, WordKnown, Grows, HasNext
  <2>2. CASE u = t
    <3>1. pc[t] = "dw_weak"
      BY <1>1, <1>2, <2>2 DEF Came
    <3>2. DropWeakLoad(t)
      BY <3>1, StepAt
    <3>3. item' = item /\ dr'[t] = [dr[t] EXCEPT !.ww = weak[item[t]]] /\ next' = next
      BY <1>1, <1>2, <2>2, <3>2, DropWeakLoadEffect DEF Starts, ReadOnly, heap
    <3>4. dr'[t].ww = weak[item[t]]
      BY <1>1, <3>3 DEF TypeOK, DropFrames
    <3>5. Live(item[t])
      BY <3>1 DEF SafeInv, HeldLive, WeakOnItem, At
    <3>6. HasNext(item[t])
      BY <1>1, <1>2, <2>2, <3>4, <3>5 DEF SafeInv, Flagged
    <3> QED BY <2>2, <3>3, <3>6 DEF HasNext
  <2> QED BY <2>1, <2>2
<1>3. ASSUME pc'[u] \in {"dw_claim", "dw_cas"} \/ pd'[u].ret = "dw_cas" PROVE ~dr'[u].ww.haveNext
  <2>1. CASE u # t
    BY <1>1, <1>3, <2>1 DEF Still, WordKnown
  <2>2. CASE u = t
    <3>1. CASE pc[t] = "dw_next"
      <4>1. DropWeakNext(t) /\ ~HasNext(item[t])
        <5>1. DropWeakNext(t)
          BY <3>1, StepAt
        <5>2. pd[t].ret = "idle"
          BY <1>1, <3>1 DEF OrderInv, Local, Knows, Frames
        <5> QED BY <1>1, <1>3, <2>2, <5>1, <5>2, DropWeakNextEffect DEF Starts
      <4>2. dr' = dr
        BY <1>1, <4>1, DropWeakNextEffect
      <4> QED BY <1>1, <2>2, <3>1, <4>1, <4>2 DEF WordKnown
    <3>2. CASE pc[t] = "dw_claim"
      <4>1. dr' = dr
        BY <3>2, StepAt DEF ClaimTeardown
      <4> QED BY <1>1, <2>2, <3>2, <4>1 DEF WordKnown
    <3>3. CASE pc[t] \in {"pay_mark", "pay_drop"}
      <4>1. PayloadMark(t) \/ PayloadDrop(t)
        BY <3>3, StepAt
      <4>2. dr' = dr /\ (pd'[t] = pd[t] \/ pd'[t].ret = "idle") /\ pc'[t] \in {"pay_drop", pd[t].ret}
        BY <1>1, <4>1 DEF PayloadMark, PayloadDrop, Goto, TypeOK, IdlePayload
      <4>3. pd[t].ret = "dw_cas"
        BY <1>1, <1>3, <2>2, <4>2 DEF TypeOK, PayloadFrames
      <4> QED BY <1>1, <2>2, <4>2, <4>3 DEF WordKnown
    <3>4. CASE pc[t] \notin {"dw_next", "dw_claim", "pay_mark", "pay_drop"}
      <4>1. pc'[t] \notin {"dw_claim", "dw_cas"}
        BY <1>1, <3>4 DEF Came
      <4>2. pd'[t].ret = "dw_cas"
        BY <1>3, <2>2, <4>1
      <4>3. pc'[t] \in Dropping
        BY <1>1, <4>2 DEF OrderInv, Local, Knows, Frames
      <4>4. pc[t] \in {"advs_a_dec", "upd_dec"}
        BY <1>1, <3>4, <4>3 DEF Came
      <4>5. pd[t].ret = "idle"
        BY <1>1, <3>4 DEF OrderInv, Local, Knows, Frames
      <4>6. pd'[t] = pd[t] \/ pd'[t].ret \in {"advs_a_decw", "upd_decw"}
        <5>1. StrongLeaveStart(t) \/ UpdateDec(t)
          BY <4>4, StepAt
        <5> QED BY <1>1, <5>1 DEF StrongLeaveStart, UpdateDec, StartPayloadDrop, TypeOK
      <4> QED BY <4>2, <4>5, <4>6
    <3> QED BY <3>1, <3>2, <3>3, <3>4
  <2> QED BY <2>1, <2>2
<1>4. pc'[u] = "dw_free" =>
        /\ \A n \in Nodes : mem'[n] = "live" => n = item'[u]
        /\ next'[item'[u]].ptr = Null /\ weak'[item'[u]].count = 0
        /\ \A v \in Threads : pc'[v] = "dw_free" => v = u
  BY LastUser
<1> QED BY <1>2, <1>3, <1>4 DEF WordKnown, HasNext, Live

-----------------------------------------------------------------------------
(* A payload is dropped once, and only where nobody can come for it any    *)
(* more.                                                                   *)

\* A call that drops a payload holds a weak reference to the node meanwhile.
LEMMA DroppingHeld ==
  ASSUME SafeInv, NEW u \in Threads, pc[u] \in Dropping
  PROVE  /\ pd[u].tgt \in Nodes /\ Live(pd[u].tgt)
         /\ \/ WeakOnStart(u) /\ pd[u].tgt = av[u].start
            \/ WeakOnItem(u) /\ pd[u].tgt = item[u]
<1>1. /\ OrderInv /\ TypeOK /\ Shape(u) /\ HeldLive(u) /\ pd[u].tgt \in Nodes
  BY NodesTyped DEF SafeInv, OrderInv
<1>2. pd[u].ret \in {"advs_a_decw", "dw_cas", "upd_decw"}
  BY <1>1 DEF Shape, TypeOK, PayloadFrames
<1>3. \/ WeakOnStart(u) /\ pd[u].tgt = av[u].start
      \/ WeakOnItem(u) /\ pd[u].tgt = item[u]
  BY <1>1, <1>2 DEF Shape, WeakOnStart, WeakOnItem, At
<1> QED BY <1>1, <1>3 DEF HeldLive

\* What PayloadMark and PayloadDrop do to the payload and to the call.
LEMMA PayloadEffects ==
  ASSUME SafeInv, NEW t \in Threads, AnyStep(t)
  PROVE  /\ pc'[t] = "pay_drop" => /\ pc[t] = "pay_mark" /\ pd'[t] = pd[t] /\ ~next[pd[t].tgt].dropped
                                   /\ next'[pd[t].tgt].dropped
         /\ pc[t] = "pay_drop" => /\ drops'[pd[t].tgt] = drops[pd[t].tgt] + 1 /\ pc'[t] # "pay_drop"
<1>1. /\ TypeOK /\ Came(t) /\ Shape(t) /\ pd[t].tgt \in Nodes /\ pd[t].ret # "pay_drop"
  BY Arrivals, NodesTyped DEF SafeInv, OrderInv, TypeOK, PayloadFrames
<1>2. ASSUME pc'[t] = "pay_drop"
      PROVE  pc[t] = "pay_mark" /\ pd'[t] = pd[t] /\ ~next[pd[t].tgt].dropped /\ next'[pd[t].tgt].dropped
  <2>1. pc[t] = "pay_mark"
    BY <1>1, <1>2 DEF Came
  <2>2. PayloadMark(t)
    BY <2>1, StepAt
  <2>3. MayDropPayload(pd[t].tgt, pd[t].override) /\ next' = [next EXCEPT ![pd[t].tgt].dropped = TRUE] /\ pd' = pd
    BY <1>1, <1>2, <2>2 DEF PayloadMark, Goto, TypeOK
  <2> QED BY <1>1, <2>1, <2>3 DEF MayDropPayload, TypeOK, NextWords
<1>3. ASSUME pc[t] = "pay_drop"
      PROVE  drops'[pd[t].tgt] = drops[pd[t].tgt] + 1 /\ pc'[t] # "pay_drop"
  <2>1. PayloadDrop(t)
    BY <1>3, StepAt
  <2> QED BY <1>1, <2>1 DEF PayloadDrop, DropPayload, Goto, TypeOK
<1> QED BY <1>2, <1>3

\* Who drops a payload after a step was about to drop it before, or has just marked it.
LEMMA DroppersStay ==
  ASSUME SafeInv, NEW t \in Threads, AnyStep(t), NEW u \in Threads, pc'[u] = "pay_drop"
  PROVE  /\ pd'[u] = pd[u] /\ pd[u].tgt \in Nodes /\ next'[pd[u].tgt].dropped
         /\ u = t => pc[u] = "pay_mark" /\ ~next[pd[u].tgt].dropped
         /\ u # t => pc[u] = "pay_drop" /\ next[pd[u].tgt].dropped
<1>1. pd[u].tgt \in Nodes /\ (u # t => Still(u)) /\ DroppedMoves(t, pd[u].tgt)
  <2>1. pd[u].tgt \in Nodes
    BY NodesTyped DEF SafeInv
  <2> QED BY <2>1, StepFacts DEF Moves
<1>2. CASE u = t
  BY <1>1, <1>2, PayloadEffects
<1>3. CASE u # t
  <2>1. pc[u] = "pay_drop" /\ pd'[u] = pd[u]
    BY <1>1, <1>3 DEF Still
  <2>2. next[pd[u].tgt].dropped
    BY <2>1 DEF SafeInv, PayloadsSafe
  <2> QED BY <1>1, <1>3, <2>1, <2>2 DEF DroppedMoves
<1> QED BY <1>2, <1>3

\* t drops the payload of n with its next step
DropsNow(t, n) == pc[t] = "pay_drop" /\ pd[t].tgt = n

\* A live node was live before, or it has just been linked and has its payload.
LEMMA LiveFrom ==
  ASSUME SafeInv, NEW t \in Threads, AnyStep(t), NEW n \in Nodes, mem'[n] = "live"
  PROVE  \/ Live(n)
         \/ /\ mem[n] = "private" /\ UpdateCas(t) /\ CanLink(item[t], op[t].nw) /\ n = op[t].val
            /\ next[n] = NullNext /\ next'[n] = next[n] /\ drops[n] = 0 /\ drops'[n] = 0
<1>1. Moves(t, n) /\ PrivateFresh
  BY StepFacts DEF SafeInv
<1>2. CASE Live(n)
  BY <1>2
<1>3. CASE ~Live(n)
  <2>1. mem[n] = "private" /\ UpdateCas(t) /\ CanLink(item[t], op[t].nw) /\ n = op[t].val
    BY <1>1, <1>3 DEF Moves, MemMoves, Live
  <2>2. next'[n] = next[n] /\ drops'[n] = drops[n]
    BY <1>1, <1>3, <2>1 DEF Moves, DroppedMoves, DropsMoves
  <2> QED BY <1>1, <2>1, <2>2 DEF PrivateFresh
<1> QED BY <1>2, <1>3

\* The payload of a live node is dropped when it was marked and the call that marked it has gone on.
LEMMA DropsKept ==
  ASSUME SafeInv, NEW t \in Threads, AnyStep(t), NEW n \in Nodes, mem'[n] = "live"
  PROVE  /\ ~next'[n].dropped => drops'[n] = 0
         /\ next'[n].dropped => drops'[n] = IF \E u \in Threads : pc'[u] = "pay_drop" /\ pd'[u].tgt = n THEN 0 ELSE 1
<1>1. /\ Moves(t, n) /\ PayloadsSafe /\ \A u \in Threads \ {t} : Still(u)
  BY StepFacts DEF SafeInv
<1>2. CASE ~Live(n)
  <2>1. next'[n] = NullNext /\ drops'[n] = 0
    BY <1>2, LiveFrom
  <2> QED BY <2>1 DEF NullNext
<1>3. CASE Live(n) /\ ~next'[n].dropped
  <2>1. ~next[n].dropped
    BY <1>1, <1>3 DEF Moves, DroppedMoves
  <2>2. drops[n] = 0
    BY <1>1, <1>3, <2>1 DEF PayloadsSafe
  <2>3. ~(PayloadDrop(t) /\ n = pd[t].tgt)
    <3>1. pc[t] = "pay_drop" => next[pd[t].tgt].dropped
      BY <1>1 DEF PayloadsSafe
    <3> QED BY <2>1, <3>1 DEF PayloadDrop
  <2>4. drops'[n] = drops[n]
    BY <1>1, <2>3 DEF Moves, DropsMoves
  <2> QED BY <1>3, <2>2, <2>4
<1>4. CASE Live(n) /\ next'[n].dropped /\ ~next[n].dropped
  <2>1. PayloadMark(t) /\ MayDropPayload(pd[t].tgt, pd[t].override) /\ n = pd[t].tgt
    BY <1>1, <1>4 DEF Moves, DroppedMoves
  <2>2. pc'[t] = "pay_drop" /\ pd'[t] = pd[t]
    <3>1. TypeOK
      BY DEF SafeInv, OrderInv
    <3> QED BY <2>1, <3>1 DEF PayloadMark, Goto, TypeOK
  <2>3. drops[n] = 0
    BY <1>1, <1>4 DEF PayloadsSafe
  <2>4. drops'[n] = drops[n]
    BY <1>1, <2>1 DEF Moves, DropsMoves, PayloadMark, PayloadDrop
  <2> QED BY <1>4, <2>1, <2>2, <2>3, <2>4
<1>5. CASE Live(n) /\ next'[n].dropped /\ next[n].dropped
  <2>1. drops[n] = IF \E u \in Threads : DropsNow(u, n) THEN 0 ELSE 1
    BY <1>1, <1>5 DEF PayloadsSafe, DropsNow
  <2>2. \A u \in Threads : pc'[u] = "pay_drop" /\ pd'[u].tgt = n <=> u # t /\ DropsNow(u, n)
    <3>1. ASSUME NEW u \in Threads PROVE pc'[u] = "pay_drop" /\ pd'[u].tgt = n <=> u # t /\ DropsNow(u, n)
      <4>1. CASE u # t
        BY <1>1, <4>1 DEF Still, DropsNow
      <4>2. CASE u = t
        BY <1>5, <4>2, PayloadEffects
      <4> QED BY <4>1, <4>2
    <3> QED BY <3>1
  <2>3. CASE DropsNow(t, n)
    <3>1. drops'[n] = drops[n] + 1 /\ drops[n] = 0
      BY <2>1, <2>3, PayloadEffects DEF DropsNow
    <3>2. \A u \in Threads : DropsNow(u, n) => u = t
      BY <1>1, <2>3 DEF PayloadsSafe, DropsNow
    <3> QED BY <1>5, <2>2, <3>1, <3>2
  <2>4. CASE ~DropsNow(t, n)
    <3>1. drops'[n] = drops[n]
      BY <1>1, <2>4 DEF Moves, DropsMoves, PayloadDrop, DropsNow
    <3>2. (\E u \in Threads : pc'[u] = "pay_drop" /\ pd'[u].tgt = n) <=> \E u \in Threads : DropsNow(u, n)
      BY <2>2, <2>4
    <3> QED BY <1>5, <2>1, <3>1, <3>2
  <2> QED BY <2>3, <2>4
<1> QED BY <1>2, <1>3, <1>4, <1>5

\* A payload goes with its node at the latest, and has not gone twice.
LEMMA FreedOnce ==
  ASSUME SafeInv, NEW t \in Threads, AnyStep(t), ~DropWeakFree(t), NEW n \in Nodes, mem'[n] = "freed"
  PROVE  drops'[n] = 1
<1>1. /\ Moves(t, n) /\ PayloadsSafe /\ PrivateFresh
  BY StepFacts DEF SafeInv
<1>2. CASE mem[n] = "freed"
  BY <1>1, <1>2 DEF Moves, DropsMoves, PayloadsSafe, Live
<1>3. CASE mem[n] = "private"
  BY <1>1, <1>3 DEF Moves, MemMoves, Live, PrivateFresh
<1>4. CASE Live(n)
  <2>1. JanitorFree(t) /\ n = jn[t].del /\ drops'[n] = IF next[n].dropped THEN drops[n] ELSE drops[n] + 1
    BY <1>1, <1>4 DEF Moves, MemMoves, Live
  <2>2. pc[t] = "jan_free"
    BY <2>1 DEF JanitorFree, Janitor
  <2>3. ~\E u \in Threads : pc[u] = "pay_drop" /\ pd[u].tgt = n
    <3>1. SUFFICES ASSUME NEW u \in Threads, pc[u] = "pay_drop", pd[u].tgt = n PROVE FALSE
      OBVIOUS
    <3>2. Spurns(u, n)
      BY <2>1, <2>2, OnlyLink
    <3> QED BY <3>1, <3>2, DroppingHeld DEF Spurns
  <2>4. next[n].dropped => drops[n] = 1
    BY <1>1, <1>4, <2>3 DEF PayloadsSafe
  <2>5. ~next[n].dropped => drops[n] = 0
    BY <1>1, <1>4 DEF PayloadsSafe
  <2> QED BY <2>1, <2>4, <2>5
<1> QED BY <1>1, <1>2, <1>3, <1>4 DEF Moves, MemMoves

\* Nobody has a strong reference where the count says so, after a step.
LEMMA UnkeptAfter ==
  ASSUME SafeInv, NEW t \in Threads, AnyStep(t), NEW n \in Nodes, mem'[n] = "live", strong'[n] \in {0, STRONG_DROPPED}
  PROVE  ~Kept(n)'
<1>1. Cardinality(StrongHolders(n)') = 0
  <2>1. StrongExact'
    BY StrongKept
  <2>2. LiveStrong(strong[n])' = Cardinality(StrongHolders(n)')
    BY <2>1 DEF StrongExact, Live
  <2> QED BY <2>2 DEF LiveStrong
<1>2. StrongHolders(n)' = {}
  <2> DEFINE S == StrongHolders(n)'
  <2>1. S \in SUBSET Holders
    BY DEF StrongHolders, Holders
  <2>2. Cardinality(S) = 0
    BY <1>1
  <2> HIDE DEF S
  <2>3. IsFiniteSet(S)
    BY <2>1, HoldersFinite, FS_Subset
  <2>4. S = {}
    BY <2>2, <2>3, FS_EmptySet
  <2> QED BY <2>4 DEF S
<1>3. handle' \in [Handles -> HandleStates]
  BY StepFacts DEF TypeOK
<1>4. \A h \in Handles : ~(handle'[h].kind = "strong" /\ handle'[h].node = n)
  <2>1. SUFFICES ASSUME NEW h \in Handles, handle'[h].kind = "strong", handle'[h].node = n PROVE FALSE
    OBVIOUS
  <2>2. handle'[h] = [kind |-> "strong", node |-> n]
    BY <1>3, <2>1 DEF HandleStates
  <2>3. <<"handle", h>> \in StrongHolders(n)'
    BY <2>2 DEF StrongHolders
  <2> QED BY <1>2, <2>3
<1>5. \A u \in Threads : ~(StrongOnStart(u)' /\ av'[u].start = n)
  BY <1>2 DEF StrongHolders
<1>6. \A u \in Threads : ~(StrongOnItem(u)' /\ item'[u] = n)
  BY <1>2 DEF StrongHolders
<1>7. \A u \in Threads : ~(StrongOnNew(u)' /\ op'[u].val = n)
  BY <1>2 DEF StrongHolders
<1>8. \A u \in Threads : ~(pc'[u] \in {"sg_recheck", "sg_light"} /\ op'[u].nxt = n)
  <2>1. SUFFICES ASSUME NEW u \in Threads, pc'[u] \in {"sg_recheck", "sg_light"}, op'[u].nxt = n PROVE FALSE
    OBVIOUS
  <2>2. <<"nxt", u>> \in StrongHolders(n)'
    BY <2>1 DEF StrongHolders
  <2> QED BY <1>2, <2>2
<1> QED BY <1>4, <1>5, <1>6, <1>7, <1>8 DEF Kept, Keeps

\* A call turns to a payload when it has taken back the last strong reference.
LEMMA ReleasedBy ==
  ASSUME SafeInv, NEW t \in Threads, AnyStep(t), pc'[t] = "pay_mark"
  PROVE  LET n == pd'[t].tgt
         IN n \in Nodes /\ Live(n) /\ ((HasNext(n) /\ strong'[n] = 0) \/ strong'[n] = STRONG_DROPPED)
<1>1. /\ OrderInv /\ TypeOK /\ TypeOK' /\ Came(t) /\ Shape(t) /\ Shape(t)' /\ Places(t) /\ HeldLive(t)
      /\ \A n \in Nodes : strong[n] = 1 => Dec(strong[n]) = 0
  BY StepFacts, Arrivals, HeapAssumption DEF SafeInv, OrderInv, Dec
<1>2. pc[t] \in {"advs_a_dec", "dw_claim", "upd_dec"}
  BY <1>1 DEF Came
<1>3. CASE pc[t] = "advs_a_dec"
  <2>1. StrongLeaveStart(t) /\ av[t].start \in Nodes /\ Live(av[t].start) /\ item[t] \in Nodes
    BY <1>1, <1>3, StepAt, NodesTyped DEF HeldLive, StrongOnStart
  <2>2. pc'[t] = "pay_mark" => av[t].ret # "pay_mark"
    BY <1>1 DEF TypeOK, AdvanceFrames
  <2>3. LastStrong(av[t].start) /\ SubStrong(av[t].start) /\ pd'[t].tgt = av[t].start
    BY <1>1, <2>1, <2>2 DEF StrongLeaveStart, ReturnAdvance, StartPayloadDrop, Goto, TypeOK
  <2>4. strong'[av[t].start] = 0
    BY <1>1, <2>1, <2>3 DEF SubStrong, LastStrong, TypeOK
  <2>5. HasNext(av[t].start)
    <3>1. Before(av[t].start, item[t]) /\ Live(item[t])
      <4>1. StrongOnItem(t)
        BY <1>3 DEF StrongOnItem
      <4> QED BY <1>1, <1>3, <4>1 DEF Places, HeldLive
    <3>2. Listed
      BY DEF SafeInv
    <3> QED BY <1>1, <2>1, <3>1, <3>2, Line
  <2> QED BY <2>1, <2>3, <2>4, <2>5
<1>4. CASE pc[t] = "upd_dec"
  <2>1. UpdateDec(t) /\ item[t] \in Nodes /\ Live(item[t])
    BY <1>1, <1>4, StepAt, NodesTyped DEF HeldLive, StrongOnItem, At
  <2>2. LastStrong(item[t]) /\ SubStrong(item[t]) /\ pd'[t].tgt = item[t]
    BY <1>1, <2>1 DEF UpdateDec, StartPayloadDrop, Goto, TypeOK
  <2>3. strong'[item[t]] = 0
    BY <1>1, <2>1, <2>2 DEF SubStrong, LastStrong, TypeOK
  <2>4. HasNext(item[t])
    BY <1>1, <1>4 DEF Places
  <2> QED BY <2>1, <2>2, <2>3, <2>4
<1>5. CASE pc[t] = "dw_claim"
  <2>1. ClaimTeardown(t) /\ item[t] \in Nodes /\ Live(item[t])
    BY <1>1, <1>5, StepAt, NodesTyped DEF HeldLive, WeakOnItem, At
  <2>2. strong' = [strong EXCEPT ![item[t]] = STRONG_DROPPED] /\ pd'[t].tgt = item[t]
    BY <1>1, <2>1 DEF ClaimTeardown, StartPayloadDrop, Goto, TypeOK
  <2>3. strong'[item[t]] = STRONG_DROPPED
    BY <1>1, <2>1, <2>2 DEF TypeOK
  <2> QED BY <2>1, <2>2, <2>3
<1> QED BY <1>2, <1>3, <1>4, <1>5

\* What was released before a step is out of reach after it.
LEMMA BeyondStays ==
  ASSUME SafeInv, NEW t \in Threads, AnyStep(t), ~DropWeakFree(t), NEW n \in Nodes, Live(n), Released(n), mem'[n] = "live"
  PROVE  (HasNext(n)' \/ strong'[n] = STRONG_DROPPED) /\ ~Kept(n)'
<1>1. Beyond(n) /\ Grows
  BY StepFacts DEF SafeInv, PayloadsSafe
<1>2. CASE HasNext(n)
  <2>1. ~Kept(n)'
    <3>1. SUFFICES ASSUME Kept(n)' PROVE FALSE
      OBVIOUS
    <3>2. UpdateCas(t) /\ CanLink(item[t], op[t].nw) /\ n = op[t].val
      BY <1>1, <1>2, <3>1, KeptFrom DEF Beyond
    <3>3. Links(t, item[t], n)
      BY <3>2, SafeParts, UpdateLinks
    <3> QED BY <3>3 DEF Links, Live
  <2> QED BY <1>1, <1>2, <2>1 DEF Grows
<1>3. CASE ~HasNext(n)
  <2>1. strong'[n] = STRONG_DROPPED
    BY <1>1, <1>3, SentinelKept DEF Beyond
  <2> QED BY <2>1, UnkeptAfter
<1> QED BY <1>2, <1>3

\* What a step releases is out of reach after it.
LEMMA BeyondKept ==
  ASSUME SafeInv, NEW t \in Threads, AnyStep(t), ~DropWeakFree(t), NEW n \in Nodes, mem'[n] = "live", Released(n)'
  PROVE  (HasNext(n)' \/ strong'[n] = STRONG_DROPPED) /\ ~Kept(n)'
<1>1. /\ Moves(t, n) /\ Came(t) /\ Grows /\ \A u \in Threads \ {t} : Still(u)
  BY StepFacts, Arrivals
<1>2. CASE Live(n) /\ Released(n)
  BY <1>2, BeyondStays
<1>3. CASE Live(n) /\ ~Released(n)
  <2>1. next'[n].dropped => next[n].dropped
    <3>1. PayloadMark(t) => pc[t] \in Dropping
      BY DEF PayloadMark
    <3> QED BY <1>1, <1>3, <3>1 DEF Moves, DroppedMoves, Released
  <2>2. PICK u \in Threads : pc'[u] \in Dropping /\ pd'[u].tgt = n
    BY <1>3, <2>1 DEF Released
  <2>3. u = t
    BY <1>1, <1>3, <2>2 DEF Still, Released
  <2>4. pc'[t] = "pay_mark"
    BY <1>3, <2>2, <2>3, PayloadEffects DEF Released
  <2>5. (HasNext(n) /\ strong'[n] = 0) \/ strong'[n] = STRONG_DROPPED
    BY <2>2, <2>3, <2>4, ReleasedBy
  <2> QED BY <1>1, <2>5, UnkeptAfter DEF Grows
<1>4. CASE ~Live(n)
  <2>1. UpdateCas(t) /\ CanLink(item[t], op[t].nw) /\ next'[n] = NullNext
    BY <1>4, LiveFrom
  <2>2. PICK u \in Threads : pc'[u] \in Dropping /\ pd'[u].tgt = n
    BY <2>1 DEF Released, NullNext
  <2>3. u # t
    BY <1>1, <2>1, <2>2 DEF Came, UpdateCas
  <2>4. pc[u] \in Dropping /\ pd[u].tgt = n
    BY <1>1, <2>2, <2>3 DEF Still
  <2> QED BY <1>4, <2>4, DroppingHeld
<1> QED BY <1>2, <1>3, <1>4

(* Every step keeps the agreement of the payload flags with the drops.     *)
LEMMA PayloadsKept ==
  ASSUME SafeInv, NEW t \in Threads, AnyStep(t), ~DropWeakFree(t)
  PROVE  PayloadsSafe'
<1>1. (\A n \in Nodes : Live(n) /\ Released(n) => Beyond(n))'
  <2>1. \A n \in Nodes : mem'[n] = "live" /\ Released(n)' => (HasNext(n)' \/ strong'[n] = STRONG_DROPPED) /\ ~Kept(n)'
    BY BeyondKept
  <2> QED BY <2>1 DEF Live, Beyond
<1>2. \A n \in Nodes : mem'[n] = "live" =>
        /\ ~next'[n].dropped => drops'[n] = 0
        /\ next'[n].dropped => drops'[n] = IF \E u \in Threads : pc'[u] = "pay_drop" /\ pd'[u].tgt = n THEN 0 ELSE 1
  BY DropsKept
<1>3. \A n \in Nodes : mem'[n] = "freed" => drops'[n] = 1
  BY FreedOnce
<1>4. ASSUME NEW u \in Threads, NEW v \in Threads, pc'[u] = "pay_drop", pc'[v] = "pay_drop", pd'[u].tgt = pd'[v].tgt
      PROVE  u = v
  <2>1. /\ pd'[u] = pd[u] /\ (u = t => ~next[pd[u].tgt].dropped) /\ (u # t => pc[u] = "pay_drop" /\ next[pd[u].tgt].dropped)
    BY <1>4, DroppersStay
  <2>2. /\ pd'[v] = pd[v] /\ (v = t => ~next[pd[v].tgt].dropped) /\ (v # t => pc[v] = "pay_drop" /\ next[pd[v].tgt].dropped)
    BY <1>4, DroppersStay
  <2>3. PayloadsSafe
    BY DEF SafeInv
  <2>4. CASE u = t \/ v = t
    BY <1>4, <2>1, <2>2, <2>4
  <2>5. CASE u # t /\ v # t
    BY <1>4, <2>1, <2>2, <2>3, <2>5 DEF PayloadsSafe
  <2> QED BY <2>4, <2>5
<1>5. \A u \in Threads : pc'[u] = "pay_drop" => next'[pd'[u].tgt].dropped
  BY DroppersStay
<1> QED BY <1>1, <1>2, <1>3, <1>4, <1>5 DEF PayloadsSafe, Live

-----------------------------------------------------------------------------
(* The memory safety of the chain, for every number of threads, handles    *)
(* and nodes: SafeInv holds from the beginning and in every step, and what *)
(* it implies.                                                             *)

\* the holders <<x, s>> in the role x
Tagged(x, S) == {<<x, s>> : s \in S}

\* As many pairs as there are things to be paired.
LEMMA TaggedCount ==
  ASSUME NEW S, IsFiniteSet(S), NEW x
  PROVE  IsFiniteSet(Tagged(x, S)) /\ Cardinality(Tagged(x, S)) = Cardinality(S)
<1> DEFINE T == Tagged(x, S)
           f == [s \in S |-> <<x, s>>]
<1>1. f \in Bijection(S, T)
  BY DEF Tagged, Bijection, Injection, Surjection, IsInjective
<1>2. ExistsBijection(S, T)
  BY <1>1 DEF ExistsBijection
<1> QED BY <1>2, FS_Bijection

\* The program begins on a chain at rest.
LEMMA InitChain ==
  ASSUME Init
  PROVE  /\ InitLen \in Nat /\ InitLen >= 1 /\ InitLen <= MaxNodes /\ MaxNodes \in Nat
         /\ handle = InitHandle
         /\ \A n \in Nodes : /\ n \in Nat /\ n >= 1
                             /\ stamp[n] = IF n <= InitLen THEN n ELSE 0
                             /\ prev[n] = IF n <= InitLen THEN n - 1 ELSE 0
                             /\ mem[n] = IF n <= InitLen THEN "live" ELSE "unused"
                             /\ next[n] = [NullNext EXCEPT !.ptr = IF n < InitLen THEN n + 1 ELSE 0]
                             /\ next[n].ptr = (IF n < InitLen THEN n + 1 ELSE 0) /\ ~next[n].dropped
                             /\ strong[n] = InitRefs("strong", n)
                             /\ weak[n] = IF n > InitLen THEN NoWeak
                                          ELSE [count |-> InitRefs("weak", n) + IF n < InitLen THEN 2 ELSE 1,
                                                haveNext |-> n < InitLen, havePrev |-> n > 1]
                             /\ drops[n] = 0 /\ adv[n] = 0
         /\ \A t \in Threads : /\ pc[t] = "idle" /\ item[t] = IdleNode /\ av[t] = IdleAdvance /\ pd[t] = IdlePayload
                               /\ jn[t] = IdleJanitor /\ dr[t] = IdleDrop /\ op[t] = IdleOp
<1>1. MaxNodes \in Nat \ {0} /\ InitLen \in 1..MaxNodes /\ InitLen \in Nat
  BY HeapAssumption, ProgramAssumption DEF Nodes
<1>2. \A n \in Nodes : next[n] = [NullNext EXCEPT !.ptr = IF n < InitLen THEN n + 1 ELSE 0]
  BY DEF Init, Null
<1>3. \A n \in Nodes : next[n].ptr = (IF n < InitLen THEN n + 1 ELSE 0) /\ ~next[n].dropped
  BY <1>2 DEF NullNext
<1>4. \A n \in Nodes : /\ n \in Nat /\ n >= 1
                       /\ stamp[n] = IF n <= InitLen THEN n ELSE 0
                       /\ prev[n] = IF n <= InitLen THEN n - 1 ELSE 0
                       /\ mem[n] = IF n <= InitLen THEN "live" ELSE "unused"
  BY <1>1 DEF Init, Nodes, Null
<1>5. \A n \in Nodes : /\ strong[n] = InitRefs("strong", n)
                       /\ weak[n] = IF n > InitLen THEN NoWeak
                                    ELSE [count |-> InitRefs("weak", n) + IF n < InitLen THEN 2 ELSE 1,
                                          haveNext |-> n < InitLen, havePrev |-> n > 1]
                       /\ drops[n] = 0 /\ adv[n] = 0
  BY DEF Init
<1>6. handle = InitHandle
  BY DEF Init
<1>7. \A t \in Threads : /\ pc[t] = "idle" /\ item[t] = IdleNode /\ av[t] = IdleAdvance /\ pd[t] = IdlePayload
                         /\ jn[t] = IdleJanitor /\ dr[t] = IdleDrop /\ op[t] = IdleOp
  BY DEF Init
<1>8. InitLen \in Nat /\ InitLen >= 1 /\ InitLen <= MaxNodes /\ MaxNodes \in Nat
  BY <1>1
<1> QED BY <1>2, <1>3, <1>4, <1>5, <1>6, <1>7, <1>8

\* A call that is not running refers to nothing.
LEMMA IdleBare ==
  ASSUME NEW t \in Threads, pc[t] = "idle", pd[t] = IdlePayload, jn[t] = IdleJanitor, dr[t] = IdleDrop
  PROVE  /\ ~StrongOnStart(t) /\ ~StrongOnItem(t) /\ ~StrongOnNew(t) /\ ~WeakOnStart(t) /\ ~WeakOnItem(t)
         /\ ~WeakForGroup(t) /\ ~WeakOnGap(t) /\ ~Gap(t)
BY DEF StrongOnStart, StrongOnItem, StrongOnNew, WeakOnStart, WeakOnItem, WeakForGroup, WeakOnGap, Gap, At, Janitoring

\* The counts of the chain the program begins with are those of the handles.
LEMMA InitCounts ==
  ASSUME Init PROVE StrongExact /\ WeakExact
<1> DEFINE H(k, n) == {h \in Handles : handle[h] = [kind |-> k, node |-> n]}
<1>1. /\ InitLen \in Nat /\ InitLen >= 1 /\ handle = InitHandle
      /\ \A n \in Nodes : /\ n \in Nat /\ n >= 1
                          /\ prev[n] = IF n <= InitLen THEN n - 1 ELSE 0
                          /\ mem[n] = IF n <= InitLen THEN "live" ELSE "unused"
      /\ InitLen <= MaxNodes /\ MaxNodes \in Nat
  BY InitChain
<1>2. \A k, n : IsFiniteSet(H(k, n)) /\ Cardinality(H(k, n)) \in Nat /\ Cardinality(H(k, n)) <= Cardinality(Handles)
  BY HeapAssumption, FS_Subset, FS_CardinalityType
<1>r. \A n : InitRefs("strong", n) = Cardinality(H("strong", n)) /\ InitRefs("weak", n) = Cardinality(H("weak", n))
  BY <1>1 DEF InitRefs
<1>3. \A n \in Nodes : strong[n] = Cardinality(H("strong", n))
  <2> HIDE DEF H
  <2> QED BY <1>r, InitChain
<1>4. \A n \in Nodes : n <= InitLen => weak[n].count = Cardinality(H("weak", n)) + IF n < InitLen THEN 2 ELSE 1
  <2> HIDE DEF H
  <2> SUFFICES ASSUME NEW n \in Nodes, n <= InitLen
               PROVE  weak[n].count = Cardinality(H("weak", n)) + IF n < InitLen THEN 2 ELSE 1
    OBVIOUS
  <2>1. weak[n] = IF n > InitLen THEN NoWeak
                  ELSE [count |-> InitRefs("weak", n) + IF n < InitLen THEN 2 ELSE 1,
                        haveNext |-> n < InitLen, havePrev |-> n > 1]
    BY InitChain
  <2>2. weak[n] = [count |-> InitRefs("weak", n) + IF n < InitLen THEN 2 ELSE 1,
                   haveNext |-> n < InitLen, havePrev |-> n > 1]
    BY <1>1, <2>1
  <2>3. weak[n].count = InitRefs("weak", n) + IF n < InitLen THEN 2 ELSE 1
    BY <2>2
  <2> QED BY <1>r, <2>3
<1>5. ASSUME NEW t \in Threads
      PROVE  /\ pc[t] = "idle" /\ ~StrongOnStart(t) /\ ~StrongOnItem(t) /\ ~StrongOnNew(t) /\ ~WeakOnStart(t) /\ ~WeakOnItem(t)
             /\ ~WeakForGroup(t) /\ ~WeakOnGap(t)
  BY InitChain, IdleBare
<1>6. \A n \in Nodes : StrongHolders(n) = {<<"handle", h>> : h \in H("strong", n)}
  BY <1>5 DEF StrongHolders
<1>7. \A n \in Nodes : LiveStrong(strong[n]) = strong[n]
  <2>1. Cardinality(Handles) < UsizeMax
    <3>1. Cardinality(Handles) \in Nat /\ Cardinality(Threads) \in Nat
      BY HeapAssumption, FS_CardinalityType
    <3> QED BY <3>1, HeapAssumption
  <2>2. Cardinality(Handles) \in Nat /\ UsizeMax \in Nat
    BY HeapAssumption, FS_CardinalityType
  <2> HIDE DEF H
  <2> QED BY <1>2, <1>3, <2>1, <2>2 DEF LiveStrong, STRONG_DROPPED
<1>8. StrongExact
  <2>1. ASSUME NEW n \in Nodes PROVE LiveStrong(strong[n]) = Cardinality(StrongHolders(n))
    <3>1. StrongHolders(n) = Tagged("handle", H("strong", n))
      BY <1>6 DEF Tagged
    <3> HIDE DEF H
    <3>2. Cardinality(Tagged("handle", H("strong", n))) = Cardinality(H("strong", n))
      BY <1>2, TaggedCount
    <3> QED BY <1>3, <1>7, <3>1, <3>2
  <2> QED BY <2>1 DEF StrongExact
<1>9. ASSUME NEW n \in Nodes, Live(n) PROVE weak[n].count = Cardinality(WeakHolders(n))
  <2>1. n <= InitLen
    BY <1>1, <1>9 DEF Live
  <2> DEFINE A == {<<"handle", h>> : h \in H("weak", n)}
             L == {<<"link", m>> : m \in {m \in Nodes : mem[m] = "live" /\ prev[m] = n}}
             G == {<<"group", m>> : m \in {m \in {n} : LiveStrong(strong[m]) > 0}}
  <2>2. WeakHolders(n) = (A \cup {<<"group", n>>}) \cup L
    <3>1. LiveStrong(strong[n]) > 0
      <4>1. PICK h \in Handles : InitHandle[h] = [kind |-> "strong", node |-> n]
        BY <1>1, <2>1, ProgramAssumption
      <4>2. h \in H("strong", n)
        BY <1>1, <4>1
      <4>3. Cardinality(H("strong", n)) >= 1
        <5> HIDE DEF H
        <5> QED BY <1>2, <4>2, SomeCounted
      <4>4. Cardinality(H("strong", n)) \in Nat
        BY <1>2
      <4> QED BY <1>3, <1>7, <4>3, <4>4
    <3> QED BY <1>5, <3>1 DEF WeakHolders
  <2>3. IsFiniteSet(A) /\ Cardinality(A) = Cardinality(H("weak", n)) /\ Cardinality(A) \in Nat
    <3>1. A = Tagged("handle", H("weak", n))
      BY DEF Tagged
    <3> HIDE DEF A, H
    <3> QED BY <1>2, <3>1, TaggedCount
  <2>4. <<"group", n>> \notin A
    OBVIOUS
  <2>5. IsFiniteSet(A \cup {<<"group", n>>}) /\ Cardinality(A \cup {<<"group", n>>}) = Cardinality(A) + 1
    <3> HIDE DEF A
    <3> QED BY <2>3, <2>4, FS_AddElement
  <2>6. CASE n < InitLen
    <3>1. L = {<<"link", n + 1>>}
      <4>1. n + 1 \in Nodes /\ mem[n + 1] = "live" /\ prev[n + 1] = n
        <5>1. n + 1 \in Nodes
          BY <1>1, <2>6 DEF Nodes
        <5> QED BY <1>1, <2>6, <5>1
      <4>2. \A m \in Nodes : mem[m] = "live" /\ prev[m] = n => m = n + 1
        BY <1>1
      <4> QED BY <4>1, <4>2
    <3>2. <<"link", n + 1>> \notin A \cup {<<"group", n>>}
      OBVIOUS
    <3>3. Cardinality(WeakHolders(n)) = Cardinality(A) + 2
      <4> DEFINE B == A \cup {<<"group", n>>}
      <4>1. IsFiniteSet(B) /\ Cardinality(B) = Cardinality(A) + 1 /\ WeakHolders(n) = B \cup {<<"link", n + 1>>}
            /\ <<"link", n + 1>> \notin B
        BY <2>2, <2>5, <3>1, <3>2
      <4> HIDE DEF A, B
      <4>2. Cardinality(B \cup {<<"link", n + 1>>}) = Cardinality(B) + 1
        BY <4>1, FS_AddElement
      <4> QED BY <2>3, <4>1, <4>2
    <3> QED BY <1>4, <2>1, <2>3, <2>6, <3>3
  <2>7. CASE ~(n < InitLen)
    <3>1. L = {}
      <4>1. \A m \in Nodes : ~(mem[m] = "live" /\ prev[m] = n)
        BY <1>1, <2>7
      <4> QED BY <4>1
    <3>2. WeakHolders(n) = A \cup {<<"group", n>>}
      BY <2>2, <3>1
    <3> HIDE DEF A, H
    <3> QED BY <1>4, <2>1, <2>3, <2>5, <2>7, <3>2
  <2> QED BY <2>6, <2>7
<1> QED BY <1>8, <1>9 DEF WeakExact

\* The program begins in order.
LEMMA InitSafe ==
  ASSUME Init PROVE SafeInv
<1>1. CallsInv
  BY InitCalls
<1>2. /\ InitLen \in Nat /\ InitLen >= 1 /\ InitLen <= MaxNodes /\ MaxNodes \in Nat
      /\ handle = InitHandle
      /\ \A n \in Nodes : /\ n \in Nat /\ n >= 1
                          /\ stamp[n] = IF n <= InitLen THEN n ELSE 0
                          /\ prev[n] = IF n <= InitLen THEN n - 1 ELSE 0
                          /\ mem[n] = IF n <= InitLen THEN "live" ELSE "unused"
                          /\ next[n].ptr = (IF n < InitLen THEN n + 1 ELSE 0) /\ ~next[n].dropped
                          /\ drops[n] = 0 /\ adv[n] = 0
  BY InitChain
<1>3. \A t \in Threads : pc[t] = "idle" /\ pd[t] = IdlePayload /\ jn[t] = IdleJanitor /\ dr[t] = IdleDrop /\ ~Gap(t)
                         /\ ~StrongOnStart(t) /\ ~StrongOnItem(t) /\ ~StrongOnNew(t) /\ ~WeakOnStart(t) /\ ~WeakOnItem(t)
                         /\ ~WeakForGroup(t)
  BY InitChain, IdleBare
<1>4. Listed
  <2>1. ASSUME NEW n \in Nodes, Live(n) PROVE Adjacent(n, prev[n]) /\ (HasNext(n) => Live(next[n].ptr)) /\ Published(n)
    <3>1. n <= InitLen
      BY <1>2, <2>1 DEF Live
    <3>2. Adjacent(n, prev[n])
      <4>1. ASSUME prev[n] # Null PROVE Live(prev[n]) /\ Before(prev[n], n)
        <5>1. prev[n] = n - 1 /\ n - 1 \in Nodes
          BY <1>2, <3>1, <4>1 DEF Nodes, Null
        <5> QED BY <1>2, <3>1, <5>1 DEF Live, Before
      <4>2. ASSUME NEW m \in Nodes, Live(m), Before(m, n) PROVE prev[n] # Null /\ ~Before(prev[n], m)
        <5>1. m <= InitLen /\ m < n
          BY <1>2, <3>1, <4>2 DEF Live, Before
        <5>2. prev[n] = n - 1 /\ n - 1 \in Nodes /\ n - 1 # 0
          BY <1>2, <3>1, <5>1 DEF Nodes
        <5> QED BY <1>2, <3>1, <5>1, <5>2 DEF Before, Null
      <4> QED BY <4>1, <4>2 DEF Adjacent
    <3>3. HasNext(n) => Live(next[n].ptr)
      <4>1. ASSUME HasNext(n) PROVE Live(next[n].ptr)
        <5>1. n < InitLen /\ next[n].ptr = n + 1
          BY <1>2, <4>1 DEF HasNext, Null
        <5>2. n + 1 \in Nodes /\ n + 1 <= InitLen
          BY <1>2, <5>1 DEF Nodes
        <5> QED BY <1>2, <5>1, <5>2 DEF Live
      <4> QED BY <4>1
    <3> QED BY <1>2, <3>1, <3>2, <3>3 DEF Published
  <2> QED BY <2>1 DEF Listed
<1>5. ASSUME NEW t \in Threads PROVE JanitorKnows(t) /\ WordKnown(t) /\ Unreferenced(t) /\ HeldLive(t)
  <2>1. pc[t] = "idle" /\ pd[t].ret = "idle"
    BY <1>3 DEF IdlePayload
  <2>2. JanitorKnows(t)
    BY <2>1 DEF JanitorKnows, Redirecting, Freeing
  <2>3. WordKnown(t) /\ Unreferenced(t)
    BY <2>1 DEF WordKnown, Unreferenced
  <2>4. HeldLive(t)
    BY <1>3, <2>1 DEF HeldLive
  <2> QED BY <2>2, <2>3, <2>4
<1>6. LocksHeld
  <2>1. \A t \in Threads : \A n \in Nodes : ~HasLocked(t, n)
    BY <1>3 DEF HasLocked, Redirecting, Freeing, Janitoring
  <2> QED BY <2>1 DEF LocksHeld
<1>7. HandlesLive
  <2>1. \A h \in Handles : handle[h].node \in Nodes /\ handle[h].node <= InitLen
    BY <1>2, ProgramAssumption DEF HandleStates
  <2> QED BY <1>2, <2>1 DEF HandlesLive, Live
<1>8. PrivateFresh
  <2>1. ASSUME NEW n \in Nodes, mem[n] \in {"unused", "private"}
        PROVE  /\ next[n] = NullNext /\ adv[n] = 0 /\ drops[n] = 0 /\ mem[n] = "unused" /\ strong[n] = 0
    <3>1. n > InitLen /\ mem[n] = "unused"
      BY <1>2, <2>1
    <3>2. next[n] = [NullNext EXCEPT !.ptr = IF n < InitLen THEN n + 1 ELSE 0]
      BY InitChain
    <3>3. next[n] = NullNext
      BY <1>2, <3>1, <3>2 DEF NullNext, Null
    <3>4. strong[n] = 0
      <4>1. strong[n] = InitRefs("strong", n)
        BY InitChain
      <4>2. \A h \in Handles : InitHandle[h] # [kind |-> "strong", node |-> n]
        BY <1>2, <3>1, ProgramAssumption DEF HandleStates
      <4>3. {h \in Handles : InitHandle[h] = [kind |-> "strong", node |-> n]} = {}
        BY <4>2
      <4> QED BY <4>1, <4>3, FS_EmptySet DEF InitRefs
    <3> QED BY <1>2, <3>1, <3>3, <3>4
  <2> QED BY <2>1 DEF PrivateFresh
<1>9. Flagged
  <2>1. ASSUME NEW n \in Nodes, Live(n) PROVE (weak[n].haveNext <=> n < InitLen) /\ (weak[n].havePrev <=> n > 1)
    <3>1. n <= InitLen
      BY <1>2, <2>1 DEF Live
    <3>2. weak[n] = IF n > InitLen THEN NoWeak
                    ELSE [count |-> InitRefs("weak", n) + IF n < InitLen THEN 2 ELSE 1,
                          haveNext |-> n < InitLen, havePrev |-> n > 1]
      BY InitChain
    <3>3. weak[n] = [count |-> InitRefs("weak", n) + IF n < InitLen THEN 2 ELSE 1,
                     haveNext |-> n < InitLen, havePrev |-> n > 1]
      BY <1>2, <3>1, <3>2
    <3>4. weak[n].haveNext = (n < InitLen) /\ weak[n].havePrev = (n > 1)
      BY <3>3
    <3> QED BY <3>4
  <2>2. \A n \in Nodes : Live(n) => (HasNext(n) <=> n < InitLen) /\ (n <= 1 => prev[n] = Null)
    BY <1>2 DEF HasNext, Null, Live
  <2> QED BY <1>2, <2>1, <2>2 DEF Flagged
<1>10. StrongExact /\ WeakExact
  BY InitCounts
<1>11. Followed
  BY <1>3 DEF Followed, Follows, Redirected, Freeing
<1>12. TeardownSafe
  <2>1. \A n \in Nodes : Live(n) => strong[n] # STRONG_DROPPED
    <3>1. \A n \in Nodes : LiveStrong(strong[n]) = strong[n]
      <4>1. ASSUME NEW n \in Nodes PROVE strong[n] # STRONG_DROPPED
        <5>1. strong[n] = Cardinality({h \in Handles : InitHandle[h] = [kind |-> "strong", node |-> n]})
          BY InitChain DEF InitRefs
        <5>2. strong[n] <= Cardinality(Handles) /\ Cardinality(Handles) \in Nat /\ Cardinality(Threads) \in Nat /\ strong[n] \in Nat
          BY <5>1, HeapAssumption, FS_Subset, FS_CardinalityType
        <5> QED BY <5>2, HeapAssumption DEF STRONG_DROPPED
      <4> QED BY <4>1 DEF LiveStrong
    <3>2. ASSUME NEW n \in Nodes, Live(n), strong[n] = STRONG_DROPPED PROVE FALSE
      <4>1. strong[n] = 0
        BY <3>1, <3>2 DEF LiveStrong
      <4> QED BY <3>2, <4>1, HeapAssumption DEF STRONG_DROPPED
    <3> QED BY <3>2
  <2>2. \A t \in Threads : pc[t] = "idle" /\ pd[t].ret = "idle"
    BY <1>3 DEF IdlePayload
  <2> QED BY <2>1, <2>2 DEF TeardownSafe, Redirecting, Freeing
<1>13. PayloadsSafe
  <2>1. \A n \in Nodes : ~Released(n) /\ drops[n] = 0 /\ mem[n] # "freed" /\ ~next[n].dropped
    BY <1>2, <1>3 DEF Released
  <2> QED BY <1>3, <2>1 DEF PayloadsSafe
<1> QED BY <1>1, <1>4, <1>5, <1>6, <1>7, <1>8, <1>9, <1>10, <1>11, <1>12, <1>13 DEF SafeInv, CallsInv

\* Holders, locks and knowledge change with the state only.
LEMMA StutterSafe ==
  ASSUME SafeInv, UNCHANGED vars PROVE SafeInv'
<1>1. UNCHANGED <<next, prev, strong, weak, adv, mem, drops, handle, left, stamp, count,
                  pc, item, av, pd, jn, dr, op>>
  BY DEF vars, heap, client, locals
<1>2. OrderInv'
  BY StutterKeeps DEF SafeInv
<1>3. ASSUME NEW t \in Threads
      PROVE  /\ StrongOnStart(t)' = StrongOnStart(t) /\ StrongOnItem(t)' = StrongOnItem(t) /\ StrongOnNew(t)' = StrongOnNew(t)
             /\ WeakOnStart(t)' = WeakOnStart(t) /\ WeakOnItem(t)' = WeakOnItem(t) /\ WeakForGroup(t)' = WeakForGroup(t)
             /\ WeakOnGap(t)' = WeakOnGap(t) /\ Gap(t)' = Gap(t) /\ Undoing(t)' = Undoing(t) /\ Base(t)' = Base(t)
  BY <1>1 DEF StrongOnStart, StrongOnItem, StrongOnNew, WeakOnStart, WeakOnItem, WeakForGroup, WeakOnGap, Gap, At, Undoing,
     HasNext, Base
<1>4. ASSUME NEW t \in Threads PROVE Shape(t)' /\ Places(t)'
  <2>1. Shape(t)'
    BY <1>1 DEF SafeInv, Shape
  <2>2. Places(t)'
    BY <1>1, <1>3 DEF SafeInv, Places, Before, HasNext
  <2> QED BY <2>1, <2>2
<1>5. ASSUME NEW t \in Threads PROVE JanitorKnows(t)'
  BY <1>1 DEF SafeInv, JanitorKnows, Before, Live, Adjacent
<1>6. ASSUME NEW t \in Threads PROVE HeldLive(t)' /\ WordKnown(t)' /\ Unreferenced(t)'
  <2>1. HeldLive(t)'
    BY <1>1, <1>3 DEF SafeInv, HeldLive, Live
  <2>2. WordKnown(t)' /\ Unreferenced(t)'
    BY <1>1 DEF SafeInv, WordKnown, Unreferenced, HasNext, Live
  <2> QED BY <2>1, <2>2
<1>7. Listed'
  BY <1>1, <1>3 DEF SafeInv, Listed, Adjacent, Live, Before, HasNext, Published
<1>8. LocksHeld'
  <2>1. \A t \in Threads : \A n \in Nodes : HasLocked(t, n)' = HasLocked(t, n)
    BY <1>1 DEF HasLocked, Before
  <2> QED BY <1>1, <2>1 DEF SafeInv, LocksHeld, Live
<1>9. HandlesLive' /\ PrivateFresh' /\ Flagged'
  BY <1>1 DEF SafeInv, HandlesLive, PrivateFresh, Flagged, Live, HasNext
<1>10. StrongExact'
  <2>1. \A n \in Nodes : StrongHolders(n)' = StrongHolders(n)
    BY <1>1, <1>3 DEF StrongHolders
  <2> QED BY <1>1, <2>1 DEF SafeInv, StrongExact, Live
<1>11. WeakExact'
  <2>1. \A n \in Nodes : WeakHolders(n)' = WeakHolders(n)
    BY <1>1, <1>3 DEF WeakHolders
  <2> QED BY <1>1, <2>1 DEF SafeInv, WeakExact, Live
<1>12. AdvanceExact'
  BY <1>1, <1>3 DEF SafeInv, AdvanceExact, Announcers, Walks, Shares
<1>13. Followed'
  <2>1. \A t \in Threads : \A n \in Nodes : Redirected(t, n)' = Redirected(t, n)
    BY <1>1 DEF Redirected, HasLocked, Before
  <2>2. \A t \in Threads : \A x, y \in Nodes : Follows(t, x, y)' = Follows(t, x, y)
    BY <1>1, <1>3 DEF Follows
  <2>3. \A t \in Threads : \A y \in Nodes : Spares(t, y)' = Spares(t, y)
    BY <1>1 DEF Spares, Before, Published
  <2> QED BY <1>1, <2>1, <2>2, <2>3 DEF SafeInv, Followed, Live, Before
<1>14. \A n \in Nodes : Kept(n)' = Kept(n) /\ Tried(n)' = Tried(n)
  <2>1. \A t \in Threads : \A n \in Nodes : Keeps(t, n)' = Keeps(t, n) /\ Tries(t, n)' = Tries(t, n)
    BY <1>1, <1>3 DEF Keeps, Tries
  <2> QED BY <1>1, <2>1 DEF Kept, Tried
<1>15. TeardownSafe'
  <2>1. \A n \in Nodes : NoneBefore(n)' = NoneBefore(n)
    BY <1>1, <1>14 DEF NoneBefore, Before
  <2>2. \A t \in Threads : FoundNone(t)' = FoundNone(t)
    BY <1>1, <1>14 DEF FoundNone, Seen, Before
  <2>3. \A t \in Threads : item[t] \in Nodes /\ NoneBefore(item[t])' = NoneBefore(item[t])
    BY <1>1, <1>14, NodesTyped DEF SafeInv, NoneBefore, Before
  <2> QED BY <1>1, <2>1, <2>2, <2>3 DEF SafeInv, TeardownSafe, Live, StrongStatus
<1>16. PayloadsSafe'
  <2>1. \A n \in Nodes : Released(n)' = Released(n) /\ Beyond(n)' = Beyond(n)
    BY <1>1, <1>14 DEF Released, Beyond, HasNext
  <2> QED BY <1>1, <2>1 DEF SafeInv, PayloadsSafe, Live
<1> QED BY <1>2, <1>4, <1>5, <1>6, <1>7, <1>8, <1>9, <1>10, <1>11, <1>12, <1>13, <1>15, <1>16 DEF SafeInv

\* Every step of every thread keeps the invariant.
LEMMA StepSafe ==
  ASSUME SafeInv, NEW t \in Threads, AnyStep(t) PROVE SafeInv'
<1>1. CASE DropWeakFree(t)
  BY <1>1, LastFree
<1>2. CASE ~DropWeakFree(t)
  <2>1. OrderInv' /\ AdvanceExact' /\ \A u \in Threads : Shape(u)' /\ Places(u)'
    BY StepFacts
  <2>2. Listed' /\ LocksHeld' /\ \A u \in Threads : JanitorKnows(u)'
    BY ListKept
  <2>3. HandlesLive' /\ \A u \in Threads : HeldLive(u)'
    BY HeldKept
  <2>4. PrivateFresh' /\ Flagged'
    BY PrivateKept, FlaggedKept
  <2>5. \A u \in Threads : WordKnown(u)' /\ Unreferenced(u)'
    BY <1>2, WordsKept, UnreferencedKept
  <2>6. StrongExact' /\ WeakExact'
    BY <1>2, StrongKept, WeakKept
  <2>7. Followed' /\ TeardownSafe' /\ PayloadsSafe'
    BY <1>2, FollowKept, TeardownKept, PayloadsKept
  <2> QED BY <2>1, <2>2, <2>3, <2>4, <2>5, <2>6, <2>7 DEF SafeInv
<1> QED BY <1>1, <1>2

(* The whole of the invariant is kept by every step and every stutter.     *)
LEMMA NextSafe ==
  ASSUME SafeInv, [Next]_vars PROVE SafeInv'
<1>1. (\E t \in Threads : AnyStep(t)) \/ UNCHANGED vars
  BY DEF Next, Rest, AnyStep
<1> QED BY <1>1, StepSafe, StutterSafe

-----------------------------------------------------------------------------

(* The invariant of the chain: at every step of any number of threads both *)
(* counts are exact, janitors work on parts of the list that they alone    *)
(* have locked and spare what an advance may still reach, and what is torn *)
(* down is out of everybody's reach.                                       *)
THEOREM ChainStaysSafe == Spec => []SafeInv
<1>1. Init => SafeInv
  BY InitSafe
<1>2. SafeInv /\ [Next]_vars => SafeInv'
  BY NextSafe
<1> QED BY <1>1, <1>2, PTL DEF Spec

(* No step of any thread dereferences a freed node (the unsafe blocks that *)
(* follow next, prev and the pointers of handles).                         *)
THEOREM NothingUsedAfterFree == Spec => []NoUseAfterFree
<1>1. SafeInv => NoUseAfterFree
  BY DerefsLive
<1> QED BY <1>1, ChainStaysSafe, PTL

(* strong_count is the number of strong references to a node, and          *)
(* STRONG_DROPPED stands only where there is none.                         *)
THEOREM StrongCountsExact == Spec => []StrongExact
<1>1. SafeInv => StrongExact
  BY DEF SafeInv
<1> QED BY <1>1, ChainStaysSafe, PTL

(* weak_count is the number of weak references: handles, links, groups of  *)
(* strong references, and calls in progress.                               *)
THEOREM WeakCountsExact == Spec => []WeakExact
<1>1. SafeInv => WeakExact
  BY DEF SafeInv
<1> QED BY <1>1, ChainStaysSafe, PTL

\* A payload that somebody has a strong reference to has not been touched.
LEMMA KeptIntact ==
  ASSUME SafeInv, NEW n \in Nodes, Kept(n)
  PROVE  Live(n) /\ ~next[n].dropped /\ drops[n] = 0
<1>1. Live(n)
  BY KeptLive
<1>2. ~next[n].dropped
  BY <1>1 DEF SafeInv, PayloadsSafe, Released, Beyond
<1> QED BY <1>1, <1>2 DEF SafeInv, PayloadsSafe

(* The payload of a reference is there: of every ArcShift, and of what a   *)
(* get, a shared_get, the closure of an rcu or a try_get_mut looks at.     *)
THEOREM PayloadsStaySafe == Spec => []PayloadSafe
<1>1. ASSUME SafeInv PROVE PayloadSafe
  <2>1. ASSUME NEW h \in Handles, handle[h].kind = "strong" PROVE Live(handle[h].node) /\ drops[handle[h].node] = 0
    <3>1. handle[h].node \in Nodes
      BY <1>1, NodesTyped DEF SafeInv, HandleStates
    <3>2. Kept(handle[h].node)
      BY <2>1 DEF Kept
    <3> QED BY <1>1, <3>1, <3>2, KeptIntact
  <2>2. ASSUME NEW t \in Threads, Looking(t) PROVE Live(item[t]) /\ drops[item[t]] = 0
    <3>1. item[t] \in Nodes /\ Shape(t) /\ Places(t)
      BY <1>1, NodesTyped DEF SafeInv
    <3>2. CASE pc[t] = "reading" /\ op[t].guard = "raw"
      <4>1. op[t].f = "sharedGet" /\ item[t] = Base(t)
        BY <3>1, <3>2 DEF Shape, Places
      <4>2. Kept(Base(t))
        BY <1>1, <3>2, <4>1, Borrowed
      <4> QED BY <1>1, <3>1, <4>1, <4>2, KeptIntact
    <3>3. CASE ~(pc[t] = "reading" /\ op[t].guard = "raw")
      <4>1. StrongOnItem(t) /\ ~Undoing(t)
        BY <2>2, <3>3 DEF Looking, StrongOnItem, At, Undoing
      <4>2. Kept(item[t])
        BY <4>1 DEF Kept, Keeps
      <4> QED BY <1>1, <3>1, <4>2, KeptIntact
    <3> QED BY <3>2, <3>3
  <2> QED BY <2>1, <2>2 DEF PayloadSafe
<1> QED BY <1>1, ChainStaysSafe, PTL

(* No payload is destroyed twice.                                          *)
THEOREM PayloadsDropOnce == Spec => []SingleDrop
<1>1. ASSUME SafeInv PROVE SingleDrop
  <2>1. ASSUME NEW n \in Nodes PROVE drops[n] <= 1
    <3>1. mem[n] \in {"unused", "private", "live", "freed"}
      BY <1>1, NodesTyped DEF SafeInv
    <3>2. mem[n] # "live" => drops[n] \in {0, 1}
      BY <1>1, <3>1 DEF SafeInv, PrivateFresh, PayloadsSafe
    <3>3. mem[n] = "live" => drops[n] \in {0, 1}
      BY <1>1 DEF SafeInv, PayloadsSafe, Live
    <3> QED BY <3>2, <3>3
  <2> QED BY <2>1 DEF SingleDrop
<1> QED BY <1>1, ChainStaysSafe, PTL

(* A strong advance and shared_get never meet a node that is torn down     *)
(* (the assertions in do_advance_strong).                                  *)
THEOREM AdvancesFindValues == Spec => []StrongAdvanceFindsValue
<1>1. ASSUME SafeInv PROVE StrongAdvanceFindsValue
  <2>1. ASSUME NEW t \in Threads, pc[t] = "advs_recheck", ~HasNext(item[t]) PROVE ~next[item[t]].dropped
    <3>1. item[t] \in Nodes
      BY <1>1, NodesTyped DEF SafeInv
    <3>2. StrongOnItem(t) /\ ~Undoing(t)
      BY <2>1 DEF StrongOnItem, Undoing
    <3>3. Kept(item[t])
      BY <3>2 DEF Kept, Keeps
    <3> QED BY <1>1, <3>1, <3>3, KeptIntact
  <2>2. \A t \in Threads : /\ pc[t] \in {"advs_load", "advs_incw", "advs_cas", "advs_race"} => strong[item[t]] # STRONG_DROPPED
                           /\ pc[t] \in {"sg_strong", "sg_cas"} => strong[op[t].nxt] # STRONG_DROPPED
    BY <1>1, RoomAll
  <2> QED BY <2>1, <2>2 DEF StrongAdvanceFindsValue
<1> QED BY <1>1, ChainStaysSafe, PTL

(* No live node has a link to a freed one, but for a prev under the lock   *)
(* of the janitor that has freed the node and is about to redirect it.     *)
THEOREM NothingDangles == Spec => []NoDanglingLinks
<1>1. ASSUME SafeInv PROVE NoDanglingLinks
  <2>1. ASSUME NEW n \in Nodes, Live(n), prev[n] # Null PROVE Live(prev[n]) \/ next[n].locked
    <3>1. CASE \A t \in Threads : ~(Gap(t) /\ jn[t].right = n)
      BY <1>1, <2>1, <3>1 DEF SafeInv, Listed, Adjacent
    <3>2. ASSUME NEW t \in Threads, Gap(t), jn[t].right = n PROVE next[n].locked
      <4>1. HasLocked(t, n)
        BY <1>1, <3>2, ListParts, GapOwner
      <4> QED BY <1>1, <2>1, <4>1 DEF SafeInv, LocksHeld
    <3> QED BY <3>1, <3>2
  <2> QED BY <1>1, <2>1 DEF NoDanglingLinks, SafeInv, Listed
<1> QED BY <1>1, ChainStaysSafe, PTL

\* Nothing of the chain is in use where its newest value is claimed or dropped.
LEMMA GoneAtNewest ==
  ASSUME SafeInv, NEW n \in Nodes, Live(n), ~HasNext(n), strong[n] = STRONG_DROPPED \/ next[n].dropped
  PROVE  ~StrongRefsExist
<1>1. strong[n] = STRONG_DROPPED
  BY DEF SafeInv, PayloadsSafe, Released, Beyond
<1>2. NoneBefore(n)
  BY <1>1 DEF SafeInv, TeardownSafe
<1>3. StrongHolders(n) = {}
  <2>1. \A x : x \notin StrongHolders(n)
    BY <1>1, StrongKnown
  <2> QED BY <2>1
<1>4. SUFFICES ASSUME NEW m \in Nodes, Live(m), NEW x \in StrongHolders(m),
                      x \notin {<<"item", t>> : t \in {t \in Threads : Undoing(t)}}
               PROVE  FALSE
  BY DEF StrongRefsExist
<1>5. Kept(m) \/ Tried(m)
  <2>1. CASE \E h \in Handles : handle[h] = [kind |-> "strong", node |-> m]
    BY <2>1 DEF Kept
  <2>2. CASE \E t \in Threads : StrongOnStart(t) /\ av[t].start = m
    BY <2>2 DEF Kept, Tried, Keeps, Tries
  <2>3. CASE \E t \in Threads : x = <<"item", t>> /\ StrongOnItem(t) /\ item[t] = m
    BY <1>4, <2>3 DEF Kept, Keeps
  <2>4. CASE \E t \in Threads : StrongOnNew(t) /\ op[t].val = m
    BY <2>4 DEF Kept, Keeps
  <2>5. CASE \E t \in Threads : pc[t] \in {"sg_recheck", "sg_light"} /\ op[t].nxt = m
    BY <2>5 DEF Kept, Tried, Keeps, Tries
  <2> QED BY <2>1, <2>2, <2>3, <2>4, <2>5 DEF StrongHolders
<1>6. ~Before(m, n) /\ ~Before(n, m)
  BY <1>2, <1>5, NewestIsLast DEF NoneBefore
<1>7. m = n
  BY <1>4, <1>6, Line DEF SafeInv
<1> QED BY <1>3, <1>4, <1>7

(* Where do_drop_weak has claimed the current value, no strong reference   *)
(* is left in the chain: upgrade may answer None.                          *)
THEOREM ClaimsAreFinal == Spec => []ClaimedMeansGone
<1>1. SafeInv => ClaimedMeansGone
  BY GoneAtNewest DEF ClaimedMeansGone
<1> QED BY <1>1, ChainStaysSafe, PTL

(* While an ArcShift exists anywhere in the chain the newest value does.   *)
THEOREM NewestIsKept == Spec => []NewestValueKept
<1>1. SafeInv => NewestValueKept
  <2>1. ASSUME SafeInv, NEW n \in Nodes, Live(n), ~HasNext(n), drops[n] # 0 PROVE next[n].dropped
    BY <2>1 DEF SafeInv, PayloadsSafe
  <2> QED BY <2>1, GoneAtNewest DEF NewestValueKept
<1> QED BY <1>1, ChainStaysSafe, PTL

(* STRONG_DROPPED is final.                                                *)
THEOREM SentinelStays == Spec => SentinelIsFinal
<1>1. SafeInv /\ [Next]_vars => [\A n \in Nodes : strong[n] = STRONG_DROPPED => strong'[n] = STRONG_DROPPED]_vars
  <2>1. ASSUME SafeInv, Next PROVE (\A n \in Nodes : strong[n] = STRONG_DROPPED => strong'[n] = STRONG_DROPPED) \/ UNCHANGED vars
    <3>1. (\E t \in Threads : AnyStep(t)) \/ UNCHANGED vars
      BY <2>1 DEF Next, Rest, AnyStep
    <3> QED BY <2>1, <3>1, SentinelKept
  <2> QED BY <2>1
<1> QED BY <1>1, ChainStaysSafe, PTL DEF Spec, SentinelIsFinal

\* What a step does to the list it does under locks.
LEMMA UnlinksLocked ==
  ASSUME SafeInv, NEW t \in Threads, AnyStep(t), NEW n \in Nodes, Live(n)
  PROVE  /\ prev'[n] # prev[n] => next[n].locked
         /\ mem'[n] = "freed" /\ HasNext(n) =>
              /\ next[n].locked
              /\ \A m \in Nodes : Live(m) /\ prev[m] = n => next[m].locked
<1>1. Moves(t, n) /\ LocksHeld /\ ListInv
  BY StepFacts, ListParts DEF SafeInv
<1>2. ASSUME prev'[n] # prev[n] PROVE next[n].locked
  <2>1. JanitorUnlink(t) /\ n = jn[t].right
    BY <1>1, <1>2 DEF Moves, PrevMoves
  <2>2. Gap(t)
    BY <2>1 DEF JanitorUnlink, Janitor, Gap
  <2>3. HasLocked(t, n)
    BY <1>1, <2>1, <2>2, GapOwner
  <2> QED BY <1>1, <2>3 DEF LocksHeld
<1>3. ASSUME mem'[n] = "freed", HasNext(n)
      PROVE  next[n].locked /\ \A m \in Nodes : Live(m) /\ prev[m] = n => next[m].locked
  <2>1. ~DropWeakFree(t)
    <3>1. ASSUME DropWeakFree(t) PROVE FALSE
      <4>1. pc[t] = "dw_free" /\ WordKnown(t)
        BY <3>1 DEF DropWeakFree, SafeInv
      <4> QED BY <1>3, <4>1 DEF WordKnown
    <3> QED BY <3>1
  <2>2. JanitorFree(t) /\ n = jn[t].del
    BY <1>1, <1>3, <2>1 DEF Moves, MemMoves, Live
  <2>3. pc[t] = "jan_free"
    BY <2>2 DEF JanitorFree, Janitor
  <2>4. /\ jn[t].right \in Nodes /\ Live(jn[t].right) /\ WeakHolders(n) \subseteq {<<"link", jn[t].right>>, <<"gap", t>>}
        /\ JanitorKnows(t) /\ item[t] \in Nodes /\ item[t] # Null /\ stamp \in [Nodes -> Nat] /\ jn[t].cur \in Ptrs
    BY <1>1, <2>2, <2>3, OnlyLink, JanitorFacts, NodesTyped DEF SafeInv
  <2>5. HasLocked(t, n)
    <3>1. ~Before(jn[t].cur, n)
      <4>1. CASE jn[t].cur = n
        BY <2>4, <4>1 DEF Before
      <4>2. CASE jn[t].cur # n
        <5>1. Before(n, jn[t].cur) /\ jn[t].cur \in Nodes
          BY <2>2, <2>3, <2>4, <4>2 DEF JanitorKnows, Freeing, Ptrs
        <5> QED BY <2>4, <5>1 DEF Before
      <4> QED BY <4>1, <4>2
    <3> QED BY <2>3, <3>1 DEF HasLocked
  <2>6. HasLocked(t, jn[t].right)
    <3>1. jn[t].carry = IF jn[t].right = item[t] THEN Null ELSE jn[t].right
      BY <2>3, <2>4 DEF JanitorKnows, Freeing
    <3> QED BY <2>3, <3>1 DEF HasLocked, Freeing, Janitoring
  <2>7. ASSUME NEW m \in Nodes, Live(m), prev[m] = n PROVE m = jn[t].right
    <3>1. <<"link", m>> \in WeakHolders(n)
      BY <2>7 DEF WeakHolders, Live
    <3> QED BY <2>4, <3>1
  <2> QED BY <1>1, <2>4, <2>5, <2>6, <2>7 DEF LocksHeld
<1> QED BY <1>2, <1>3

(* The list changes only under the janitor's locks.                        *)
THEOREM UnlinksUnderLock == Spec => UnlinkUnderLock
<1> DEFINE A == \A n \in Nodes : Live(n) =>
                   /\ prev'[n] # prev[n] => next[n].locked
                   /\ mem'[n] = "freed" /\ HasNext(n) =>
                        /\ next[n].locked
                        /\ \A m \in Nodes : Live(m) /\ prev[m] = n => next[m].locked
<1>1. SafeInv /\ [Next]_vars => [A]_vars
  <2>1. ASSUME SafeInv, Next PROVE A \/ UNCHANGED vars
    <3>1. (\E t \in Threads : AnyStep(t)) \/ UNCHANGED vars
      BY <2>1 DEF Next, Rest, AnyStep
    <3> QED BY <2>1, <3>1, UnlinksLocked
  <2> QED BY <2>1
<1> QED BY <1>1, ChainStaysSafe, PTL DEF Spec, UnlinkUnderLock
===============================================================================
