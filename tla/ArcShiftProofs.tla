---------------------------- MODULE ArcShiftProofs ----------------------------
(***************************************************************************)
(* What each of the procedures does in one step, that every step keeps the *)
(* types and the order of the chain, and the theorems that follow from it. *)
(***************************************************************************)
EXTENDS ArcShiftOrder, FiniteSetTheorems, TLAPS

(* How a step keeps OrderInv. Most steps move one call and leave the order *)
(* of the chain alone; MoveKeeps says what such a step has to show.        *)

\* the variables that OrderInv says nothing about but their type
CountsOK ==
  /\ strong \in [Nodes -> 0..UsizeMax]
  /\ weak \in [Nodes -> WeakWords]
  /\ adv \in [Nodes -> Int]
  /\ drops \in [Nodes -> Nat]
  /\ dr \in [Threads -> DropFrames]

\* the flags of next may change, the line of nodes and the handles do not
LineKept ==
  /\ next' \in [Nodes -> NextWords]
  /\ \A n \in Nodes : next'[n].ptr = next[n].ptr
  /\ UNCHANGED <<prev, mem, stamp, count, handle, left>>

\* t goes on with these registers, the other calls stay where they are
MoveTo(t, l, i, a, p, j, o) ==
  /\ pc' = [pc EXCEPT ![t] = l] /\ l \in Labels
  /\ item' = [item EXCEPT ![t] = i] /\ i \in Nodes
  /\ av' = [av EXCEPT ![t] = a] /\ a \in AdvanceFrames
  /\ pd' = [pd EXCEPT ![t] = p] /\ p \in PayloadFrames
  /\ jn' = [jn EXCEPT ![t] = j] /\ j \in JanitorFrames
  /\ op' = [op EXCEPT ![t] = o] /\ o \in CallFrames

\* the call stays the same call, with the same new node
SameCall(t, l, a, o) ==
  /\ pc[t] # "idle"
  /\ Linking(l, a) => Linking(pc[t], av[t])
  /\ o.val = op[t].val /\ o.f = op[t].f /\ o.hnd = op[t].hnd /\ o.out = op[t].out

(* What happens to the line in any step: nodes are added on the right, and *)
(* a node that has a right neighbour always has one.                       *)
LineGrows ==
  /\ \A n \in Nodes : HasNext(n) => HasNext(n)'
  /\ \A n \in Nodes : Published(n) => stamp'[n] = stamp[n]
  /\ count' \in Nat /\ count' >= count

\* what a call with these registers has for itself is not touched
Spared(l, a, o) ==
  /\ Linking(l, a) /\ o.val # Null => mem'[o.val] = mem[o.val] /\ prev'[o.val] = prev[o.val]
  /\ l # "idle" /\ o.f \in Storing => handle'[ResultHandle(o)].kind = "busy"
  /\ l # "idle" /\ o.f = "sharedGet" => handle'[o.hnd] = handle[o.hnd]

HeapTyped ==
  /\ next \in [Nodes -> NextWords]
  /\ prev \in [Nodes -> Ptrs]
  /\ mem \in [Nodes -> {"unused", "private", "live", "freed"}]
  /\ handle \in [Handles -> HandleStates]
  /\ left \in [Threads -> Nat]
  /\ stamp \in [Nodes -> Nat]
  /\ count \in Nat

(* What a call knows outlives the steps of the other calls.                *)
LEMMA KnowsStays ==
  ASSUME TypeOK, ChainOrdered, LineGrows,
         NEW l, NEW i \in Nodes, NEW a \in AdvanceFrames, NEW p, NEW j \in JanitorFrames,
         NEW o \in CallFrames, Spared(l, a, o), Knows(l, i, a, p, j, o)
  PROVE  Knows(l, i, a, p, j, o)'
<1>1. \A n \in Nodes : Published(n) => Published(n)' /\ stamp'[n] = stamp[n]
  BY DEF LineGrows, Published
<1>2. \A m, n \in Ptrs : Older(m, n) => Older(m, n)'
  BY <1>1 DEF Older, Ptrs, Published, TypeOK
<1>3. a.start \in Nodes /\ a.nxt \in Nodes /\ o.nxt \in Nodes /\ o.val \in Ptrs /\ o.hnd \in Handles
  BY DEF AdvanceFrames, CallFrames
<1>4. OnChain(l, i, a, o)'
  BY <1>1, <1>3 DEF Knows, OnChain, LineGrows
<1>5. NewNode(l, i, a, p, o)'
  <2>1. Linking(l, a) /\ o.val # Null => mem'[o.val] = "private"
    BY DEF Knows, NewNode, Spared
  <2>2. l \in {"upd_weak", "upd_cas"} => o.val # Null /\ prev'[o.val] = i /\ o.nw.ptr = Null
    BY DEF Knows, NewNode, Spared, Linking
  <2>3. Linked(l, p) => o.val # Null /\ Published(o.val)' /\ stamp'[o.val] >= o.since
    BY <1>1, <1>3 DEF Knows, NewNode, Ptrs
  <2> QED BY <2>1, <2>2, <2>3 DEF NewNode
<1>6. JanitorOrdered(l, i, j)'
  <2>1. /\ j.cur \in Ptrs /\ j.cand \in Ptrs /\ j.prv \in Ptrs /\ j.right \in Ptrs /\ j.del \in Ptrs
        /\ i \in Ptrs
    BY DEF JanitorFrames, Ptrs
  <2>2. j.right # Null /\ Published(j.right) => Published(j.right)'
    BY <1>1, <2>1 DEF Ptrs
  <2> QED BY <1>2, <2>1, <2>2 DEF Knows, JanitorOrdered
<1>7. UpToDate(l, i, o)'
  <2>1. o.since \in Nat /\ count \in Nat /\ stamp[i] \in Nat /\ o.since <= count
    BY DEF TypeOK, CallFrames, Knows, UpToDate
  <2>2. o.since <= count'
    BY <2>1 DEF LineGrows
  <2>3. stamp'[i] = stamp[i] /\ stamp'[o.nxt] = stamp[o.nxt]
    BY <1>1, <1>3 DEF Knows, OnChain
  <2> QED BY <2>2, <2>3 DEF Knows, UpToDate
<1>8. HandleKept(l, o)'
  <2>1. handle[o.hnd].node \in Nodes
    BY <1>3 DEF TypeOK, HandleStates
  <2> QED BY <2>1 DEF Knows, HandleKept, Spared, LineGrows
<1> QED BY <1>4, <1>5, <1>6, <1>7, <1>8 DEF Knows

(* Any step: the line grows in order, the other calls are spared, and the  *)
(* call that moves knows what it has to where it goes.                     *)
LEMMA GrowKeeps ==
  ASSUME OrderInv, NEW t \in Threads, LineGrows, CountsOK', HeapTyped',
         NEW l, NEW i, NEW a, NEW p, NEW j, NEW o,
         MoveTo(t, l, i, a, p, j, o), Knows(l, i, a, p, j, o)',
         ChainOrdered', \A h \in Handles : Published(handle[h].node)',
         \A u \in Threads \ {t} :
           /\ Spared(pc[u], av[u], op[u])
           /\ Linking(l, a) /\ Linking(pc[u], av[u]) /\ o.val # Null => o.val # op[u].val
           /\ l # "idle" /\ pc[u] # "idle" /\ o.f \in Storing /\ op[u].f \in Storing
                => ResultHandle(o) # ResultHandle(op[u])
  PROVE  OrderInv'
<1>1. TypeOK'
  BY DEF OrderInv, TypeOK, CountsOK, HeapTyped, MoveTo
<1>2. Published(IdleNode)'
  BY HeapAssumption DEF OrderInv, LineGrows, Published, IdleNode, Nodes
<1>3. pc'[t] = l /\ item'[t] = i /\ av'[t] = a /\ pd'[t] = p /\ jn'[t] = j /\ op'[t] = o
  BY DEF MoveTo, OrderInv, TypeOK
<1>4. ASSUME NEW u \in Threads \ {t}
      PROVE  /\ pc'[u] = pc[u] /\ item'[u] = item[u] /\ av'[u] = av[u] /\ pd'[u] = pd[u]
             /\ jn'[u] = jn[u] /\ op'[u] = op[u]
  BY DEF MoveTo, OrderInv, TypeOK
<1>5. ASSUME NEW u \in Threads PROVE Local(u)'
  <2>1. CASE u = t
    BY <1>3, <2>1 DEF Local
  <2>2. CASE u # t
    <3>1. /\ item[u] \in Nodes /\ av[u] \in AdvanceFrames /\ jn[u] \in JanitorFrames
          /\ op[u] \in CallFrames /\ Local(u) /\ TypeOK /\ ChainOrdered
      BY DEF OrderInv, TypeOK
    <3>2. Spared(pc[u], av[u], op[u])
      BY <2>2
    <3>3. Knows(pc[u], item[u], av[u], pd[u], jn[u], op[u])'
      BY <1>4, <2>2, <3>1, <3>2, KnowsStays DEF Local
    <3> QED BY <3>3 DEF Local
  <2> QED BY <2>1, <2>2
<1>6. ASSUME NEW u \in Threads, NEW v \in Threads, u # v PROVE Apart(u, v)'
  <2>1. CASE u # t /\ v # t
    <3>1. Apart(u, v)
      BY <1>6 DEF OrderInv
    <3> QED BY <1>4, <2>1, <3>1 DEF Apart
  <2>2. CASE u = t
    BY <1>3, <1>4, <1>6, <2>2 DEF Apart
  <2>3. CASE v = t
    <3>1. o.val # Null \/ op[u].val # o.val \/ op[u].val = Null
      OBVIOUS
    <3> QED BY <1>3, <1>4, <1>6, <2>3, <3>1 DEF Apart
  <2> QED BY <2>1, <2>2, <2>3
<1> QED BY <1>1, <1>2, <1>5, <1>6 DEF OrderInv

(* A step within a call that changes nodes of the line only.               *)
LEMMA LineKeeps ==
  ASSUME OrderInv, NEW t \in Threads, LineGrows, CountsOK', HeapTyped', ChainOrdered',
         UNCHANGED handle, \A n \in Nodes : ~Published(n) => mem'[n] = mem[n] /\ prev'[n] = prev[n],
         NEW l, NEW i, NEW a, NEW p, NEW j, NEW o,
         MoveTo(t, l, i, a, p, j, o), SameCall(t, l, a, o), Knows(l, i, a, p, j, o)
  PROVE  OrderInv'
<1>1. \A n \in Nodes : mem[n] = "private" => mem'[n] = mem[n] /\ prev'[n] = prev[n]
  BY DEF OrderInv, ChainOrdered
<1>2. ASSUME NEW u \in Threads PROVE Spared(pc[u], av[u], op[u])
  <2>1. Local(u) /\ op[u].val \in Ptrs
    BY DEF OrderInv, TypeOK, CallFrames
  <2> QED BY <1>1, <2>1 DEF Spared, Local, Knows, HandleKept, NewNode, Ptrs
<1>3. Spared(l, a, o)
  <2>1. o.val \in Ptrs
    BY DEF MoveTo, CallFrames
  <2> QED BY <1>1, <2>1 DEF Spared, Knows, HandleKept, NewNode, Ptrs
<1>4. Knows(l, i, a, p, j, o)'
  BY <1>3, KnowsStays DEF MoveTo, OrderInv
<1>5. ASSUME NEW u \in Threads \ {t}
      PROVE  /\ Linking(l, a) /\ Linking(pc[u], av[u]) /\ o.val # Null => o.val # op[u].val
             /\ l # "idle" /\ pc[u] # "idle" /\ o.f \in Storing /\ op[u].f \in Storing
                  => ResultHandle(o) # ResultHandle(op[u])
  <2>1. Apart(t, u)
    BY DEF OrderInv
  <2>2. ResultHandle(o) = ResultHandle(op[t])
    BY DEF SameCall, ResultHandle
  <2> QED BY <2>1, <2>2 DEF Apart, SameCall
<1>6. \A h \in Handles : Published(handle[h].node)'
  BY DEF OrderInv, TypeOK, HandleStates, LineGrows, Published
<1> QED BY <1>2, <1>4, <1>5, <1>6, GrowKeeps

(* A step that moves a call and leaves the line of nodes alone.            *)
LEMMA MoveKeeps ==
  ASSUME OrderInv, NEW t \in Threads, LineKept, CountsOK',
         NEW l, NEW i, NEW a, NEW p, NEW j, NEW o,
         MoveTo(t, l, i, a, p, j, o), SameCall(t, l, a, o), Knows(l, i, a, p, j, o)
  PROVE  OrderInv'
<1>1. LineGrows /\ HeapTyped'
  BY DEF OrderInv, TypeOK, LineKept, LineGrows, HeapTyped, HasNext
<1>2. ChainOrdered'
  <2>1. UNCHANGED <<prev, mem, stamp, count>> /\ \A n \in Nodes : next'[n].ptr = next[n].ptr
    BY DEF LineKept
  <2> QED BY <2>1 DEF OrderInv, ChainOrdered, Published, HasNext
<1>3. UNCHANGED <<prev, mem, handle>>
  BY DEF LineKept
<1> QED BY <1>1, <1>2, <1>3, LineKeeps

(* What the invariant says of one thread: its locals are typed and it knows what its label promises. *)
LEMMA RegistersTyped ==
  ASSUME OrderInv, NEW t \in Threads
  PROVE  /\ pc[t] \in Labels /\ item[t] \in Nodes /\ av[t] \in AdvanceFrames
         /\ pd[t] \in PayloadFrames /\ jn[t] \in JanitorFrames /\ op[t] \in CallFrames
         /\ dr[t] \in DropFrames
         /\ Knows(pc[t], item[t], av[t], pd[t], jn[t], op[t])
  BY DEF OrderInv, TypeOK, Local

(* A step that only goes to another label.                                 *)
LEMMA JumpKeeps ==
  ASSUME OrderInv, NEW t \in Threads, LineKept, CountsOK',
         NEW l \in Labels, Goto(t, l), UNCHANGED <<item, av, pd, jn, op>>,
         pc[t] # "idle", Linking(l, av[t]) => Linking(pc[t], av[t]),
         Knows(l, item[t], av[t], pd[t], jn[t], op[t])
  PROVE  OrderInv'
<1>1. MoveTo(t, l, item[t], av[t], pd[t], jn[t], op[t])
  BY DEF MoveTo, Goto, OrderInv, TypeOK
<1>2. SameCall(t, l, av[t], op[t])
  BY DEF SameCall
<1> QED BY <1>1, <1>2, MoveKeeps

(* The frames of functions that are not running.                           *)
LEMMA IdleFramesTyped ==
  /\ IdleNode \in Nodes
  /\ IdleAdvance \in AdvanceFrames
  /\ IdleAdvance.start = IdleNode /\ IdleAdvance.nxt = IdleNode /\ IdleAdvance.ret = "idle"
  /\ IdlePayload \in PayloadFrames /\ IdlePayload.ret = "idle"
  /\ IdleJanitor \in JanitorFrames
  /\ IdleDrop \in DropFrames
  /\ IdleOp \in CallFrames
  /\ IdleOp.val = Null /\ IdleOp.nxt = IdleNode /\ IdleOp.f = "none" /\ IdleOp.since = 0
<1>1. IdleNode \in Nodes /\ Null \in Ptrs /\ 0 \in 0..UsizeMax
  BY HeapAssumption DEF IdleNode, Nodes, Ptrs
<1>2. (CHOOSE h \in Handles : TRUE) \in Handles
  BY HeapAssumption
<1>3. NullNext \in NextWords /\ NoWeak \in WeakWords
  BY <1>1 DEF NullNext, NextWords, NoWeak, WeakWords
<1>4. IdleAdvance \in AdvanceFrames
  BY <1>1 DEF IdleAdvance, AdvanceFrames
<1>5. IdlePayload \in PayloadFrames
  BY <1>1 DEF IdlePayload, PayloadFrames
<1>6. IdleJanitor \in JanitorFrames
  BY <1>1 DEF IdleJanitor, JanitorFrames, JanitorStatus
<1>7. IdleDrop \in DropFrames
  BY <1>3 DEF IdleDrop, DropFrames
<1>8. IdleOp \in CallFrames
  BY <1>1, <1>2, <1>3 DEF IdleOp, CallFrames
<1> QED BY <1>1, <1>4, <1>5, <1>6, <1>7, <1>8 DEF IdleAdvance, IdlePayload, IdleOp

(* A step that starts an advance from a node of the chain: nothing is known *)
(* about where it will end.                                                *)
LEMMA StartKeeps ==
  ASSUME OrderInv, NEW t \in Threads, LineKept, CountsOK',
         NEW n \in Nodes, Published(n), NEW mode \in {"strong", "weak"},
         NEW ret \in {"jan_lock", "ds_dec", "upd_next", "upg_strong", "reading", "ret"},
         StartAdvance(t, n, mode, ret), UNCHANGED pd,
         NEW j \in JanitorFrames, jn' = [jn EXCEPT ![t] = j],
         NEW o \in CallFrames, op' = [op EXCEPT ![t] = o],
         o.val = op[t].val, o.f = op[t].f, o.hnd = op[t].hnd, o.out = op[t].out,
         o.since = op[t].since, o.nxt = op[t].nxt,
         pc[t] \notin {"idle"} \cup Dropping,
         ret = "upd_next" => Linking(pc[t], av[t])
  PROVE  OrderInv'
<1> DEFINE a == [IdleAdvance EXCEPT !.start = n, !.nxt = n, !.mode = mode, !.ret = ret]
<1>1. a \in AdvanceFrames /\ a.start = n /\ a.nxt = n /\ a.ret = ret
  <2>1. IdleAdvance \in AdvanceFrames
    BY IdleFramesTyped
  <2> QED BY <2>1 DEF AdvanceFrames
<1>2. av' = [av EXCEPT ![t] = a]
  BY DEF StartAdvance
<1> HIDE DEF a
<1>3. MoveTo(t, "adv_load", n, a, pd[t], j, o)
  BY <1>1, <1>2 DEF MoveTo, StartAdvance, Goto, OrderInv, TypeOK, Labels
<1>4. SameCall(t, "adv_load", a, o)
  BY <1>1 DEF SameCall, Linking
<1>5. Knows("adv_load", n, a, pd[t], j, o)
  <2>1. Knows(pc[t], item[t], av[t], pd[t], jn[t], op[t])
    BY RegistersTyped
  <2>2. Frames("adv_load", a, pd[t])
    BY <2>1 DEF Knows, Frames, Advancing, Dropping, Walking
  <2>3. OnChain("adv_load", n, a, o)
    BY <1>1, <2>1 DEF Knows, OnChain
  <2>4. NewNode("adv_load", n, a, pd[t], o)
    BY <1>1, <2>1 DEF Knows, NewNode, Linking, Linked, Frames
  <2>5. JanitorOrdered("adv_load", n, j)
    BY DEF JanitorOrdered
  <2>6. UpToDate("adv_load", n, o)
    BY <2>1 DEF Knows, UpToDate, Walking
  <2>7. HandleKept("adv_load", o)
    BY <2>1 DEF Knows, HandleKept, ResultHandle
  <2> QED BY <2>2, <2>3, <2>4, <2>5, <2>6, <2>7 DEF Knows
<1> QED BY <1>3, <1>4, <1>5, MoveKeeps

(* A step that starts do_drop_payload_if_possible.                         *)
LEMMA PayloadKeeps ==
  ASSUME OrderInv, NEW t \in Threads, LineKept, CountsOK',
         NEW n \in Nodes, NEW override \in BOOLEAN,
         NEW ret \in {"advs_a_decw", "dw_cas", "upd_decw"},
         StartPayloadDrop(t, n, override, ret), UNCHANGED <<item, av, jn, op>>,
         pc[t] \notin {"idle", "get_load"} \cup Walking \cup SharedGetting \cup Dropping,
         ret # "advs_a_decw" => av[t].ret = "idle",
         ret = "upd_decw" => Linked(pc[t], pd[t])
  PROVE  OrderInv'
<1> DEFINE p == [tgt |-> n, override |-> override, ret |-> ret]
<1>1. p \in PayloadFrames /\ p.ret = ret
  BY DEF PayloadFrames
<1>2. pd' = [pd EXCEPT ![t] = p] /\ pc' = [pc EXCEPT ![t] = "pay_mark"]
  BY DEF StartPayloadDrop, Goto
<1> HIDE DEF p
<1>3. MoveTo(t, "pay_mark", item[t], av[t], p, jn[t], op[t])
  BY <1>1, <1>2 DEF MoveTo, OrderInv, TypeOK, Labels
<1>4. SameCall(t, "pay_mark", av[t], op[t])
  BY DEF SameCall, Linking
<1>5. Knows("pay_mark", item[t], av[t], p, jn[t], op[t])
  <2>1. Knows(pc[t], item[t], av[t], pd[t], jn[t], op[t])
    BY RegistersTyped
  <2>2. Frames("pay_mark", av[t], p)
    BY <1>1 DEF Frames, Dropping
  <2>3. OnChain("pay_mark", item[t], av[t], op[t])
    BY <2>1 DEF Knows, OnChain
  <2>4. NewNode("pay_mark", item[t], av[t], p, op[t])
    BY <1>1, <2>1 DEF Knows, NewNode, Linking, Linked
  <2>5. JanitorOrdered("pay_mark", item[t], jn[t])
    BY DEF JanitorOrdered
  <2>6. UpToDate("pay_mark", item[t], op[t])
    BY <2>1 DEF Knows, UpToDate
  <2>7. HandleKept("pay_mark", op[t])
    BY <2>1 DEF Knows, HandleKept
  <2> QED BY <2>2, <2>3, <2>4, <2>5, <2>6, <2>7 DEF Knows
<1> QED BY <1>3, <1>4, <1>5, MoveKeeps

-----------------------------------------------------------------------------
(* Which words a step changes.                                             *)

(* A load leaves the chain as it is.                                       *)
LEMMA ReadOnlyKept ==
  ASSUME OrderInv, ReadOnly, dr' \in [Threads -> DropFrames] PROVE LineKept /\ CountsOK'
  BY DEF OrderInv, TypeOK, ReadOnly, heap, client, LineKept, CountsOK

(* A step on weak_count leaves the order of the chain as it is.            *)
LEMMA OnlyWeakKept ==
  ASSUME OrderInv, OnlyWeak, weak' \in [Nodes -> WeakWords], dr' \in [Threads -> DropFrames]
  PROVE  LineKept /\ CountsOK'
  BY DEF OrderInv, TypeOK, OnlyWeak, client, LineKept, CountsOK

(* A step on strong_count leaves the order of the chain as it is.          *)
LEMMA OnlyStrongKept ==
  ASSUME OrderInv, OnlyStrong, strong' \in [Nodes -> 0..UsizeMax], dr' \in [Threads -> DropFrames]
  PROVE  LineKept /\ CountsOK'
  BY DEF OrderInv, TypeOK, OnlyStrong, client, LineKept, CountsOK

(* A step on advance_count leaves the order of the chain as it is.         *)
LEMMA OnlyAdvKept ==
  ASSUME OrderInv, OnlyAdv, adv' \in [Nodes -> Int], dr' \in [Threads -> DropFrames]
  PROVE  LineKept /\ CountsOK'
  BY DEF OrderInv, TypeOK, OnlyAdv, client, LineKept, CountsOK

(* A step on the flags of next leaves the order of the chain as it is.     *)
LEMMA OnlyNextKept ==
  ASSUME OrderInv, OnlyNext, next' \in [Nodes -> NextWords],
         \A n \in Nodes : next'[n].ptr = next[n].ptr, dr' \in [Threads -> DropFrames]
  PROVE  LineKept /\ CountsOK'
  BY DEF OrderInv, TypeOK, OnlyNext, client, LineKept, CountsOK

(* fetch_add and fetch_sub on weak_count keep its type.                    *)
LEMMA WeakTyped ==
  ASSUME TypeOK, NEW n \in Nodes, AddWeak(n) \/ SubWeak(n)
  PROVE  weak' \in [Nodes -> WeakWords]
<1>1. weak[n] \in WeakWords
  BY DEF TypeOK
<1>2. CASE AddWeak(n)
  <2> DEFINE w == [weak[n] EXCEPT !.count = weak[n].count + 1]
  <2>1. w \in WeakWords
    BY <1>1 DEF WeakWords
  <2>2. weak' = [weak EXCEPT ![n] = w]
    BY <1>2 DEF AddWeak
  <2> HIDE DEF w
  <2> QED BY <2>1, <2>2 DEF TypeOK
<1>3. CASE SubWeak(n)
  <2> DEFINE w == [weak[n] EXCEPT !.count = weak[n].count - 1]
  <2>1. w \in WeakWords
    BY <1>1 DEF WeakWords
  <2>2. weak' = [weak EXCEPT ![n] = w]
    BY <1>3 DEF SubWeak
  <2> HIDE DEF w
  <2> QED BY <2>1, <2>2 DEF TypeOK
<1> QED BY <1>2, <1>3

(* fetch_add and fetch_sub on strong_count keep its type: they wrap around. *)
LEMMA StrongTyped ==
  ASSUME TypeOK, NEW n \in Nodes, AddStrong(n) \/ SubStrong(n)
  PROVE  strong' \in [Nodes -> 0..UsizeMax]
<1>1. strong[n] \in 0..UsizeMax
  BY DEF TypeOK
<1>2. Inc(strong[n]) \in 0..UsizeMax /\ Dec(strong[n]) \in 0..UsizeMax
  BY <1>1, HeapAssumption DEF Inc, Dec
<1> QED BY <1>2 DEF TypeOK, AddStrong, SubStrong

(* A new next word with the same pointer keeps the type of next and every pointer. *)
LEMMA FlagTyped ==
  ASSUME TypeOK, NEW n \in Nodes, NEW w \in NextWords, w.ptr = next[n].ptr,
         next' = [next EXCEPT ![n] = w]
  PROVE  next' \in [Nodes -> NextWords] /\ \A m \in Nodes : next'[m].ptr = next[m].ptr
  BY DEF TypeOK

(* Locking, disturbing, unlocking and marking dropped keep every pointer.  *)
LEMMA FlagsTyped ==
  ASSUME TypeOK, NEW n \in Nodes,
         Lock(n) \/ Disturb(n) \/ Unlock(n) \/ next' = [next EXCEPT ![n].dropped = TRUE]
  PROVE  next' \in [Nodes -> NextWords] /\ \A m \in Nodes : next'[m].ptr = next[m].ptr
<1>1. next[n] \in NextWords
  BY DEF TypeOK
<1>2. /\ [next[n] EXCEPT !.locked = TRUE] \in NextWords
      /\ [next[n] EXCEPT !.locked = TRUE].ptr = next[n].ptr
  BY <1>1 DEF NextWords
<1>3. /\ [next[n] EXCEPT !.disturbed = TRUE] \in NextWords
      /\ [next[n] EXCEPT !.disturbed = TRUE].ptr = next[n].ptr
  BY <1>1 DEF NextWords
<1>4. /\ [next[n] EXCEPT !.locked = FALSE, !.disturbed = FALSE] \in NextWords
      /\ [next[n] EXCEPT !.locked = FALSE, !.disturbed = FALSE].ptr = next[n].ptr
  BY <1>1 DEF NextWords
<1>5. /\ [next[n] EXCEPT !.dropped = TRUE] \in NextWords
      /\ [next[n] EXCEPT !.dropped = TRUE].ptr = next[n].ptr
  BY <1>1 DEF NextWords
<1>6. CASE Lock(n)
  BY <1>2, <1>6, FlagTyped DEF Lock
<1>7. CASE Disturb(n)
  BY <1>3, <1>7, FlagTyped DEF Disturb
<1>8. CASE Unlock(n)
  <2>1. next' = [next EXCEPT ![n] = [next[n] EXCEPT !.locked = FALSE, !.disturbed = FALSE]]
    BY <1>8 DEF Unlock
  <2> QED BY <1>4, <2>1, FlagTyped
<1>9. CASE next' = [next EXCEPT ![n].dropped = TRUE]
  BY <1>5, <1>9, FlagTyped
<1> QED BY <1>6, <1>7, <1>8, <1>9

-----------------------------------------------------------------------------
(* The steps of the janitor keep OrderInv: it redirects and unlinks, but   *)
(* only ever to the right and to the left, respectively. So do those of    *)
(* giving a reference back, the rest of which is the janitor's.            *)

(* A step that moves the janitor and leaves the line of nodes alone.       *)
LEMMA SweepKeeps ==
  ASSUME OrderInv, NEW t \in Threads, LineKept, CountsOK',
         NEW l \in Janitoring \cup {"idle", "dw_weak", "upd_done", "get_done"}, Goto(t, l),
         NEW j \in JanitorFrames, jn' = [jn EXCEPT ![t] = j],
         UNCHANGED <<item, av, pd, op>>, pc[t] \in Janitoring,
         JanitorOrdered(l, item[t], j)
  PROVE  OrderInv'
<1>1. Knows(pc[t], item[t], av[t], pd[t], jn[t], op[t])
  BY RegistersTyped
<1>2. MoveTo(t, l, item[t], av[t], pd[t], j, op[t])
  BY DEF MoveTo, Goto, OrderInv, TypeOK, Janitoring, Labels
<1>3. SameCall(t, l, av[t], op[t])
  BY DEF SameCall, Linking, Janitoring
<1>4. Frames(l, av[t], pd[t])
  BY <1>1 DEF Knows, Frames, Janitoring, Advancing, Dropping, Walking, Swapping, SwappedIn
<1>5. OnChain(l, item[t], av[t], op[t])
  BY <1>1 DEF Knows, OnChain, Janitoring
<1>6. NewNode(l, item[t], av[t], pd[t], op[t])
  BY <1>1 DEF Knows, NewNode, Linking, Linked, Janitoring
<1>7. UpToDate(l, item[t], op[t])
  BY <1>1 DEF Knows, UpToDate, Janitoring, Walking, SharedGetting
<1>8. HandleKept(l, op[t])
  BY <1>1 DEF Knows, HandleKept, Janitoring
<1>9. Knows(l, item[t], av[t], pd[t], j, op[t])
  BY <1>4, <1>5, <1>6, <1>7, <1>8 DEF Knows
<1> QED BY <1>2, <1>3, <1>9, MoveKeeps

(* The end of the janitor.                                                 *)
LEMMA ReturnJanitorKeeps ==
  ASSUME OrderInv, NEW t \in Threads, LineKept, CountsOK',
         NEW rerun \in BOOLEAN, NEW status \in JanitorStatus, ReturnJanitor(t, rerun, status),
         UNCHANGED <<item, av, pd, op>>, pc[t] \in Janitoring
  PROVE  OrderInv'
<1> DEFINE j == [IdleJanitor EXCEPT !.rerun = rerun, !.status = status, !.ret = jn[t].ret]
<1>1. jn[t].ret \in {"idle", "dw_weak", "upd_done", "get_done"}
  BY RegistersTyped DEF JanitorFrames
<1>2. j \in JanitorFrames
  BY <1>1, IdleFramesTyped DEF JanitorFrames
<1>3. jn' = [jn EXCEPT ![t] = j] /\ Goto(t, jn[t].ret)
  BY DEF ReturnJanitor
<1>4. JanitorOrdered(jn[t].ret, item[t], j)
  BY <1>1 DEF JanitorOrdered
<1> HIDE DEF j
<1> QED BY <1>1, <1>2, <1>3, <1>4, SweepKeeps

(* What is left of a node of the chain is older.                           *)
LEMMA PrevIsOlder ==
  ASSUME OrderInv, NEW n \in Nodes, Published(n), prev[n] # Null
  PROVE  prev[n] \in Nodes /\ Older(prev[n], n)
<1>1. prev[n] \in Nodes
  BY DEF OrderInv, TypeOK, Ptrs
<1>2. n # Null
  BY DEF Nodes, Null
<1> QED BY <1>1, <1>2 DEF OrderInv, ChainOrdered, Older

(* What is left of a node is left of every node to the right of it.        *)
LEMMA OlderIsTransitive ==
  ASSUME TypeOK, NEW k \in Nodes, NEW m \in Nodes, NEW n \in Nodes, Older(k, m), Older(m, n)
  PROVE  Older(k, n) /\ Published(n)
  BY DEF Older, TypeOK, Published

(* Every step of the janitor.                                              *)
LEMMA JanitorKeeps ==
  ASSUME OrderInv, NEW t \in Threads, JanitorStep(t) PROVE OrderInv'
<1>0. /\ item[t] \in Nodes /\ jn[t] \in JanitorFrames /\ op[t] \in CallFrames /\ Published(item[t])
      /\ JanitorOrdered(pc[t], item[t], jn[t])
      /\ dr \in [Threads -> DropFrames] /\ jn \in [Threads -> JanitorFrames] /\ TypeOK
  BY RegistersTyped DEF OrderInv, TypeOK, Knows, OnChain
<1>a. /\ jn[t].cur \in Ptrs /\ jn[t].cand \in Ptrs /\ jn[t].prv \in Ptrs /\ jn[t].right \in Ptrs
      /\ jn[t].del \in Ptrs /\ jn[t].carry \in Ptrs /\ jn[t].fail \in Ptrs /\ jn[t].rdel \in Ptrs
      /\ jn[t].rerun \in BOOLEAN /\ jn[t].seen \in BOOLEAN
      /\ jn[t].ret \in {"idle", "dw_weak", "upd_done", "get_done"}
  BY <1>0 DEF JanitorFrames
<1>b. \A n \in Ptrs : n # Null => n \in Nodes
  BY DEF Ptrs
<1>c. item[t] # Null /\ Null \in Ptrs
  BY <1>0 DEF Nodes, Null, Ptrs
<1>1. CASE JanitorLockStart(t)
  <2> DEFINE n == item[t]
             r == [IdleJanitor EXCEPT !.cur = prev[n], !.cand = prev[n], !.ret = jn[t].ret]
             l == IF prev[n] = Null THEN "jan_unlock" ELSE "jan_sweep"
  <2>1. /\ pc[t] = "jan_lock" /\ UNCHANGED <<item, av, pd, dr, op>> /\ OnlyNext
        /\ Lock(n) \/ Disturb(n)
    BY <1>1 DEF JanitorLockStart, Janitor
  <2>2. LineKept /\ CountsOK'
    BY <1>0, <2>1, FlagsTyped, OnlyNextKept
  <2>3. CASE next[n].locked
    BY <1>1, <2>1, <2>2, <2>3, ReturnJanitorKeeps DEF JanitorLockStart, Janitoring, JanitorStatus
  <2>4. CASE ~next[n].locked
    <3>1. prev[n] \in Ptrs
      BY <1>0 DEF TypeOK
    <3>2. r \in JanitorFrames /\ r.cur = prev[n] /\ r.cand = prev[n]
      BY <1>a, <3>1, IdleFramesTyped DEF JanitorFrames
    <3>3. jn' = [jn EXCEPT ![t] = r] /\ Goto(t, l)
      BY <1>1, <2>4 DEF JanitorLockStart
    <3>4. JanitorOrdered(l, item[t], r)
      BY <1>0, <3>2, PrevIsOlder DEF JanitorOrdered
    <3> HIDE DEF r
    <3> QED BY <2>1, <2>2, <3>2, <3>3, <3>4, SweepKeeps DEF Janitoring
  <2> QED BY <2>3, <2>4
<1>2. CASE JanitorSweep(t)
  <2> DEFINE n == jn[t].cur
  <2>1. /\ pc[t] = "jan_sweep" /\ UNCHANGED <<item, av, pd, dr, op>> /\ OnlyNext
        /\ Lock(n) \/ Disturb(n)
    BY <1>2 DEF JanitorSweep, Janitor
  <2>2. n \in Nodes /\ Older(n, item[t]) /\ Older(jn[t].cand, item[t]) /\ prev[n] \in Ptrs
    BY <1>0, <1>a, <1>b, <2>1 DEF JanitorOrdered, Older, TypeOK
  <2>3. LineKept /\ CountsOK'
    BY <1>0, <2>1, <2>2, FlagsTyped, OnlyNextKept
  <2>4. CASE next[n].locked
    <3> DEFINE r == [jn[t] EXCEPT !.fail = n, !.cur = jn[t].cand]
    <3>1. r \in JanitorFrames
      BY <1>0, <1>a DEF JanitorFrames
    <3>2. jn' = [jn EXCEPT ![t] = r] /\ Goto(t, "jan_clean")
      BY <1>2, <2>4 DEF JanitorSweep
    <3>3. JanitorOrdered("jan_clean", item[t], r)
      BY DEF JanitorOrdered
    <3> HIDE DEF r
    <3> QED BY <2>1, <2>3, <3>1, <3>2, <3>3, SweepKeeps DEF Janitoring
  <2>5. CASE ~next[n].locked /\ prev[n] = Null
    <3> DEFINE r == [jn[t] EXCEPT !.cur = jn[t].cand]
    <3>1. r \in JanitorFrames /\ r.cur = jn[t].cand /\ r.cand = jn[t].cand
      BY <1>0, <1>a DEF JanitorFrames
    <3>2. jn' = [jn EXCEPT ![t] = r] /\ Goto(t, "jan_strong")
      BY <1>2, <2>5 DEF JanitorSweep
    <3>3. JanitorOrdered("jan_strong", item[t], r)
      BY <2>2, <3>1 DEF JanitorOrdered
    <3> HIDE DEF r
    <3> QED BY <2>1, <2>3, <3>1, <3>2, <3>3, SweepKeeps DEF Janitoring
  <2>6. CASE ~next[n].locked /\ prev[n] # Null
    <3> DEFINE r == [jn[t] EXCEPT !.cur = prev[n]]
    <3>1. r \in JanitorFrames /\ r.cur = prev[n] /\ r.cand = jn[t].cand
      BY <1>0, <2>2 DEF JanitorFrames
    <3>2. jn' = [jn EXCEPT ![t] = r] /\ Goto(t, "jan_sweep")
      BY <1>0, <1>2, <2>1, <2>6 DEF JanitorSweep, Goto, TypeOK
    <3>3. Older(prev[n], item[t])
      BY <1>0, <2>2, <2>6, PrevIsOlder, OlderIsTransitive DEF Older
    <3>4. JanitorOrdered("jan_sweep", item[t], r)
      BY <2>2, <3>1, <3>3 DEF JanitorOrdered
    <3> HIDE DEF r
    <3> QED BY <2>1, <2>3, <3>1, <3>2, <3>4, SweepKeeps DEF Janitoring
  <2> QED BY <2>4, <2>5, <2>6
<1>3. CASE JanitorCleanup(t)
  <2> DEFINE n == jn[t].cur
  <2>1. pc[t] = "jan_clean" /\ UNCHANGED <<item, av, pd, dr, op>> /\ OnlyNext
    BY <1>3 DEF JanitorCleanup, Janitor
  <2>2. CASE n \notin {jn[t].fail, Null}
    <3> DEFINE b == jn[t].rerun \/ next[n].disturbed
               r == [jn[t] EXCEPT !.cur = prev[n], !.rerun = b]
    <3>1. n \in Nodes /\ prev[n] \in Ptrs /\ b \in BOOLEAN
      BY <1>0, <1>a, <1>b, <2>2 DEF TypeOK
    <3>2. LineKept /\ CountsOK'
      BY <1>0, <1>3, <2>1, <2>2, <3>1, FlagsTyped, OnlyNextKept DEF JanitorCleanup
    <3>3. jn' = [jn EXCEPT ![t] = r] /\ Goto(t, "jan_clean")
      BY <1>0, <1>3, <2>1, <2>2 DEF JanitorCleanup, Goto, TypeOK
    <3> HIDE DEF b
    <3>4. r \in JanitorFrames
      BY <1>0, <3>1 DEF JanitorFrames
    <3>5. JanitorOrdered("jan_clean", item[t], r)
      BY DEF JanitorOrdered
    <3> HIDE DEF r
    <3> QED BY <2>1, <3>2, <3>3, <3>4, <3>5, SweepKeeps DEF Janitoring
  <2>3. CASE n \in {jn[t].fail, Null}
    <3> DEFINE b == jn[t].rerun \/ n = Null
               r == [jn[t] EXCEPT !.cur = Null, !.rerun = b]
    <3>1. LineKept /\ CountsOK'
      BY <1>0, <1>3, <2>1, <2>3, OnlyNextKept DEF JanitorCleanup, TypeOK
    <3>2. b \in BOOLEAN
      OBVIOUS
    <3>3. jn' = [jn EXCEPT ![t] = r] /\ Goto(t, "jan_unlock")
      BY <1>3, <2>3 DEF JanitorCleanup
    <3> HIDE DEF b
    <3>4. r \in JanitorFrames
      BY <1>0, <1>c, <3>2 DEF JanitorFrames
    <3>5. JanitorOrdered("jan_unlock", item[t], r)
      BY DEF JanitorOrdered
    <3> HIDE DEF r
    <3> QED BY <2>1, <3>1, <3>3, <3>4, <3>5, SweepKeeps DEF Janitoring
  <2> QED BY <2>2, <2>3
<1>4. CASE JanitorUnlockStart(t)
  <2>1. pc[t] = "jan_unlock" /\ UNCHANGED <<item, av, pd, dr, op>> /\ OnlyNext /\ Unlock(item[t])
    BY <1>4 DEF JanitorUnlockStart, Janitor
  <2>2. LineKept /\ CountsOK'
    BY <1>0, <2>1, FlagsTyped, OnlyNextKept
  <2> DEFINE b == jn[t].rerun \/ next[item[t]].disturbed
  <2>3. b \in BOOLEAN /\ StrongStatus(jn[t]) \in JanitorStatus
    BY DEF StrongStatus, JanitorStatus
  <2>4. ReturnJanitor(t, b, StrongStatus(jn[t]))
    BY <1>4 DEF JanitorUnlockStart
  <2> HIDE DEF b
  <2> QED BY <2>1, <2>2, <2>3, <2>4, ReturnJanitorKeeps DEF Janitoring
<1>5. CASE JanitorStrong(t)
  <2> DEFINE n == jn[t].cur
             s == jn[t].seen \/ LiveStrong(strong[n]) > 0
  <2>1. pc[t] = "jan_strong" /\ UNCHANGED <<item, av, pd, dr, op>> /\ ReadOnly
    BY <1>5 DEF JanitorStrong, Janitor
  <2>2. LineKept /\ CountsOK'
    BY <1>0, <2>1, ReadOnlyKept
  <2>3. /\ n \in Nodes /\ Older(n, item[t]) /\ Older(jn[t].cand, item[t]) /\ prev[n] \in Ptrs
        /\ s \in BOOLEAN
    BY <1>0, <1>a, <1>b, <2>1 DEF JanitorOrdered, Older, TypeOK
  <2>4. CASE prev[n] # Null
    <3> DEFINE r == [jn[t] EXCEPT !.seen = s, !.prv = prev[n]]
    <3>1. jn' = [jn EXCEPT ![t] = r] /\ Goto(t, "jan_setnext")
      BY <1>5, <2>4 DEF JanitorStrong
    <3> HIDE DEF s
    <3>2. r \in JanitorFrames /\ r.cur = n /\ r.cand = jn[t].cand /\ r.prv = prev[n]
      BY <1>0, <2>3 DEF JanitorFrames
    <3>3. Older(prev[n], item[t])
      BY <1>0, <2>3, <2>4, PrevIsOlder, OlderIsTransitive DEF Older
    <3>4. JanitorOrdered("jan_setnext", item[t], r)
      BY <2>3, <3>2, <3>3 DEF JanitorOrdered
    <3> HIDE DEF r
    <3> QED BY <2>1, <2>2, <3>1, <3>2, <3>4, SweepKeeps DEF Janitoring
  <2>5. CASE prev[n] = Null
    <3> DEFINE r == [jn[t] EXCEPT !.seen = s, !.cur = jn[t].cand, !.right = item[t]]
    <3>1. jn' = [jn EXCEPT ![t] = r] /\ Goto(t, "jan_final")
      BY <1>5, <2>5 DEF JanitorStrong
    <3> HIDE DEF s
    <3>2. r \in JanitorFrames /\ r.cur = jn[t].cand /\ r.right = item[t]
      BY <1>0, <1>a, <2>3 DEF JanitorFrames, Ptrs
    <3>3. JanitorOrdered("jan_final", item[t], r)
      BY <1>0, <1>c, <2>3, <3>2 DEF JanitorOrdered
    <3> HIDE DEF r
    <3> QED BY <2>1, <2>2, <3>1, <3>2, <3>3, SweepKeeps DEF Janitoring
  <2> QED BY <2>4, <2>5
<1>6. CASE JanitorSetNext(t)
  <2> DEFINE m == jn[t].prv
             w == [next[m] EXCEPT !.ptr = item[t]]
  <2>1. /\ pc[t] = "jan_setnext" /\ UNCHANGED <<item, av, pd, dr, jn, op>> /\ OnlyNext
        /\ Goto(t, "jan_adv")
    BY <1>6 DEF JanitorSetNext, Janitor
  <2>2. m \in Nodes /\ Older(m, item[t])
    BY <1>0, <1>a, <1>b, <2>1 DEF JanitorOrdered, Older
  <2>3. next[m] \in NextWords /\ w \in NextWords /\ w.ptr = item[t]
    BY <1>0, <2>2 DEF TypeOK, NextWords, Ptrs
  <2>4. next' = [next EXCEPT ![m] = w]
    BY <1>6 DEF JanitorSetNext, SetNext
  <2> HIDE DEF m, w
  <2>5. /\ next' \in [Nodes -> NextWords]
        /\ next'[m].ptr = item[t] /\ \A n \in Nodes \ {m} : next'[n].ptr = next[n].ptr
    BY <1>0, <2>2, <2>3, <2>4 DEF TypeOK
  <2>6. UNCHANGED <<prev, strong, weak, adv, mem, drops, handle, left, stamp, count>>
    BY <2>1 DEF OnlyNext, client
  <2>7. LineGrows
    BY <1>0, <1>c, <2>5, <2>6 DEF LineGrows, HasNext, TypeOK
  <2>8. CountsOK' /\ HeapTyped'
    BY <1>0, <2>1, <2>5, <2>6 DEF CountsOK, HeapTyped, TypeOK
  <2>9. ChainOrdered'
    <3>1. ChainOrdered
      BY DEF OrderInv
    <3>2. \A n \in Nodes : HasNext(n)' => stamp'[n] > 0 /\ stamp'[next'[n].ptr] > stamp'[n]
      <4>1. SUFFICES ASSUME NEW n \in Nodes, HasNext(n)'
                     PROVE  stamp[n] > 0 /\ stamp[next'[n].ptr] > stamp[n]
        BY <2>6
      <4>2. CASE n = m
        BY <1>0, <2>2, <2>5, <4>2 DEF Older, Published, TypeOK
      <4>3. CASE n # m
        BY <2>5, <3>1, <4>1, <4>3 DEF ChainOrdered, HasNext
      <4> QED BY <4>2, <4>3
    <3>3. \A n \in Nodes : Published(n)' /\ ~HasNext(n)' => stamp'[n] = count'
      BY <2>6, <2>7, <3>1 DEF ChainOrdered, Published, LineGrows
    <3> QED BY <2>6, <3>1, <3>2, <3>3 DEF ChainOrdered, Published
  <2>10. MoveTo(t, "jan_adv", item[t], av[t], pd[t], jn[t], op[t])
    BY <2>1 DEF MoveTo, Goto, OrderInv, TypeOK, Labels
  <2>11. SameCall(t, "jan_adv", av[t], op[t])
    BY <2>1 DEF SameCall, Linking
  <2>12. Knows("jan_adv", item[t], av[t], pd[t], jn[t], op[t])
    BY <2>1, RegistersTyped DEF Knows, Frames, OnChain, NewNode, JanitorOrdered, UpToDate,
       HandleKept, Linking, Linked, Advancing, Dropping, Walking, Swapping, SwappedIn, SharedGetting
  <2> QED BY <2>6, <2>7, <2>8, <2>9, <2>10, <2>11, <2>12, LineKeeps
<1>7. CASE JanitorCheckAdvance(t)
  <2> DEFINE m == jn[t].prv
             d == IF AdvanceInProgress(m) THEN jn[t].cur ELSE jn[t].rdel
             r == [jn[t] EXCEPT !.rdel = d, !.cur = m]
  <2>1. pc[t] = "jan_adv" /\ UNCHANGED <<item, av, pd, dr, op>> /\ ReadOnly /\ Goto(t, "jan_strong")
    BY <1>7 DEF JanitorCheckAdvance, Janitor
  <2>2. LineKept /\ CountsOK'
    BY <1>0, <2>1, ReadOnlyKept
  <2>3. jn' = [jn EXCEPT ![t] = r]
    BY <1>7 DEF JanitorCheckAdvance
  <2>4. d \in Ptrs
    BY <1>a
  <2> HIDE DEF d
  <2>5. r \in JanitorFrames /\ r.cur = m /\ r.cand = jn[t].cand
    BY <1>0, <1>a, <2>4 DEF JanitorFrames
  <2>6. JanitorOrdered("jan_strong", item[t], r)
    BY <1>0, <2>1, <2>5 DEF JanitorOrdered
  <2> HIDE DEF r
  <2> QED BY <2>1, <2>2, <2>3, <2>5, <2>6, SweepKeeps DEF Janitoring
<1>8. CASE JanitorFinal(t)
  <2> DEFINE n == jn[t].cur
  <2>1. pc[t] = "jan_final" /\ UNCHANGED <<item, av, pd, dr, op>> /\ ReadOnly
    BY <1>8 DEF JanitorFinal, Janitor
  <2>2. LineKept /\ CountsOK'
    BY <1>0, <2>1, ReadOnlyKept
  <2>3. jn[t].right # Null /\ Published(jn[t].right) /\ Older(n, jn[t].right)
    BY <1>0, <2>1 DEF JanitorOrdered
  <2>4. CASE jn[t].rdel = Null
    <3> DEFINE r == [jn[t] EXCEPT !.del = n]
    <3>1. r \in JanitorFrames /\ r.cur = n /\ r.del = n /\ r.right = jn[t].right
      BY <1>0, <1>a DEF JanitorFrames
    <3>2. jn' = [jn EXCEPT ![t] = r] /\ Goto(t, "jan_del")
      BY <1>8, <2>4 DEF JanitorFinal
    <3>3. JanitorOrdered("jan_del", item[t], r)
      BY <2>3, <3>1 DEF JanitorOrdered
    <3> HIDE DEF r
    <3> QED BY <2>1, <2>2, <3>1, <3>2, <3>3, SweepKeeps DEF Janitoring
  <2>5. CASE jn[t].rdel # Null
    <3> DEFINE d == IF jn[t].rdel = n THEN Null ELSE jn[t].rdel
               r == [jn[t] EXCEPT !.rdel = d, !.right = n]
    <3>1. jn' = [jn EXCEPT ![t] = r] /\ Goto(t, "jan_carry")
      BY <1>8, <2>5 DEF JanitorFinal
    <3>2. d \in Ptrs
      BY <1>a, <1>c
    <3> HIDE DEF d
    <3>3. r \in JanitorFrames /\ r.right = n
      BY <1>0, <1>a, <3>2 DEF JanitorFrames
    <3>4. JanitorOrdered("jan_carry", item[t], r)
      BY <2>3, <3>3 DEF JanitorOrdered, Older
    <3> HIDE DEF r
    <3> QED BY <2>1, <2>2, <3>1, <3>3, <3>4, SweepKeeps DEF Janitoring
  <2> QED BY <2>4, <2>5
<1>9. CASE JanitorDelete(t)
  <2> DEFINE n == jn[t].del
  <2>1. pc[t] = "jan_del" /\ UNCHANGED <<item, av, pd, dr, op>> /\ ReadOnly
    BY <1>9 DEF JanitorDelete, Janitor
  <2>2. LineKept /\ CountsOK'
    BY <1>0, <2>1, ReadOnlyKept
  <2>3. CASE Deletable(n) \/ n # jn[t].cur
    <3> DEFINE l == IF Deletable(n) THEN "jan_free" ELSE "jan_unlink"
    <3>1. jn' = jn /\ Goto(t, l)
      BY <1>9, <2>3 DEF JanitorDelete
    <3>2. jn' = [jn EXCEPT ![t] = jn[t]]
      BY <1>0, <3>1
    <3>3. JanitorOrdered(l, item[t], jn[t])
      BY <1>0, <2>1 DEF JanitorOrdered
    <3> QED BY <1>0, <2>1, <2>2, <3>1, <3>2, <3>3, SweepKeeps DEF Janitoring
  <2>4. CASE ~Deletable(n) /\ n = jn[t].cur
    <3> DEFINE r == [jn[t] EXCEPT !.right = n]
    <3>1. r \in JanitorFrames /\ r.right = n
      BY <1>0, <1>a DEF JanitorFrames
    <3>2. jn' = [jn EXCEPT ![t] = r] /\ Goto(t, "jan_carry")
      BY <1>9, <2>4 DEF JanitorDelete
    <3>3. JanitorOrdered("jan_carry", item[t], r)
      BY <1>0, <2>1, <3>1 DEF JanitorOrdered, Older
    <3> HIDE DEF r
    <3> QED BY <2>1, <2>2, <3>1, <3>2, <3>3, SweepKeeps DEF Janitoring
  <2> QED BY <2>3, <2>4
<1>10. CASE JanitorFree(t)
  <2> DEFINE n == jn[t].del
             r == [jn[t] EXCEPT !.del = prev[n]]
             l == IF prev[n] = Null THEN "jan_clearprev" ELSE "jan_del"
             o == IF ~next[n].dropped /\ op[t].f = "intoInner" THEN [op[t] EXCEPT !.stolen = n] ELSE op[t]
  <2>1. /\ pc[t] = "jan_free" /\ UNCHANGED <<next, prev, strong, weak, adv, client, item, av, pd, dr>>
        /\ mem' = [mem EXCEPT ![n] = "freed"]
        /\ drops' = drops \/ drops' = [drops EXCEPT ![n] = @ + 1]
    BY <1>10 DEF JanitorFree, Janitor, Deallocate, DropPayload
  <2>2. /\ n \in Nodes /\ Older(n, jn[t].right) /\ prev[n] \in Ptrs /\ Published(n)
        /\ jn[t].right \in Nodes
    BY <1>0, <1>a, <1>b, <2>1 DEF JanitorOrdered, Older, TypeOK
  <2>3. LineGrows
    BY <1>0, <2>1 DEF LineGrows, HasNext, client, TypeOK
  <2>4. CountsOK' /\ HeapTyped'
    BY <1>0, <2>1, <2>2 DEF CountsOK, HeapTyped, TypeOK, client
  <2>5. ChainOrdered'
    <3>1. \A k \in Nodes : mem'[k] \in {"unused", "private"} => mem[k] = mem'[k]
      BY <1>0, <2>1 DEF TypeOK
    <3> QED BY <2>1, <3>1 DEF ChainOrdered, OrderInv, Published, HasNext, client
  <2>6. UNCHANGED handle /\ \A k \in Nodes : ~Published(k) => mem'[k] = mem[k] /\ prev'[k] = prev[k]
    BY <1>0, <2>1, <2>2 DEF client, TypeOK
  <2>7. jn' = [jn EXCEPT ![t] = r] /\ Goto(t, l)
    BY <1>10 DEF JanitorFree
  <2>8. op' = [op EXCEPT ![t] = o]
    BY <1>0, <1>10 DEF JanitorFree, Deallocate, DropPayload, TypeOK
  <2>9. r \in JanitorFrames /\ r.del = prev[n] /\ r.right = jn[t].right /\ r.cur = jn[t].cur
    BY <1>0, <2>2 DEF JanitorFrames
  <2>10. /\ o \in CallFrames /\ o.val = op[t].val /\ o.f = op[t].f /\ o.hnd = op[t].hnd
         /\ o.out = op[t].out /\ o.since = op[t].since /\ o.nxt = op[t].nxt /\ o.nw = op[t].nw
    BY <1>0, <1>a DEF CallFrames
  <2>11. JanitorOrdered(l, item[t], r)
    <3>1. prev[n] # Null => Older(prev[n], jn[t].right)
      BY <1>0, <2>2, PrevIsOlder, OlderIsTransitive
    <3> QED BY <1>0, <2>1, <2>9, <3>1 DEF JanitorOrdered
  <2> HIDE DEF r, o
  <2>12. MoveTo(t, l, item[t], av[t], pd[t], r, o)
    BY <2>1, <2>7, <2>8, <2>9, <2>10 DEF MoveTo, Goto, OrderInv, TypeOK, Labels
  <2>13. SameCall(t, l, av[t], o)
    BY <2>1, <2>10 DEF SameCall, Linking
  <2>14. Knows(l, item[t], av[t], pd[t], r, o)
    BY <2>1, <2>10, <2>11, RegistersTyped DEF Knows, Frames, OnChain, NewNode, UpToDate, HandleKept,
       ResultHandle, Linking, Linked, Advancing, Dropping, Walking, Swapping, SwappedIn, SharedGetting
  <2> HIDE DEF l
  <2> QED BY <2>3, <2>4, <2>5, <2>6, <2>12, <2>13, <2>14, LineKeeps
<1>11. CASE JanitorClearPrev(t)
  <2>1. /\ pc[t] = "jan_clearprev" /\ UNCHANGED <<item, av, pd, dr, jn, op>> /\ OnlyWeak
        /\ weak' = [weak EXCEPT ![jn[t].right].havePrev = FALSE] /\ Goto(t, "jan_unlink")
    BY <1>11 DEF JanitorClearPrev, Janitor
  <2>2. jn[t].right \in Nodes
    BY <1>0, <1>a, <1>b, <2>1 DEF JanitorOrdered
  <2>3. weak' \in [Nodes -> WeakWords]
    <3>1. [weak[jn[t].right] EXCEPT !.havePrev = FALSE] \in WeakWords
      BY <1>0, <2>2 DEF TypeOK, WeakWords
    <3> QED BY <1>0, <2>1, <3>1 DEF TypeOK
  <2>4. LineKept /\ CountsOK'
    BY <1>0, <2>1, <2>3, OnlyWeakKept
  <2>5. jn' = [jn EXCEPT ![t] = jn[t]]
    BY <1>0, <2>1
  <2>6. JanitorOrdered("jan_unlink", item[t], jn[t])
    BY <1>0, <2>1 DEF JanitorOrdered
  <2> QED BY <1>0, <2>1, <2>4, <2>5, <2>6, SweepKeeps DEF Janitoring
<1>12. CASE JanitorUnlink(t)
  <2> DEFINE m == jn[t].right
             n == jn[t].del
             r == IF n = Null THEN jn[t] ELSE [jn[t] EXCEPT !.right = n]
             l == IF n = Null THEN "jan_uncarry" ELSE "jan_carry"
  <2>1. /\ pc[t] = "jan_unlink" /\ UNCHANGED <<item, av, pd, dr, op>> /\ OnlyPrev
        /\ prev' = [prev EXCEPT ![m] = n]
    BY <1>12 DEF JanitorUnlink, Janitor
  <2>2. m \in Nodes /\ Published(m) /\ n \in Ptrs /\ (n # Null => Older(n, m))
    BY <1>0, <1>a, <1>b, <2>1 DEF JanitorOrdered
  <2>3. UNCHANGED <<next, strong, weak, adv, mem, drops, handle, left, stamp, count>>
    BY <2>1 DEF OnlyPrev, client
  <2>4. LineGrows
    BY <1>0, <2>3 DEF LineGrows, HasNext, TypeOK
  <2>5. CountsOK' /\ HeapTyped'
    BY <1>0, <2>1, <2>2, <2>3 DEF CountsOK, HeapTyped, TypeOK
  <2>6. ChainOrdered'
    <3>1. ChainOrdered
      BY DEF OrderInv
    <3>2. \A k \in Nodes : Published(k) /\ prev'[k] # Null => Published(prev'[k]) /\ stamp[prev'[k]] < stamp[k]
      BY <1>0, <2>1, <2>2, <3>1 DEF ChainOrdered, Older, TypeOK
    <3> QED BY <2>3, <3>1, <3>2 DEF ChainOrdered, Published, HasNext
  <2>7. \A k \in Nodes : ~Published(k) => mem'[k] = mem[k] /\ prev'[k] = prev[k]
    BY <1>0, <2>1, <2>2, <2>3 DEF TypeOK
  <2>8. jn' = [jn EXCEPT ![t] = r] /\ Goto(t, l)
    BY <1>0, <1>12 DEF JanitorUnlink
  <2>9. r \in JanitorFrames /\ (n # Null => r.right = n)
    BY <1>0, <2>2 DEF JanitorFrames
  <2>10. JanitorOrdered(l, item[t], r)
    BY <2>2, <2>9 DEF JanitorOrdered, Older
  <2> HIDE DEF r
  <2>11. MoveTo(t, l, item[t], av[t], pd[t], r, op[t])
    BY <2>1, <2>8, <2>9 DEF MoveTo, Goto, OrderInv, TypeOK, Labels
  <2>12. SameCall(t, l, av[t], op[t])
    BY <2>1 DEF SameCall, Linking
  <2>13. Knows(l, item[t], av[t], pd[t], r, op[t])
    BY <2>1, <2>10, RegistersTyped DEF Knows, Frames, OnChain, NewNode, UpToDate, HandleKept,
       Linking, Linked, Advancing, Dropping, Walking, Swapping, SwappedIn, SharedGetting
  <2> HIDE DEF l
  <2> QED BY <2>3, <2>4, <2>5, <2>6, <2>7, <2>11, <2>12, <2>13, LineKeeps
<1>d. /\ (jn[t].rerun \/ CarryDisturbed(t)) \in BOOLEAN
      /\ ReleaseCarry(t) => next' \in [Nodes -> NextWords] /\ \A n \in Nodes : next'[n].ptr = next[n].ptr
  <2>1. CASE jn[t].carry = Null
    BY <1>0, <2>1 DEF ReleaseCarry, TypeOK
  <2>2. CASE jn[t].carry # Null
    BY <1>0, <1>a, <1>b, <2>2, FlagsTyped DEF ReleaseCarry
  <2> QED BY <2>1, <2>2
<1>13. CASE JanitorCarry(t)
  <2> DEFINE n == jn[t].right
             b == jn[t].rerun \/ CarryDisturbed(t)
             r == [jn[t] EXCEPT !.cur = prev[n], !.carry = n, !.del = Null, !.rerun = b]
             l == IF prev[n] = Null THEN "jan_uncarry" ELSE "jan_final"
  <2>1. /\ pc[t] = "jan_carry" /\ UNCHANGED <<item, av, pd, dr, op>> /\ OnlyNext /\ ReleaseCarry(t)
    BY <1>13 DEF JanitorCarry, Janitor
  <2>2. n \in Nodes /\ Published(n) /\ prev[n] \in Ptrs /\ b \in BOOLEAN /\ n # Null
    BY <1>0, <1>a, <1>b, <1>d, <2>1 DEF JanitorOrdered, TypeOK
  <2>3. LineKept /\ CountsOK'
    BY <1>0, <1>d, <2>1, OnlyNextKept
  <2>4. jn' = [jn EXCEPT ![t] = r] /\ Goto(t, l)
    BY <1>13 DEF JanitorCarry
  <2> HIDE DEF b
  <2>5. r \in JanitorFrames /\ r.cur = prev[n] /\ r.right = n
    BY <1>0, <1>a, <1>c, <2>2 DEF JanitorFrames
  <2>6. JanitorOrdered(l, item[t], r)
    BY <2>2, <2>5, PrevIsOlder DEF JanitorOrdered
  <2> HIDE DEF r
  <2> QED BY <2>1, <2>3, <2>4, <2>5, <2>6, SweepKeeps DEF Janitoring
<1>14. CASE JanitorUncarry(t)
  <2> DEFINE b == jn[t].rerun \/ CarryDisturbed(t)
             r == [jn[t] EXCEPT !.carry = Null, !.rerun = b]
  <2>1. /\ pc[t] = "jan_uncarry" /\ UNCHANGED <<item, av, pd, dr, op>> /\ OnlyNext /\ ReleaseCarry(t)
    BY <1>14 DEF JanitorUncarry, Janitor
  <2>2. LineKept /\ CountsOK'
    BY <1>0, <1>d, <2>1, OnlyNextKept
  <2>3. jn' = [jn EXCEPT ![t] = r] /\ Goto(t, "jan_unlock")
    BY <1>14 DEF JanitorUncarry
  <2>4. b \in BOOLEAN
    BY <1>d
  <2> HIDE DEF b
  <2>5. r \in JanitorFrames
    BY <1>0, <1>c, <2>4 DEF JanitorFrames
  <2>6. JanitorOrdered("jan_unlock", item[t], r)
    BY DEF JanitorOrdered
  <2> HIDE DEF r
  <2> QED BY <2>1, <2>2, <2>3, <2>5, <2>6, SweepKeeps DEF Janitoring
<1> QED
  BY <1>1, <1>2, <1>3, <1>4, <1>5, <1>6, <1>7, <1>8, <1>9, <1>10, <1>11, <1>12, <1>13, <1>14
     DEF JanitorStep

-----------------------------------------------------------------------------
(* Giving a reference back. *)

USE DEF Advancing, Dropping, Walking, Swapping, SwappedIn, SharedGetting

(* Each round of do_drop_weak starts with an advance.                      *)
LEMMA DropWeakRoundKeeps ==
  ASSUME OrderInv, NEW t \in Threads, LineKept, CountsOK', DropWeakRound(t, item[t]),
         UNCHANGED pd, NEW o \in CallFrames, op' = [op EXCEPT ![t] = o],
         o.val = op[t].val, o.f = op[t].f, o.hnd = op[t].hnd, o.out = op[t].out,
         o.since = op[t].since, o.nxt = op[t].nxt,
         pc[t] \notin {"idle"} \cup Dropping
  PROVE  OrderInv'
<1> DEFINE j == [IdleJanitor EXCEPT !.ret = "dw_weak"]
<1>1. j \in JanitorFrames
  BY IdleFramesTyped DEF JanitorFrames
<1>2. jn' = [jn EXCEPT ![t] = j] /\ StartAdvance(t, item[t], "weak", "jan_lock")
  BY DEF DropWeakRound
<1>3. item[t] \in Nodes /\ Published(item[t])
  BY RegistersTyped DEF Knows, OnChain
<1> HIDE DEF j
<1> QED BY <1>1, <1>2, <1>3, StartKeeps

(* The same without a change to the call.                                  *)
LEMMA DropWeakAgainKeeps ==
  ASSUME OrderInv, NEW t \in Threads, LineKept, CountsOK', DropWeakRound(t, item[t]),
         UNCHANGED <<pd, op>>, pc[t] \notin {"idle"} \cup Dropping
  PROVE  OrderInv'
<1>1. op[t] \in CallFrames /\ op' = [op EXCEPT ![t] = op[t]]
  BY DEF OrderInv, TypeOK
<1> QED BY <1>1, DropWeakRoundKeeps

(* What a drop returns to.                                                 *)
LEMMA ReturnDropMoves ==
  ASSUME OrderInv, NEW t \in Threads, ReturnDrop(t), UNCHANGED <<item, av, pd>>,
         pc[t] \in {"ds_dec", "dw_cas", "dw_free"}, NEW o \in CallFrames, op' = [op EXCEPT ![t] = o],
         o.val = op[t].val, o.f = op[t].f, o.hnd = op[t].hnd, o.out = op[t].out,
         o.since = op[t].since, o.nxt = op[t].nxt, o.nw = op[t].nw
  PROVE  /\ MoveTo(t, dr[t].ret, item[t], av[t], pd[t], IdleJanitor, o)
         /\ SameCall(t, dr[t].ret, av[t], o)
         /\ Knows(dr[t].ret, item[t], av[t], pd[t], IdleJanitor, o)
         /\ dr' \in [Threads -> DropFrames]
<1>1. dr[t].ret \in {"idle", "ret", "sg_dec"}
  BY RegistersTyped DEF DropFrames
<1>2. MoveTo(t, dr[t].ret, item[t], av[t], pd[t], IdleJanitor, o)
  BY <1>1, IdleFramesTyped DEF MoveTo, ReturnDrop, Goto, OrderInv, TypeOK, Labels
<1>3. SameCall(t, dr[t].ret, av[t], o)
  BY <1>1 DEF SameCall, Linking
<1>4. Knows(pc[t], item[t], av[t], pd[t], jn[t], op[t])
  BY RegistersTyped
<1>5. Knows(dr[t].ret, item[t], av[t], pd[t], IdleJanitor, o)
  BY <1>1, <1>4 DEF Knows, Frames, OnChain, NewNode, JanitorOrdered, UpToDate,
       HandleKept, Linking, Linked, ResultHandle
<1>6. dr' \in [Threads -> DropFrames]
  BY IdleFramesTyped DEF ReturnDrop, OrderInv, TypeOK
<1> QED BY <1>2, <1>3, <1>5, <1>6

(* do_drop_strong and do_drop_weak return to their caller without touching the chain. *)
LEMMA ReturnDropKeeps ==
  ASSUME OrderInv, NEW t \in Threads, LineKept, CountsOK', ReturnDrop(t),
         UNCHANGED <<item, av, pd, op>>, pc[t] \in {"ds_dec", "dw_cas", "dw_free"}
  PROVE  OrderInv'
<1>1. op[t] \in CallFrames /\ op' = [op EXCEPT ![t] = op[t]]
  BY DEF OrderInv, TypeOK
<1> QED BY <1>1, ReturnDropMoves, MoveKeeps

(* Every step of do_drop_strong and do_drop_weak.                          *)
LEMMA DropKeeps ==
  ASSUME OrderInv, NEW t \in Threads, DropStep(t) PROVE OrderInv'
<1>0. /\ item[t] \in Nodes /\ Published(item[t]) /\ op[t] \in CallFrames /\ dr[t] \in DropFrames
      /\ Knows(pc[t], item[t], av[t], pd[t], jn[t], op[t])
      /\ dr \in [Threads -> DropFrames] /\ TypeOK
  BY RegistersTyped DEF OrderInv, TypeOK, Knows, OnChain
<1>a. \A ret \in {"idle", "ret", "sg_dec"} : [IdleDrop EXCEPT !.ret = ret] \in DropFrames
  BY IdleFramesTyped DEF DropFrames
<1>b. /\ dr[t].ret \in {"idle", "ret", "sg_dec"}
      /\ [dr EXCEPT ![t] = IdleDrop] \in [Threads -> DropFrames]
      /\ [dr EXCEPT ![t] = [IdleDrop EXCEPT !.ret = dr[t].ret]] \in [Threads -> DropFrames]
  BY <1>0, <1>a, IdleFramesTyped DEF DropFrames
<1>1. CASE DropStrongDec(t)
  <2>1. pc[t] = "ds_dec" /\ OnlyStrong /\ SubStrong(item[t]) /\ UNCHANGED <<pd, op>>
    BY <1>1 DEF DropStrongDec
  <2>2. LineKept /\ CountsOK'
    <3>1. dr' \in [Threads -> DropFrames]
      BY <1>1, <1>b DEF DropStrongDec, StartDropWeak, ReturnDrop
    <3> QED BY <1>0, <2>1, <3>1, OnlyStrongKept, StrongTyped
  <2>3. CASE LastStrong(item[t])
    BY <1>1, <2>1, <2>2, <2>3, DropWeakAgainKeeps DEF DropStrongDec, StartDropWeak
  <2>4. CASE ~LastStrong(item[t])
    BY <1>1, <2>1, <2>2, <2>4, ReturnDropKeeps DEF DropStrongDec
  <2> QED BY <2>3, <2>4
<1>2. CASE DropWeakLoad(t)
  <2>1. pc[t] = "dw_weak" /\ ReadOnly /\ UNCHANGED <<pd, op>>
    BY <1>2 DEF DropWeakLoad
  <2>2. CASE jn[t].rerun
    BY <1>0, <1>2, <2>1, <2>2, ReadOnlyKept, DropWeakAgainKeeps DEF DropWeakLoad
  <2>3. CASE ~jn[t].rerun
    <3>1. [dr[t] EXCEPT !.ww = weak[item[t]]] \in DropFrames
      BY <1>0 DEF DropFrames, TypeOK
    <3>2. dr' = [dr EXCEPT ![t] = [dr[t] EXCEPT !.ww = weak[item[t]]]]
      BY <1>2, <2>3 DEF DropWeakLoad
    <3>3. dr' \in [Threads -> DropFrames]
      BY <1>0, <3>1, <3>2
    <3>4. LineKept /\ CountsOK'
      BY <2>1, <3>3, ReadOnlyKept
    <3>5. Knows("dw_next", item[t], av[t], pd[t], jn[t], op[t])
      BY <1>0, <2>1 DEF Knows, Frames, OnChain, NewNode, JanitorOrdered, UpToDate,
       HandleKept, Linking, Linked
    <3> QED BY <1>2, <2>1, <2>3, <3>4, <3>5, JumpKeeps DEF DropWeakLoad, Linking, Labels
  <2> QED BY <2>2, <2>3
<1>3. CASE DropWeakNext(t)
  <2>1. pc[t] = "dw_next" /\ ReadOnly /\ UNCHANGED <<pd, op>>
    BY <1>3 DEF DropWeakNext
  <2>2. LineKept /\ CountsOK'
    <3>1. dr' \in [Threads -> DropFrames]
      BY <1>0, <1>3, <1>b DEF DropWeakNext, StartDropWeak
    <3> QED BY <2>1, <3>1, ReadOnlyKept
  <2>3. CASE HasNext(item[t])
    BY <1>3, <2>1, <2>2, <2>3, DropWeakAgainKeeps DEF DropWeakNext, StartDropWeak
  <2>4. CASE ~HasNext(item[t])
    <3> DEFINE l == IF jn[t].status = "NoStrongRefsExist" THEN "dw_claim" ELSE "dw_cas"
    <3>1. Knows(l, item[t], av[t], pd[t], jn[t], op[t])
      BY <1>0, <2>1 DEF Knows, Frames, OnChain, NewNode, JanitorOrdered, UpToDate,
       HandleKept, Linking, Linked
    <3> QED BY <1>3, <2>1, <2>2, <2>4, <3>1, JumpKeeps DEF DropWeakNext, Linking, Labels
  <2> QED BY <2>3, <2>4
<1>4. CASE ClaimTeardown(t)
  <2>1. pc[t] = "dw_claim" /\ OnlyStrong /\ UNCHANGED <<item, av, jn, dr, op>>
    BY <1>4 DEF ClaimTeardown
  <2>2. LineKept /\ CountsOK'
    <3>1. strong' = strong \/ strong' = [strong EXCEPT ![item[t]] = UsizeMax]
      BY <1>4 DEF ClaimTeardown, STRONG_DROPPED
    <3>2. UsizeMax \in 0..UsizeMax
      BY HeapAssumption
    <3>3. strong' \in [Nodes -> 0..UsizeMax]
      BY <1>0, <3>1, <3>2 DEF TypeOK
    <3> QED BY <1>0, <2>1, <3>3, OnlyStrongKept
  <2>3. CASE strong[item[t]] = 0
    <3>1. av[t].ret = "idle"
      BY <1>0, <2>1 DEF Knows, Frames
    <3> QED BY <1>0, <1>4, <2>1, <2>2, <2>3, <3>1, PayloadKeeps DEF ClaimTeardown
  <2>4. CASE strong[item[t]] # 0
    <3>1. Knows("dw_cas", item[t], av[t], pd[t], jn[t], op[t])
      BY <1>0, <2>1 DEF Knows, Frames, OnChain, NewNode, JanitorOrdered, UpToDate,
       HandleKept, Linking, Linked
    <3> QED BY <1>4, <2>1, <2>2, <2>4, <3>1, JumpKeeps DEF ClaimTeardown, Linking, Labels
  <2> QED BY <2>3, <2>4
<1>5. CASE DropWeakCas(t)
  <2>1. pc[t] = "dw_cas" /\ OnlyWeak /\ UNCHANGED <<pd, op>>
    BY <1>5 DEF DropWeakCas
  <2>2. LineKept /\ CountsOK'
    <3>1. weak' \in [Nodes -> WeakWords] /\ dr' \in [Threads -> DropFrames]
      BY <1>0, <1>5, <1>b, WeakTyped DEF DropWeakCas, StartDropWeak, ReturnDrop, TypeOK
    <3> QED BY <2>1, <3>1, OnlyWeakKept
  <2>3. CASE SameWeakWord(item[t], dr[t].ww) /\ SoleUser(dr[t].ww)
    <3>1. Knows("dw_free", item[t], av[t], pd[t], jn[t], op[t])
      BY <1>0, <2>1 DEF Knows, Frames, OnChain, NewNode, JanitorOrdered, UpToDate,
       HandleKept, Linking, Linked
    <3> QED BY <1>5, <2>1, <2>2, <2>3, <3>1, JumpKeeps DEF DropWeakCas, Linking, Labels
  <2>4. CASE SameWeakWord(item[t], dr[t].ww) /\ ~SoleUser(dr[t].ww)
    BY <1>5, <2>1, <2>2, <2>4, ReturnDropKeeps DEF DropWeakCas
  <2>5. CASE ~SameWeakWord(item[t], dr[t].ww)
    BY <1>5, <2>1, <2>2, <2>5, DropWeakAgainKeeps DEF DropWeakCas, StartDropWeak
  <2> QED BY <2>3, <2>4, <2>5
<1>6. CASE DropWeakFree(t)
  <2> DEFINE n == item[t]
             s == IF op[t].f = "intoInner" /\ ~next[n].dropped THEN n ELSE op[t].stolen
             o == [op[t] EXCEPT !.sole = TRUE, !.stolen = s]
  <2>1. /\ pc[t] = "dw_free" /\ UNCHANGED <<next, prev, strong, weak, adv, client, item, av, pd>>
        /\ mem' = [mem EXCEPT ![n] = "freed"] /\ ReturnDrop(t)
        /\ drops' = drops \/ drops' = [drops EXCEPT ![n] = @ + 1]
    BY <1>6 DEF DropWeakFree
  <2>2. op' = [op EXCEPT ![t] = o]
    BY <1>6 DEF DropWeakFree
  <2>3. s \in Ptrs
    BY <1>0 DEF CallFrames, Ptrs
  <2> HIDE DEF s
  <2>4. /\ o \in CallFrames /\ o.val = op[t].val /\ o.f = op[t].f /\ o.hnd = op[t].hnd
        /\ o.out = op[t].out /\ o.since = op[t].since /\ o.nxt = op[t].nxt /\ o.nw = op[t].nw
    BY <1>0, <2>3 DEF CallFrames
  <2> HIDE DEF o
  <2>5. /\ MoveTo(t, dr[t].ret, item[t], av[t], pd[t], IdleJanitor, o)
        /\ SameCall(t, dr[t].ret, av[t], o)
        /\ Knows(dr[t].ret, item[t], av[t], pd[t], IdleJanitor, o)
        /\ dr' \in [Threads -> DropFrames]
    BY <2>1, <2>2, <2>4, ReturnDropMoves
  <2>6. LineGrows
    BY <1>0, <2>1 DEF LineGrows, HasNext, client, TypeOK
  <2>7. CountsOK' /\ HeapTyped'
    BY <1>0, <2>1, <2>5 DEF CountsOK, HeapTyped, TypeOK, client
  <2>8. ChainOrdered'
    <3>1. \A k \in Nodes : mem'[k] \in {"unused", "private"} => mem[k] = mem'[k]
      BY <1>0, <2>1 DEF TypeOK
    <3> QED BY <2>1, <3>1 DEF ChainOrdered, OrderInv, Published, HasNext, client
  <2>9. UNCHANGED handle /\ \A k \in Nodes : ~Published(k) => mem'[k] = mem[k] /\ prev'[k] = prev[k]
    BY <1>0, <2>1 DEF client, TypeOK
  <2> QED BY <2>5, <2>6, <2>7, <2>8, <2>9, LineKeeps
<1> QED
  BY <1>1, <1>2, <1>3, <1>4, <1>5, <1>6 DEF DropStep

-----------------------------------------------------------------------------
(* The steps of an advance, and of dropping a payload, keep OrderInv.      *)

(* The end of an advance: the caller goes on with item.                    *)
LEMMA ReturnKeeps ==
  ASSUME OrderInv, NEW t \in Threads, LineKept, CountsOK',
         ReturnAdvance(t), UNCHANGED <<item, jn, op, pd>>,
         pc[t] \in Advancing \ {"adv_inc", "adv_reload"}, pd[t].ret = "idle",
         stamp[item[t]] >= op[t].since
  PROVE  OrderInv'
<1>1. IdleAdvance \in AdvanceFrames /\ IdleAdvance.start = IdleNode /\ IdleAdvance.nxt = IdleNode
      /\ IdleAdvance.ret = "idle"
  BY HeapAssumption DEF IdleAdvance, AdvanceFrames, IdleNode, Nodes
<1>2. /\ av[t] \in AdvanceFrames /\ Knows(pc[t], item[t], av[t], pd[t], jn[t], op[t])
      /\ op[t] \in CallFrames
  BY RegistersTyped
<1>3. av[t].ret \in {"idle", "jan_lock", "ds_dec", "upd_next", "upg_strong", "reading", "ret"}
  BY <1>2 DEF AdvanceFrames
<1>3a. Published(IdleNode) BY DEF OrderInv
<1>4. MoveTo(t, av[t].ret, item[t], IdleAdvance, pd[t], jn[t], op[t])
  BY <1>1, <1>3 DEF MoveTo, ReturnAdvance, Goto, OrderInv, TypeOK, Labels
<1>5. pc[t] # "idle" BY DEF Advancing, Walking, Swapping, SwappedIn
<1>6. SameCall(t, av[t].ret, IdleAdvance, op[t])
  BY <1>1, <1>3, <1>5 DEF SameCall, Linking
<1>7. Knows(av[t].ret, item[t], IdleAdvance, pd[t], jn[t], op[t])
  <2>2. Frames(av[t].ret, IdleAdvance, pd[t])
    BY <1>1 DEF Knows, Frames, Advancing, Dropping, Walking
  <2>3. OnChain(av[t].ret, item[t], IdleAdvance, op[t])
    BY <1>1, <1>2, <1>3, <1>3a DEF Knows, OnChain
  <2>4. NewNode(av[t].ret, item[t], IdleAdvance, pd[t], op[t])
    BY <1>1, <1>2, <1>3 DEF Knows, NewNode, Linking, Linked, Frames
  <2>5. JanitorOrdered(av[t].ret, item[t], jn[t])
    BY <1>3 DEF JanitorOrdered
  <2>6. UpToDate(av[t].ret, item[t], op[t])
    BY <1>2, <1>3 DEF Knows, UpToDate
  <2>7. HandleKept(av[t].ret, op[t])
    BY <1>2, <1>3, <1>5 DEF Knows, HandleKept, ResultHandle
  <2> QED BY <2>2, <2>3, <2>4, <2>5, <2>6, <2>7 DEF Knows
<1> QED BY <1>4, <1>6, <1>7, MoveKeeps

(* The closure tries with the strong count it has just seen.               *)
LEMMA TryKeeps ==
  ASSUME OrderInv, NEW t \in Threads, LineKept, CountsOK',
         NEW c \in 0..UsizeMax, TryStrong(t, c), UNCHANGED <<item, jn, op, pd>>,
         pc[t] \in Swapping
  PROVE  OrderInv'
<1> DEFINE a == [av[t] EXCEPT !.cs = c]
           l == IF c = 0 THEN "advs_incw" ELSE "advs_cas"
<1>1. av[t] \in AdvanceFrames /\ Knows(pc[t], item[t], av[t], pd[t], jn[t], op[t])
  BY RegistersTyped
<1>2. a \in AdvanceFrames /\ a.start = av[t].start /\ a.nxt = av[t].nxt /\ a.ret = av[t].ret
  BY <1>1 DEF AdvanceFrames
<1>3. av' = [av EXCEPT ![t] = a]
  BY DEF TryStrong
<1> HIDE DEF a
<1>4. MoveTo(t, l, item[t], a, pd[t], jn[t], op[t])
  BY <1>2, <1>3 DEF MoveTo, TryStrong, Goto, OrderInv, TypeOK, Labels
<1>5. SameCall(t, l, a, op[t])
  BY <1>2 DEF SameCall, Linking
<1>6. Knows(l, item[t], a, pd[t], jn[t], op[t])
  BY <1>1, <1>2 DEF Knows, Frames, OnChain, NewNode, JanitorOrdered, UpToDate, HandleKept,
     Linking, Linked
<1> HIDE DEF l
<1> QED BY <1>4, <1>5, <1>6, MoveKeeps

(* The closure gives up and the walk starts again.                         *)
LEMMA RetryKeeps ==
  ASSUME OrderInv, NEW t \in Threads, LineKept, CountsOK',
         RetryAdvance(t), UNCHANGED <<item, jn, op, pd>>, pc[t] \in SwappedIn \cup Swapping
  PROVE  OrderInv'
<1> DEFINE a == [av[t] EXCEPT !.cs = 0]
<1>1. av[t] \in AdvanceFrames /\ Knows(pc[t], item[t], av[t], pd[t], jn[t], op[t])
  BY RegistersTyped
<1>2. a \in AdvanceFrames /\ a.start = av[t].start /\ a.nxt = av[t].nxt /\ a.ret = av[t].ret
  BY <1>1, HeapAssumption DEF AdvanceFrames
<1>3. av' = [av EXCEPT ![t] = a]
  BY DEF RetryAdvance
<1> HIDE DEF a
<1>4. MoveTo(t, "adv_load", item[t], a, pd[t], jn[t], op[t])
  BY <1>2, <1>3 DEF MoveTo, RetryAdvance, Goto, OrderInv, TypeOK, Labels
<1>5. SameCall(t, "adv_load", a, op[t])
  BY <1>2 DEF SameCall, Linking
<1>6. Knows("adv_load", item[t], a, pd[t], jn[t], op[t])
  BY <1>1, <1>2 DEF Knows, Frames, OnChain, NewNode, JanitorOrdered, UpToDate, HandleKept,
     Linking, Linked
<1> QED BY <1>4, <1>5, <1>6, MoveKeeps

(* Every step of an advance, and of dropping a payload.                    *)
LEMMA AdvanceKeeps ==
  ASSUME OrderInv, NEW t \in Threads, AdvanceStep(t) PROVE OrderInv'
<1>0. /\ item[t] \in Nodes /\ av[t] \in AdvanceFrames /\ pd[t] \in PayloadFrames
      /\ jn[t] \in JanitorFrames /\ op[t] \in CallFrames
      /\ Knows(pc[t], item[t], av[t], pd[t], jn[t], op[t])
      /\ dr \in [Threads -> DropFrames] /\ adv \in [Nodes -> Int] /\ drops \in [Nodes -> Nat]
      /\ TypeOK
  BY RegistersTyped DEF OrderInv, TypeOK
<1>a. av[t].start \in Nodes /\ av[t].nxt \in Nodes /\ pd[t].tgt \in Nodes
  BY <1>0 DEF AdvanceFrames, PayloadFrames
<1>1. CASE AdvanceLoad(t)
  <2>1. LineKept /\ CountsOK'
    BY <1>0, <1>1, ReadOnlyKept DEF AdvanceLoad
  <2>2. pc[t] = "adv_load"
    BY <1>1 DEF AdvanceLoad
  <2>3. ~HasNext(item[t]) => stamp[item[t]] >= op[t].since
    BY <1>0 DEF Knows, OnChain, UpToDate, OrderInv, ChainOrdered, TypeOK, CallFrames
  <2>4. CASE HasNext(item[t])
    <3>1. Knows("adv_inc", item[t], av[t], pd[t], jn[t], op[t])
      BY <1>0, <2>2, <2>4 DEF Knows, Frames, OnChain, NewNode, JanitorOrdered, UpToDate,
          HandleKept, Linking, Linked
    <3> QED BY <1>1, <2>1, <2>2, <2>4, <3>1, JumpKeeps DEF AdvanceLoad, Linking, Labels
  <2>5. CASE ~HasNext(item[t]) /\ item[t] = av[t].start
    <3>1. pd[t].ret = "idle"
      BY <1>0, <2>2 DEF Knows, Frames
    <3> QED BY <1>1, <2>1, <2>2, <2>3, <2>5, <3>1, ReturnKeeps DEF AdvanceLoad
  <2>6. CASE ~HasNext(item[t]) /\ item[t] # av[t].start
    <3> DEFINE l == IF av[t].mode = "strong" THEN "advs_load" ELSE "advw_dec"
    <3>1. Knows(l, item[t], av[t], pd[t], jn[t], op[t])
      BY <1>0, <2>2, <2>3, <2>6 DEF Knows, Frames, OnChain, NewNode, JanitorOrdered, UpToDate,
          HandleKept, Linking, Linked
    <3>2. Goto(t, l) /\ UNCHANGED <<item, av, pd, jn, op>>
      BY <1>1, <2>6 DEF AdvanceLoad
    <3>3. l \in Labels /\ (Linking(l, av[t]) => Linking(pc[t], av[t]))
      BY DEF Labels, Linking
    <3> HIDE DEF l
    <3> QED BY <2>1, <2>2, <3>1, <3>2, <3>3, JumpKeeps
  <2> QED BY <2>4, <2>5, <2>6
<1>2. CASE AdvanceInc(t)
  <2>1. LineKept /\ CountsOK'
    BY <1>0, <1>2, OnlyAdvKept DEF AdvanceInc, locals
  <2>2. Knows("adv_reload", item[t], av[t], pd[t], jn[t], op[t])
    BY <1>0, <1>2 DEF AdvanceInc, Knows, Frames, OnChain, NewNode, JanitorOrdered, UpToDate,
          HandleKept, Linking, Linked
  <2> QED BY <1>2, <2>1, <2>2, JumpKeeps DEF AdvanceInc, locals, Linking, Labels
<1>3. CASE AdvanceReload(t)
  <2> DEFINE m == next[item[t]].ptr
             a == [av[t] EXCEPT !.nxt = m]
  <2>1. LineKept /\ CountsOK'
    BY <1>0, <1>3, ReadOnlyKept DEF AdvanceReload
  <2>2. m \in Nodes /\ Published(m)
    BY <1>0, <1>3 DEF AdvanceReload, Knows, OnChain, HasNext, OrderInv, ChainOrdered,
       Published, TypeOK, NextWords, Ptrs
  <2>3. a \in AdvanceFrames /\ a.start = av[t].start /\ a.nxt = m /\ a.ret = av[t].ret
    BY <1>0, <2>2 DEF AdvanceFrames
  <2>4. Knows("adv_weak", item[t], a, pd[t], jn[t], op[t])
    <3> HIDE DEF a, m
    <3> QED BY <1>0, <1>3, <2>2, <2>3 DEF AdvanceReload, Knows, Frames, OnChain, NewNode, JanitorOrdered, UpToDate,
          HandleKept, Linking, Linked
  <2>5. MoveTo(t, "adv_weak", item[t], a, pd[t], jn[t], op[t])
    BY <1>0, <1>3, <2>3 DEF AdvanceReload, MoveTo, Goto, TypeOK, Labels
  <2>6. SameCall(t, "adv_weak", a, op[t])
    BY <1>3, <2>3 DEF SameCall, Linking, AdvanceReload
  <2> QED BY <2>1, <2>4, <2>5, <2>6, MoveKeeps
<1>4. CASE AdvanceWeakInc(t)
  <2>1. LineKept /\ CountsOK'
    BY <1>0, <1>4, <1>a, OnlyWeakKept, WeakTyped DEF AdvanceWeakInc, locals
  <2>2. Knows("adv_dec", item[t], av[t], pd[t], jn[t], op[t])
    BY <1>0, <1>4 DEF AdvanceWeakInc, Knows, Frames, OnChain, NewNode, JanitorOrdered, UpToDate,
          HandleKept, Linking, Linked
  <2> QED BY <1>4, <2>1, <2>2, JumpKeeps DEF AdvanceWeakInc, locals, Linking, Labels
<1>5. CASE AdvanceDec(t)
  <2>1. LineKept /\ CountsOK'
    BY <1>0, <1>5, OnlyAdvKept DEF AdvanceDec
  <2>2. CASE item[t] = av[t].start
    <3>1. Knows("adv_load", av[t].nxt, av[t], pd[t], jn[t], op[t])
      BY <1>0, <1>5 DEF AdvanceDec, Knows, Frames, OnChain, NewNode, JanitorOrdered, UpToDate,
          HandleKept, Linking, Linked
    <3>2. MoveTo(t, "adv_load", av[t].nxt, av[t], pd[t], jn[t], op[t])
      BY <1>0, <1>5, <1>a, <2>2 DEF AdvanceDec, MoveTo, Goto, TypeOK, Labels
    <3>3. SameCall(t, "adv_load", av[t], op[t])
      BY <1>5 DEF SameCall, Linking, AdvanceDec
    <3> QED BY <2>1, <3>1, <3>2, <3>3, MoveKeeps
  <2>3. CASE item[t] # av[t].start
    <3>1. Knows("adv_unweak", item[t], av[t], pd[t], jn[t], op[t])
      BY <1>0, <1>5 DEF AdvanceDec, Knows, Frames, OnChain, NewNode, JanitorOrdered, UpToDate,
          HandleKept, Linking, Linked
    <3> QED BY <1>5, <2>1, <2>3, <3>1, JumpKeeps DEF AdvanceDec, Linking, Labels
  <2> QED BY <2>2, <2>3
<1>6. CASE AdvanceWeakDec(t)
  <2>1. LineKept /\ CountsOK'
    BY <1>0, <1>6, OnlyWeakKept, WeakTyped DEF AdvanceWeakDec
  <2>2. Knows("adv_load", av[t].nxt, av[t], pd[t], jn[t], op[t])
    BY <1>0, <1>6 DEF AdvanceWeakDec, Knows, Frames, OnChain, NewNode, JanitorOrdered, UpToDate,
          HandleKept, Linking, Linked
  <2>3. MoveTo(t, "adv_load", av[t].nxt, av[t], pd[t], jn[t], op[t])
    BY <1>0, <1>6, <1>a DEF AdvanceWeakDec, MoveTo, Goto, TypeOK, Labels
  <2>4. SameCall(t, "adv_load", av[t], op[t])
    BY <1>6 DEF SameCall, Linking, AdvanceWeakDec
  <2> QED BY <2>1, <2>2, <2>3, <2>4, MoveKeeps
<1>7. CASE WeakLeaveStart(t)
  <2>1. LineKept /\ CountsOK'
    BY <1>0, <1>7, <1>a, OnlyWeakKept, WeakTyped DEF WeakLeaveStart
  <2>2. pd[t].ret = "idle" /\ stamp[item[t]] >= op[t].since
    BY <1>0, <1>7 DEF WeakLeaveStart, Knows, Frames, UpToDate
  <2> QED BY <1>7, <2>1, <2>2, ReturnKeeps DEF WeakLeaveStart
<1>8. CASE PayloadMark(t)
  <2>1. LineKept /\ CountsOK'
    <3>1. dr' \in [Threads -> DropFrames]
      BY <1>0, <1>8 DEF PayloadMark
    <3>2. next' = next \/ next' = [next EXCEPT ![pd[t].tgt].dropped = TRUE]
      BY <1>8 DEF PayloadMark
    <3>3. next' \in [Nodes -> NextWords] /\ \A n \in Nodes : next'[n].ptr = next[n].ptr
      BY <1>0, <1>a, <3>2, FlagsTyped DEF TypeOK
    <3> QED BY <1>8, <3>1, <3>3, OnlyNextKept DEF PayloadMark
  <2>2. CASE MayDropPayload(pd[t].tgt, pd[t].override)
    <3>1. Knows("pay_drop", item[t], av[t], pd[t], jn[t], op[t])
      BY <1>0, <1>8 DEF PayloadMark, Knows, Frames, OnChain, NewNode, JanitorOrdered, UpToDate,
          HandleKept, Linking, Linked
    <3> QED BY <1>8, <2>1, <2>2, <3>1, JumpKeeps DEF PayloadMark, Linking, Labels
  <2>3. CASE ~MayDropPayload(pd[t].tgt, pd[t].override)
    <3>1. pd[t].ret \in {"idle", "advs_a_decw", "dw_cas", "upd_decw"} /\ pc[t] = "pay_mark"
      BY <1>0, <1>8 DEF PayloadMark, PayloadFrames
    <3>2. IdlePayload \in PayloadFrames /\ IdlePayload.ret = "idle"
      BY IdleFramesTyped
    <3>3. Knows(pd[t].ret, item[t], av[t], IdlePayload, jn[t], op[t])
      BY <1>0, <3>1, <3>2 DEF Knows, Frames, OnChain, NewNode, JanitorOrdered, UpToDate,
          HandleKept, Linking, Linked
    <3>4. MoveTo(t, pd[t].ret, item[t], av[t], IdlePayload, jn[t], op[t])
      BY <1>0, <1>8, <2>3, <3>1, <3>2 DEF PayloadMark, MoveTo, Goto, TypeOK, Labels
    <3>5. SameCall(t, pd[t].ret, av[t], op[t])
      BY <3>1 DEF SameCall, Linking
    <3> QED BY <2>1, <3>3, <3>4, <3>5, MoveKeeps
  <2> QED BY <2>2, <2>3
<1>9. CASE PayloadDrop(t)
  <2> DEFINE o == IF op[t].f = "intoInner" THEN [op[t] EXCEPT !.stolen = pd[t].tgt] ELSE op[t]
  <2>1. LineKept /\ CountsOK'
    BY <1>0, <1>9, <1>a DEF PayloadDrop, DropPayload, LineKept, CountsOK, TypeOK, client
  <2>2. pd[t].ret \in {"idle", "advs_a_decw", "dw_cas", "upd_decw"} /\ pc[t] = "pay_drop"
    BY <1>0, <1>9 DEF PayloadDrop, PayloadFrames
  <2>3. IdlePayload \in PayloadFrames /\ IdlePayload.ret = "idle"
    BY IdleFramesTyped
  <2>4. /\ o \in CallFrames /\ o.val = op[t].val /\ o.f = op[t].f /\ o.hnd = op[t].hnd
        /\ o.out = op[t].out /\ o.since = op[t].since /\ o.nxt = op[t].nxt /\ o.nw = op[t].nw
    BY <1>0, <1>a DEF CallFrames, Ptrs
  <2>5. op' = [op EXCEPT ![t] = o]
    BY <1>0, <1>9 DEF PayloadDrop, DropPayload, TypeOK
  <2> HIDE DEF o
  <2>6. Knows(pd[t].ret, item[t], av[t], IdlePayload, jn[t], o)
    BY <1>0, <2>2, <2>3, <2>4 DEF Knows, Frames, OnChain, NewNode, JanitorOrdered, UpToDate,
          HandleKept, Linking, Linked, ResultHandle
  <2>7. MoveTo(t, pd[t].ret, item[t], av[t], IdlePayload, jn[t], o)
    BY <1>0, <1>9, <2>2, <2>3, <2>4, <2>5 DEF PayloadDrop, MoveTo, Goto, TypeOK, Labels
  <2>8. SameCall(t, pd[t].ret, av[t], o)
    BY <2>2, <2>4 DEF SameCall, Linking
  <2> QED BY <2>1, <2>6, <2>7, <2>8, MoveKeeps
<1>10. CASE StrongLoad(t)
  <2>1. LineKept /\ CountsOK'
    BY <1>0, <1>10, ReadOnlyKept DEF StrongLoad
  <2>2. strong[item[t]] \in 0..UsizeMax
    BY <1>0 DEF TypeOK
  <2> QED BY <1>10, <2>1, <2>2, TryKeeps DEF StrongLoad
<1>11. CASE StrongIncWeak(t)
  <2>1. LineKept /\ CountsOK'
    BY <1>0, <1>11, OnlyWeakKept, WeakTyped DEF StrongIncWeak, locals
  <2>2. Knows("advs_cas", item[t], av[t], pd[t], jn[t], op[t])
    BY <1>0, <1>11 DEF StrongIncWeak, Knows, Frames, OnChain, NewNode, JanitorOrdered, UpToDate,
          HandleKept, Linking, Linked
  <2> QED BY <1>11, <2>1, <2>2, JumpKeeps DEF StrongIncWeak, locals, Linking, Labels
<1>12. CASE StrongCas(t)
  <2>1. LineKept /\ CountsOK'
    <3>1. strong' \in [Nodes -> 0..UsizeMax] /\ dr' \in [Threads -> DropFrames]
      BY <1>0, <1>12, StrongTyped DEF StrongCas, TypeOK
    <3> QED BY <1>12, <3>1, OnlyStrongKept DEF StrongCas
  <2>2. strong[item[t]] \in 0..UsizeMax /\ pc[t] = "advs_cas"
    BY <1>0, <1>12 DEF TypeOK, StrongCas
  <2>3. CASE strong[item[t]] = av[t].cs
    <3>1. Knows("advs_recheck", item[t], av[t], pd[t], jn[t], op[t])
      BY <1>0, <2>2 DEF Knows, Frames, OnChain, NewNode, JanitorOrdered, UpToDate,
          HandleKept, Linking, Linked
    <3> QED BY <1>12, <2>1, <2>3, <3>1, JumpKeeps DEF StrongCas, Linking, Labels
  <2>4. CASE strong[item[t]] # av[t].cs /\ av[t].cs = 0
    <3> DEFINE a == [av[t] EXCEPT !.cs = strong[item[t]]]
    <3>1. a \in AdvanceFrames /\ a.start = av[t].start /\ a.nxt = av[t].nxt /\ a.ret = av[t].ret
      BY <1>0, <2>2 DEF AdvanceFrames
    <3>2. Knows("advs_race", item[t], a, pd[t], jn[t], op[t])
      <4> HIDE DEF a
      <4> QED BY <1>0, <2>2, <3>1 DEF Knows, Frames, OnChain, NewNode, JanitorOrdered, UpToDate,
          HandleKept, Linking, Linked
    <3>3. MoveTo(t, "advs_race", item[t], a, pd[t], jn[t], op[t])
      BY <1>0, <1>12, <2>4, <3>1 DEF StrongCas, MoveTo, Goto, TypeOK, Labels
    <3>4. SameCall(t, "advs_race", a, op[t])
      BY <2>2, <3>1 DEF SameCall, Linking
    <3> QED BY <2>1, <3>2, <3>3, <3>4, MoveKeeps
  <2>5. CASE strong[item[t]] # av[t].cs /\ av[t].cs # 0
    BY <1>12, <2>1, <2>2, <2>5, TryKeeps DEF StrongCas
  <2> QED BY <2>3, <2>4, <2>5
<1>13. CASE StrongRaceDecWeak(t)
  <2>1. LineKept /\ CountsOK'
    BY <1>0, <1>13, OnlyWeakKept, WeakTyped DEF StrongRaceDecWeak
  <2>2. av[t].cs \in 0..UsizeMax
    BY <1>0 DEF AdvanceFrames
  <2> QED BY <1>13, <2>1, <2>2, TryKeeps DEF StrongRaceDecWeak
<1>14. CASE StrongRecheck(t)
  <2> DEFINE l == IF HasNext(item[t]) THEN "advs_undo" ELSE "advs_b_decw"
  <2>1. LineKept /\ CountsOK'
    BY <1>0, <1>14, ReadOnlyKept DEF StrongRecheck, locals
  <2>2. Knows(l, item[t], av[t], pd[t], jn[t], op[t])
    BY <1>0, <1>14 DEF StrongRecheck, Knows, Frames, OnChain, NewNode, JanitorOrdered, UpToDate,
          HandleKept, Linking, Linked
  <2> QED BY <1>14, <2>1, <2>2, JumpKeeps DEF StrongRecheck, locals, Linking, Labels
<1>15. CASE StrongUndo(t)
  <2>1. LineKept /\ CountsOK'
    BY <1>0, <1>15, OnlyStrongKept, StrongTyped DEF StrongUndo
  <2>2. CASE LastStrong(item[t])
    <3>1. Knows("advs_undo_decw", item[t], av[t], pd[t], jn[t], op[t])
      BY <1>0, <1>15 DEF StrongUndo, Knows, Frames, OnChain, NewNode, JanitorOrdered, UpToDate,
          HandleKept, Linking, Linked
    <3> QED BY <1>15, <2>1, <2>2, <3>1, JumpKeeps DEF StrongUndo, Linking, Labels
  <2>3. CASE ~LastStrong(item[t])
    BY <1>15, <2>1, <2>3, RetryKeeps DEF StrongUndo
  <2> QED BY <2>2, <2>3
<1>16. CASE StrongUndoDecWeak(t)
  <2>1. LineKept /\ CountsOK'
    BY <1>0, <1>16, OnlyWeakKept, WeakTyped DEF StrongUndoDecWeak
  <2> QED BY <1>16, <2>1, RetryKeeps DEF StrongUndoDecWeak
<1>17. CASE StrongDecWeakB(t)
  <2>1. LineKept /\ CountsOK'
    BY <1>0, <1>17, OnlyWeakKept, WeakTyped DEF StrongDecWeakB, locals
  <2>2. Knows("advs_a_dec", item[t], av[t], pd[t], jn[t], op[t])
    BY <1>0, <1>17 DEF StrongDecWeakB, Knows, Frames, OnChain, NewNode, JanitorOrdered, UpToDate,
          HandleKept, Linking, Linked
  <2> QED BY <1>17, <2>1, <2>2, JumpKeeps DEF StrongDecWeakB, locals, Linking, Labels
<1>18. CASE StrongLeaveStart(t)
  <2>1. LineKept /\ CountsOK'
    BY <1>0, <1>18, <1>a, OnlyStrongKept, StrongTyped DEF StrongLeaveStart
  <2>2. pd[t].ret = "idle" /\ stamp[item[t]] >= op[t].since /\ pc[t] = "advs_a_dec"
    BY <1>0, <1>18 DEF StrongLeaveStart, Knows, Frames, UpToDate
  <2>3. CASE LastStrong(av[t].start)
    BY <1>18, <1>a, <2>1, <2>2, <2>3, PayloadKeeps DEF StrongLeaveStart
  <2>4. CASE ~LastStrong(av[t].start)
    BY <1>18, <2>1, <2>2, <2>4, ReturnKeeps DEF StrongLeaveStart
  <2> QED BY <2>3, <2>4
<1>19. CASE StrongDecWeakA(t)
  <2>1. LineKept /\ CountsOK'
    BY <1>0, <1>19, <1>a, OnlyWeakKept, WeakTyped DEF StrongDecWeakA
  <2>2. pd[t].ret = "idle" /\ stamp[item[t]] >= op[t].since
    BY <1>0, <1>19 DEF StrongDecWeakA, Knows, Frames, UpToDate
  <2> QED BY <1>19, <2>1, <2>2, ReturnKeeps DEF StrongDecWeakA
<1> QED
  BY <1>1, <1>2, <1>3, <1>4, <1>5, <1>6, <1>7, <1>8, <1>9, <1>10, <1>11, <1>12, <1>13, <1>14,
     <1>15, <1>16, <1>17, <1>18, <1>19 DEF AdvanceStep

-----------------------------------------------------------------------------
(* The steps of do_update, which alone makes the line of nodes longer, and *)
(* of do_upgrade_weak keep OrderInv.                                       *)

(* A node is a pointer, and not null.                                      *)
LEMMA NodeIsPtr ==
  ASSUME NEW n \in Nodes PROVE n \in Ptrs /\ n # Null
  BY HeapAssumption DEF Ptrs, Nodes, Null

(* A node that is still private to its creator is not part of the line.    *)
LEMMA BuildLine ==
  ASSUME OrderInv, NEW v \in Nodes, ~Published(v), NEW n \in Ptrs,
         mem' = [mem EXCEPT ![v] = "private"], prev' = [prev EXCEPT ![v] = n],
         UNCHANGED <<next, stamp, count>>,
         handle' \in [Handles -> HandleStates], left' \in [Threads -> Nat]
  PROVE  LineGrows /\ HeapTyped' /\ ChainOrdered'
<1>1. TypeOK /\ ChainOrdered
  BY DEF OrderInv
<1>2. LineGrows
  BY <1>1 DEF LineGrows, HasNext, TypeOK
<1>3. HeapTyped'
  BY <1>1 DEF HeapTyped, TypeOK
<1>4. ASSUME NEW m \in Nodes, m # v PROVE prev'[m] = prev[m] /\ mem'[m] = mem[m]
  BY <1>1, <1>4 DEF TypeOK
<1>5. ChainOrdered'
  <2>1. ASSUME NEW m \in Nodes, Published(m)', prev'[m] # Null
        PROVE  Published(prev[m]) /\ stamp[prev[m]] < stamp[m] /\ prev'[m] = prev[m]
    BY <1>1, <1>4, <2>1 DEF ChainOrdered, Published
  <2>2. ASSUME NEW m \in Nodes, mem'[m] \in {"unused", "private"} PROVE ~Published(m)'
    BY <1>1, <1>4, <2>2 DEF ChainOrdered, Published
  <2> QED BY <1>1, <2>1, <2>2 DEF ChainOrdered, Published, HasNext
<1> QED BY <1>2, <1>3, <1>5

(* The compare-exchange of do_update appends v to the line.                *)
LEMMA PublishLine ==
  ASSUME OrderInv, NEW i \in Nodes, NEW v \in Nodes, Published(i), ~Published(v),
         ~HasNext(i), prev[v] = i, SetNext(i, v), Publish(v), UNCHANGED <<prev, handle, left>>
  PROVE  LineGrows /\ HeapTyped' /\ ChainOrdered' /\ stamp[i] = count
<1>1. TypeOK /\ ChainOrdered
  BY DEF OrderInv
<1>2. next[i] \in NextWords /\ v \in Ptrs /\ v # Null
  <2>1. v \in Ptrs /\ v # Null
    BY NodeIsPtr
  <2> QED BY <1>1, <2>1 DEF TypeOK
<1>3. [next[i] EXCEPT !.ptr = v] \in NextWords /\ [next[i] EXCEPT !.ptr = v].ptr = v
  BY <1>2 DEF NextWords
<1>4. /\ next' = [next EXCEPT ![i] = [next[i] EXCEPT !.ptr = v]]
      /\ stamp' = [stamp EXCEPT ![v] = count + 1]
      /\ mem' = [mem EXCEPT ![v] = "live"] /\ count' = count + 1
  BY DEF SetNext, Publish
<1>5. next'[i].ptr = v /\ stamp'[v] = count + 1 /\ mem'[v] = "live"
  BY <1>1, <1>3, <1>4 DEF TypeOK
<1>6. \A n \in Nodes : n # i => next'[n] = next[n]
  BY <1>1, <1>4 DEF TypeOK
<1>7. \A n \in Nodes : n # v => stamp'[n] = stamp[n] /\ mem'[n] = mem[n]
  BY <1>1, <1>4 DEF TypeOK
<1>8. count \in Nat /\ \A n \in Nodes : stamp[n] \in Nat /\ stamp[n] <= count
  BY <1>1 DEF TypeOK, ChainOrdered
<1>9. HeapTyped'
  <2>1. next' \in [Nodes -> NextWords]
    BY <1>1, <1>3, <1>4 DEF TypeOK
  <2>2. stamp' \in [Nodes -> Nat] /\ count' \in Nat
    BY <1>1, <1>4, <1>8 DEF TypeOK
  <2> QED BY <1>1, <1>4, <2>1, <2>2 DEF HeapTyped, TypeOK
<1>10. LineGrows
  BY <1>2, <1>4, <1>5, <1>6, <1>7, <1>8 DEF LineGrows, HasNext, Published
<1>11. stamp[i] = count
  BY <1>1 DEF ChainOrdered
<1>12. ChainOrdered'
  <2>1. \A n \in Nodes : stamp'[n] <= count'
    BY <1>4, <1>5, <1>7, <1>8
  <2>2. ASSUME NEW m \in Nodes, NEW n \in Nodes, Published(m)', stamp'[m] = stamp'[n] PROVE m = n
    <3>1. CASE m = v \/ n = v
      BY <1>5, <1>7, <1>8, <2>2, <3>1
    <3>2. CASE m # v /\ n # v
      BY <1>1, <1>7, <2>2, <3>2 DEF ChainOrdered, Published
    <3> QED BY <3>1, <3>2
  <2>3. ASSUME NEW n \in Nodes, HasNext(n)'
        PROVE  stamp'[n] > 0 /\ stamp'[next'[n].ptr] > stamp'[n]
    <3>1. CASE n = i
      BY <1>5, <1>7, <1>8, <3>1 DEF Published
    <3>2. CASE n # i
      <4>1. HasNext(n) /\ next'[n].ptr = next[n].ptr
        BY <1>6, <2>3, <3>2 DEF HasNext
      <4>2. stamp[n] > 0 /\ stamp[next[n].ptr] > stamp[n] /\ next[n].ptr \in Nodes
        BY <1>1, <4>1 DEF ChainOrdered, TypeOK, NextWords, Ptrs, HasNext
      <4>3. n # v /\ next[n].ptr # v
        BY <1>8, <4>2 DEF Published
      <4> QED BY <1>7, <4>1, <4>2, <4>3
    <3> QED BY <3>1, <3>2
  <2>4. ASSUME NEW n \in Nodes, Published(n)', ~HasNext(n)' PROVE stamp'[n] = count'
    <3>1. n # i
      BY <1>2, <1>5, <2>4 DEF HasNext
    <3>2. CASE n # v
      <4>1. Published(n) /\ ~HasNext(n)
        BY <1>6, <1>7, <2>4, <3>1, <3>2 DEF Published, HasNext
      <4> QED BY <1>1, <1>11, <3>1, <4>1 DEF ChainOrdered
    <3> QED BY <1>4, <1>5, <3>2
  <2>5. ASSUME NEW n \in Nodes, Published(n)', prev'[n] # Null
        PROVE  Published(prev[n])' /\ stamp'[prev'[n]] < stamp'[n]
    <3>1. CASE n = v
      BY <1>5, <1>7, <1>8, <3>1 DEF Published
    <3>2. CASE n # v
      <4>1. Published(prev[n]) /\ stamp[prev[n]] < stamp[n] /\ prev[n] \in Nodes
        BY <1>1, <1>7, <2>5, <3>2 DEF ChainOrdered, Published, TypeOK, Ptrs
      <4> QED BY <1>7, <3>2, <4>1 DEF Published
    <3> QED BY <3>1, <3>2
  <2>6. ASSUME NEW n \in Nodes, mem'[n] \in {"unused", "private"} PROVE ~Published(n)'
    BY <1>1, <1>5, <1>7, <2>6 DEF ChainOrdered, Published
  <2> QED BY <2>1, <2>2, <2>3, <2>4, <2>5, <2>6 DEF ChainOrdered
<1> QED BY <1>9, <1>10, <1>11, <1>12

(* The weak words after a step that raises a flag.                         *)
LEMMA WeakExceptTyped ==
  ASSUME TypeOK, NEW n \in Nodes, NEW w \in WeakWords, weak' = [weak EXCEPT ![n] = w]
  PROVE  weak' \in [Nodes -> WeakWords]
  BY DEF TypeOK

(* Setting WEAK_HAVE_NEXT keeps the type of the weak word.                 *)
LEMMA HaveNextTyped ==
  ASSUME TypeOK, NEW n \in Nodes, weak' = [weak EXCEPT ![n].haveNext = TRUE]
  PROVE  weak' \in [Nodes -> WeakWords]
<1>1. weak[n] \in WeakWords
  BY DEF TypeOK
<1>2. [weak[n] EXCEPT !.haveNext = TRUE] \in WeakWords
  BY <1>1 DEF WeakWords
<1>3. weak' = [weak EXCEPT ![n] = [weak[n] EXCEPT !.haveNext = TRUE]]
  OBVIOUS
<1> QED BY <1>2, <1>3, WeakExceptTyped

(* A new holder has one strong reference and the weak count that implies.  *)
LEMMA HolderTyped ==
  ASSUME TypeOK, NEW v \in Nodes, NEW n, NewHolder(v, n), UNCHANGED <<adv, drops>>,
         dr' \in [Threads -> DropFrames]
  PROVE  CountsOK'
<1>1. [count |-> 1, haveNext |-> FALSE, havePrev |-> TRUE] \in WeakWords
  BY DEF WeakWords
<1>2. 1 \in 0..UsizeMax
  BY HeapAssumption
<1> QED BY <1>1, <1>2 DEF NewHolder, CountsOK, TypeOK

(* FreshNode is a node that was never allocated.                           *)
LEMMA FreshIsUnused ==
  ASSUME OrderInv, Unused # {} PROVE FreshNode \in Nodes /\ mem[FreshNode] = "unused" /\ ~Published(FreshNode)
<1>1. FreshNode \in Unused
  BY DEF FreshNode
<1> QED BY <1>1 DEF Unused, OrderInv, ChainOrdered

(* The rest of UpdateNext, for a node v that is new or from an earlier try. *)
LEMMA LinkNextKeeps ==
  ASSUME OrderInv, NEW t \in Threads, pc[t] = "upd_next", ~HasNext(item[t]),
         NEW v \in Nodes, mem[v] \in {"unused", "private"}, PrepareLink(t, v),
         \A u \in Threads \ {t} :
           Linking(pc[u], av[u]) /\ op[u].val # Null => op[u].val # v,
         mem' = [mem EXCEPT ![v] = "private"], prev' = [prev EXCEPT ![v] = item[t]],
         UNCHANGED <<next, stamp, count, handle, left, item, av, pd, jn>>, CountsOK'
  PROVE  OrderInv'
<1>a. SUFFICES ASSUME NEW o, o = [op[t] EXCEPT !.val = v, !.nw = next[item[t]]] PROVE OrderInv'
  OBVIOUS
<1>1. /\ item[t] \in Nodes /\ op[t] \in CallFrames /\ v \in Ptrs /\ v # Null /\ TypeOK
      /\ next[item[t]] \in NextWords /\ next[item[t]].ptr = Null
      /\ Knows(pc[t], item[t], av[t], pd[t], jn[t], op[t])
  BY RegistersTyped, NodeIsPtr DEF OrderInv, TypeOK, HasNext
<1>2. /\ o \in CallFrames /\ o.val = v /\ o.nw.ptr = Null /\ o.f = op[t].f /\ o.hnd = op[t].hnd
      /\ o.out = op[t].out /\ o.since = op[t].since /\ o.nxt = op[t].nxt
  BY <1>1, <1>a DEF CallFrames
<1>3. op' = [op EXCEPT ![t] = o] /\ pc' = [pc EXCEPT ![t] = "upd_weak"]
  BY <1>a DEF PrepareLink, Goto
<1>4. ~Published(v)
  BY DEF OrderInv, ChainOrdered
<1>5. LineGrows /\ HeapTyped' /\ ChainOrdered'
  <2>1. item[t] \in Ptrs /\ handle' \in [Handles -> HandleStates] /\ left' \in [Threads -> Nat]
    BY <1>1 DEF TypeOK, Ptrs
  <2> QED BY <1>4, <2>1, BuildLine
<1>6. MoveTo(t, "upd_weak", item[t], av[t], pd[t], jn[t], o)
  BY <1>2, <1>3 DEF MoveTo, OrderInv, TypeOK, Labels
<1>7. mem'[v] = "private" /\ prev'[v] = item[t]
  BY <1>1 DEF TypeOK
<1>8. Knows("upd_weak", item[t], av[t], pd[t], jn[t], o)'
  <2>1. Frames("upd_weak", av[t], pd[t]) /\ JanitorOrdered("upd_weak", item[t], jn[t])'
    BY <1>1 DEF Knows, Frames, JanitorOrdered
  <2>2. OnChain("upd_weak", item[t], av[t], o)'
    BY <1>1, <1>2 DEF Knows, OnChain, Published
  <2>3. NewNode("upd_weak", item[t], av[t], pd[t], o)'
    BY <1>1, <1>2, <1>7, <2>1 DEF NewNode, Frames, Linked
  <2>4. UpToDate("upd_weak", item[t], o)'
    BY <1>1, <1>2 DEF Knows, UpToDate
  <2>5. HandleKept("upd_weak", o)'
    BY <1>1, <1>2 DEF Knows, HandleKept, ResultHandle
  <2> QED BY <2>1, <2>2, <2>3, <2>4, <2>5 DEF Knows, Frames
<1>9. \A h \in Handles : Published(handle[h].node)'
  BY DEF OrderInv, Published
<1>10. ASSUME NEW u \in Threads \ {t}
       PROVE  /\ Spared(pc[u], av[u], op[u])
              /\ Linking("upd_weak", av[t]) /\ Linking(pc[u], av[u]) /\ o.val # Null => o.val # op[u].val
              /\ "upd_weak" # "idle" /\ pc[u] # "idle" /\ o.f \in Storing /\ op[u].f \in Storing
                   => ResultHandle(o) # ResultHandle(op[u])
  <2>1. Apart(t, u) /\ Local(u) /\ op[u].val \in Ptrs /\ op[u].hnd \in Handles
    BY DEF OrderInv, TypeOK, CallFrames
  <2>2. Linking(pc[u], av[u]) /\ op[u].val # Null => op[u].val # v
    OBVIOUS
  <2>3. Spared(pc[u], av[u], op[u])
    BY <1>1, <2>1, <2>2 DEF Spared, Local, Knows, HandleKept, TypeOK, Ptrs
  <2>4. ResultHandle(o) = ResultHandle(op[t])
    BY <1>2 DEF ResultHandle
  <2>5. pc[u] # "idle" /\ o.f \in Storing /\ op[u].f \in Storing => ResultHandle(o) # ResultHandle(op[u])
    BY <1>2, <2>1, <2>4 DEF Apart
  <2>6. Linking(pc[u], av[u]) => o.val # op[u].val
    BY <1>1, <1>2, <2>2
  <2> QED BY <2>3, <2>5, <2>6
<1> QED BY <1>5, <1>6, <1>8, <1>9, <1>10, GrowKeeps

(* do_update, about to link: it advances again, builds its node, or points it at the new item. *)
LEMMA UpdateNextKeeps ==
  ASSUME OrderInv, NEW t \in Threads, UpdateNext(t) PROVE OrderInv'
<1>0. /\ pc[t] = "upd_next" /\ TypeOK /\ item[t] \in Nodes /\ Published(item[t])
      /\ op[t] \in CallFrames /\ jn[t] \in JanitorFrames /\ op[t].val \in Ptrs
      /\ Knows(pc[t], item[t], av[t], pd[t], jn[t], op[t])
  BY RegistersTyped DEF UpdateNext, OrderInv, Knows, OnChain, CallFrames
<1>1. CASE HasNext(item[t])
  <2>1. LineKept /\ CountsOK'
    BY <1>0, <1>1, ReadOnlyKept DEF UpdateNext, ReadOnly, TypeOK
  <2>2. UpdateAgain(t) /\ UNCHANGED <<pd, jn, op>>
    BY <1>1 DEF UpdateNext
  <2>3. jn' = [jn EXCEPT ![t] = jn[t]] /\ op' = [op EXCEPT ![t] = op[t]]
    BY <1>0, <2>2 DEF TypeOK
  <2> QED BY <1>0, <2>1, <2>2, <2>3, StartKeeps DEF UpdateAgain, Linking
<1>2. CASE ~HasNext(item[t]) /\ op[t].val # Null
  <2> DEFINE v == op[t].val
  <2>1. v \in Nodes /\ mem[v] = "private"
    BY <1>0, <1>2 DEF Ptrs, Knows, NewNode, Linking
  <2>2. /\ PrepareLink(t, v) /\ prev' = [prev EXCEPT ![v] = item[t]]
        /\ UNCHANGED <<next, strong, weak, adv, mem, drops, item, av, client, pd, jn, dr>>
    BY <1>2 DEF UpdateNext
  <2>3. mem' = [mem EXCEPT ![v] = "private"]
    BY <1>0, <2>1, <2>2 DEF TypeOK
  <2>4. CountsOK'
    BY <1>0, <2>2 DEF CountsOK, TypeOK
  <2>5. ASSUME NEW u \in Threads \ {t} PROVE Linking(pc[u], av[u]) /\ op[u].val # Null => op[u].val # v
    <3>1. Apart(t, u)
      BY DEF OrderInv
    <3> QED BY <1>0, <1>2, <3>1 DEF Apart, Linking
  <2>6. UNCHANGED <<next, stamp, count, handle, left, item, av, pd, jn>>
    BY <2>2 DEF client
  <2> HIDE DEF v
  <2> QED BY <1>0, <1>2, <2>1, <2>2, <2>3, <2>4, <2>5, <2>6, LinkNextKeeps
<1>3. CASE ~HasNext(item[t]) /\ op[t].val = Null
  <2> DEFINE v == FreshNode
  <2>1. /\ PrepareLink(t, v) /\ NewHolder(v, item[t]) /\ Unused # {}
        /\ UNCHANGED <<next, adv, drops, item, av, client, pd, jn, dr>>
    BY <1>3 DEF UpdateNext
  <2>2. v \in Nodes /\ mem[v] = "unused"
    BY <2>1, FreshIsUnused
  <2>3. mem' = [mem EXCEPT ![v] = "private"] /\ prev' = [prev EXCEPT ![v] = item[t]]
    BY <2>1 DEF NewHolder
  <2>4. CountsOK'
    BY <1>0, <2>1, <2>2, HolderTyped DEF TypeOK
  <2>5. ASSUME NEW u \in Threads \ {t} PROVE Linking(pc[u], av[u]) /\ op[u].val # Null => op[u].val # v
    <3>1. Local(u)
      BY DEF OrderInv
    <3> QED BY <2>2, <3>1 DEF Local, Knows, NewNode
  <2>6. UNCHANGED <<next, stamp, count, handle, left, item, av, pd, jn>>
    BY <2>1 DEF client
  <2> HIDE DEF v
  <2> QED BY <1>0, <1>3, <2>1, <2>2, <2>3, <2>4, <2>5, <2>6, LinkNextKeeps
<1> QED BY <1>1, <1>2, <1>3

(* A closure that declines leaves the line as it is.                       *)
LEMMA RcuCancelKeeps ==
  ASSUME OrderInv, NEW t \in Threads, RcuCancel(t) PROVE OrderInv'
<1> DEFINE v == op[t].val
<1>a. SUFFICES ASSUME NEW o, o = [op[t] EXCEPT !.ok = FALSE] PROVE OrderInv'
  OBVIOUS
<1>1. /\ pc[t] = "upd_next" /\ TypeOK /\ ChainOrdered /\ op[t] \in CallFrames /\ v \in Ptrs
      /\ Knows(pc[t], item[t], av[t], pd[t], jn[t], op[t])
  BY RegistersTyped DEF RcuCancel, OrderInv, CallFrames
<1>2. /\ o \in CallFrames /\ o.val = op[t].val /\ o.f = op[t].f /\ o.hnd = op[t].hnd
      /\ o.out = op[t].out /\ o.since = op[t].since /\ o.nxt = op[t].nxt
  BY <1>1, <1>a DEF CallFrames
<1>3. /\ op' = [op EXCEPT ![t] = o] /\ pc' = [pc EXCEPT ![t] = "ret"]
      /\ UNCHANGED <<next, prev, strong, weak, adv, client, item, av, pd, jn, dr>>
  BY <1>a DEF RcuCancel, Goto
<1>4. /\ v = Null => UNCHANGED <<mem, drops>>
      /\ v # Null => mem' = [mem EXCEPT ![v] = "freed"] /\ drops' = [drops EXCEPT ![v] = @ + 1]
  BY DEF RcuCancel
<1>5. v # Null => v \in Nodes /\ mem[v] = "private"
  BY <1>1 DEF Ptrs, Knows, NewNode, Linking
<1>6. LineGrows
  BY <1>1, <1>3 DEF LineGrows, HasNext, client, TypeOK
<1>7. CountsOK' /\ HeapTyped'
  BY <1>1, <1>3, <1>4, <1>5 DEF CountsOK, HeapTyped, TypeOK, client
<1>8. ChainOrdered'
  <2>1. \A k \in Nodes : mem'[k] \in {"unused", "private"} => mem[k] = mem'[k]
    BY <1>1, <1>4, <1>5 DEF TypeOK
  <2> QED BY <1>1, <1>3, <2>1 DEF ChainOrdered, Published, HasNext, client
<1>9. MoveTo(t, "ret", item[t], av[t], pd[t], jn[t], o)
  BY <1>1, <1>2, <1>3 DEF MoveTo, TypeOK, Labels
<1>10. Knows("ret", item[t], av[t], pd[t], jn[t], o)'
  <2>1. Knows("ret", item[t], av[t], pd[t], jn[t], o)
    BY <1>1, <1>2 DEF Knows, Frames, OnChain, NewNode, JanitorOrdered, UpToDate,
       HandleKept, Linking, Linked, ResultHandle
  <2>2. handle[ResultHandle(o)].kind = "busy" \/ o.f \notin Storing
    BY <2>1 DEF Knows, HandleKept
  <2>3. Spared("ret", av[t], o)
    BY <1>1, <1>3, <2>2 DEF Spared, Knows, Frames, Linking, client
  <2> QED BY <1>1, <1>2, <1>3, <1>6, <2>1, <2>3, KnowsStays, RegistersTyped
<1>11. \A h \in Handles : Published(handle[h].node)'
  BY <1>3 DEF OrderInv, Published, client
<1>12. ASSUME NEW u \in Threads \ {t}
       PROVE  /\ Spared(pc[u], av[u], op[u])
              /\ Linking("ret", av[t]) /\ Linking(pc[u], av[u]) /\ o.val # Null => o.val # op[u].val
              /\ "ret" # "idle" /\ pc[u] # "idle" /\ o.f \in Storing /\ op[u].f \in Storing
                   => ResultHandle(o) # ResultHandle(op[u])
  <2>1. Apart(t, u) /\ Local(u) /\ op[u].val \in Ptrs /\ Linking(pc[t], av[t])
    BY <1>1 DEF OrderInv, TypeOK, CallFrames, Linking
  <2>2. Spared(pc[u], av[u], op[u])
    BY <1>1, <1>3, <1>4, <1>5, <2>1 DEF Spared, Local, Knows, HandleKept, TypeOK, Ptrs, Apart, client
  <2>3. ResultHandle(o) = ResultHandle(op[t])
    BY <1>2 DEF ResultHandle
  <2>4. pc[u] # "idle" /\ o.f \in Storing /\ op[u].f \in Storing => ResultHandle(o) # ResultHandle(op[u])
    BY <1>1, <1>2, <2>1, <2>3 DEF Apart
  <2>5. Linking(pc[u], av[u]) /\ o.val # Null => o.val # op[u].val
    BY <1>2, <2>1 DEF Apart
  <2> QED BY <2>2, <2>4, <2>5
<1> QED BY <1>3, <1>6, <1>7, <1>8, <1>9, <1>10, <1>11, <1>12, GrowKeeps

(* The compare-exchange.                                                   *)
LEMMA UpdateCasKeeps ==
  ASSUME OrderInv, NEW t \in Threads, UpdateCas(t) PROVE OrderInv'
<1> DEFINE v == op[t].val
<1>1. /\ pc[t] = "upd_cas" /\ TypeOK /\ op[t] \in CallFrames /\ v \in Ptrs /\ item[t] \in Nodes
      /\ Published(item[t]) /\ Knows(pc[t], item[t], av[t], pd[t], jn[t], op[t])
  BY RegistersTyped DEF UpdateCas, OrderInv, CallFrames, Knows, OnChain
<1>2. UNCHANGED <<prev, strong, weak, adv, drops, handle, left, item, av, pd, jn, dr, op>>
  BY DEF UpdateCas, locals
<1>3. CountsOK'
  BY <1>1, <1>2 DEF CountsOK, TypeOK
<1>4. CASE CanLink(item[t], op[t].nw)
  <2>1. SetNext(item[t], v) /\ Publish(v) /\ pc' = [pc EXCEPT ![t] = "upd_mark"]
    BY <1>4 DEF UpdateCas, Goto
  <2>2. v \in Nodes /\ mem[v] = "private" /\ prev[v] = item[t] /\ ~HasNext(item[t])
    BY <1>1, <1>4 DEF Knows, NewNode, Linking, CanLink, HasNext, Ptrs
  <2>3. ~Published(v)
    BY <2>2 DEF OrderInv, ChainOrdered
  <2> HIDE DEF v
  <2>4. LineGrows /\ HeapTyped' /\ ChainOrdered'
    BY <1>1, <1>2, <2>1, <2>2, <2>3, PublishLine
  <2>5. stamp'[v] = count + 1 /\ \A n \in Nodes : n # v => mem'[n] = mem[n]
    BY <1>1, <2>1, <2>2 DEF Publish, TypeOK
  <2>6. MoveTo(t, "upd_mark", item[t], av[t], pd[t], jn[t], op[t])
    BY <1>1, <1>2, <2>1 DEF MoveTo, OrderInv, TypeOK, Labels
  <2>7. \A n \in Nodes : Published(n) => Published(n)' /\ stamp'[n] = stamp[n]
    BY <2>4 DEF LineGrows, Published
  <2>8. Knows("upd_mark", item[t], av[t], pd[t], jn[t], op[t])'
    <3>1. av[t].start \in Nodes /\ av[t].nxt \in Nodes /\ op[t].nxt \in Nodes
      BY <1>1, RegistersTyped DEF AdvanceFrames, CallFrames
    <3>2. OnChain("upd_mark", item[t], av[t], op[t])'
      <4>1. Published(item[t])' /\ Published(av[t].start)' /\ Published(av[t].nxt)' /\ Published(op[t].nxt)'
        BY <1>1, <1>2, <2>7, <3>1 DEF Knows, OnChain
      <4> QED BY <4>1 DEF OnChain
    <3>3. op[t].since \in Nat /\ count \in Nat /\ op[t].since <= count
      BY <1>1 DEF CallFrames, TypeOK, Knows, UpToDate
    <3>4. v # Null /\ Published(v)' /\ stamp'[v] >= op[t].since
      BY <1>2, <2>2, <2>5, <3>3, NodeIsPtr DEF Published, v
    <3>5. op[t].since <= count' /\ stamp'[item[t]] >= op[t].since
      BY <1>1, <2>1, <2>7, <3>3 DEF Publish, Knows, UpToDate
    <3>6. NewNode("upd_mark", item[t], av[t], pd[t], op[t])'
      BY <1>1, <1>2, <3>4 DEF Knows, Frames, NewNode, Linking, Linked, v
    <3>7. UpToDate("upd_mark", item[t], op[t])'
      BY <1>2, <3>5 DEF UpToDate
    <3>8. HandleKept("upd_mark", op[t])'
      BY <1>1, <1>2 DEF Knows, HandleKept
    <3>9. Frames("upd_mark", av[t], pd[t]) /\ JanitorOrdered("upd_mark", item[t], jn[t])'
      BY <1>1 DEF Knows, Frames, JanitorOrdered
    <3>10. Frames("upd_mark", av[t], pd[t])'
      BY <1>2, <3>9 DEF Frames
    <3> QED BY <3>2, <3>6, <3>7, <3>8, <3>9, <3>10 DEF Knows
  <2>9. \A h \in Handles : Published(handle[h].node)'
    <3>1. ASSUME NEW h \in Handles PROVE handle[h].node \in Nodes /\ Published(handle[h].node)
      BY DEF OrderInv, TypeOK, HandleStates
    <3> QED BY <1>2, <2>7, <3>1 DEF Published
  <2>10. ASSUME NEW u \in Threads \ {t}
         PROVE  /\ Spared(pc[u], av[u], op[u])
                /\ Linking("upd_mark", av[t]) /\ Linking(pc[u], av[u]) /\ op[t].val # Null
                     => op[t].val # op[u].val
                /\ "upd_mark" # "idle" /\ pc[u] # "idle" /\ op[t].f \in Storing /\ op[u].f \in Storing
                     => ResultHandle(op[t]) # ResultHandle(op[u])
    <3>1. Apart(t, u) /\ Local(u) /\ op[u].val \in Ptrs /\ Linking(pc[t], av[t])
      BY <1>1 DEF OrderInv, TypeOK, CallFrames, Linking
    <3>2. Linking(pc[u], av[u]) => op[u].val # v
      BY <2>2, <3>1 DEF Apart, v, Nodes, Null
    <3>3. Spared(pc[u], av[u], op[u])
      BY <1>2, <2>5, <3>1, <3>2 DEF Spared, Local, Knows, HandleKept, Ptrs
    <3>4. Linking(pc[u], av[u]) => op[t].val # op[u].val
      BY <3>2 DEF v
    <3>5. pc[u] # "idle" /\ op[t].f \in Storing /\ op[u].f \in Storing
            => ResultHandle(op[t]) # ResultHandle(op[u])
      BY <1>1, <3>1 DEF Apart
    <3> QED BY <3>3, <3>4, <3>5
  <2> QED BY <1>2, <1>3, <2>4, <2>6, <2>8, <2>9, <2>10, GrowKeeps
<1>5. CASE ~CanLink(item[t], op[t].nw)
  <2>1. Goto(t, "upd_fail") /\ UNCHANGED <<next, mem, stamp, count>>
    BY <1>5 DEF UpdateCas
  <2>2. LineKept
    BY <1>1, <1>2, <2>1 DEF LineKept, TypeOK
  <2>3. Knows("upd_fail", item[t], av[t], pd[t], jn[t], op[t])
    BY <1>1 DEF Knows, Frames, OnChain, NewNode, JanitorOrdered, UpToDate,
       HandleKept, Linking, Linked
  <2> QED BY <1>1, <1>2, <1>3, <2>1, <2>2, <2>3, JumpKeeps DEF Linking, Labels
<1> QED BY <1>4, <1>5

(* Every step of do_update.                                                *)
LEMMA UpdateKeeps ==
  ASSUME OrderInv, NEW t \in Threads, UpdateStep(t) PROVE OrderInv'
<1>0. /\ TypeOK /\ item[t] \in Nodes /\ Published(item[t])
      /\ op[t] \in CallFrames /\ jn[t] \in JanitorFrames /\ op[t].val \in Ptrs
      /\ Knows(pc[t], item[t], av[t], pd[t], jn[t], op[t]) /\ dr \in [Threads -> DropFrames]
      /\ jn = [jn EXCEPT ![t] = jn[t]] /\ op = [op EXCEPT ![t] = op[t]]
  BY RegistersTyped DEF OrderInv, Knows, OnChain, CallFrames, TypeOK
<1>1. CASE UpdateNext(t)
  BY <1>1, UpdateNextKeeps
<1>2. CASE RcuCancel(t)
  BY <1>2, RcuCancelKeeps
<1>3. CASE UpdateWeakInc(t)
  <2>1. LineKept /\ CountsOK'
    BY <1>0, <1>3, OnlyWeakKept, WeakTyped DEF UpdateWeakInc, locals
  <2>2. Knows("upd_cas", item[t], av[t], pd[t], jn[t], op[t])
    BY <1>0, <1>3 DEF UpdateWeakInc, Knows, Frames, OnChain, NewNode, JanitorOrdered, UpToDate,
       HandleKept, Linking, Linked
  <2> QED BY <1>3, <2>1, <2>2, JumpKeeps DEF UpdateWeakInc, locals, Linking, Labels
<1>4. CASE UpdateCas(t)
  BY <1>4, UpdateCasKeeps
<1>5. CASE UpdateFail(t)
  <2>1. LineKept /\ CountsOK'
    BY <1>0, <1>5, OnlyWeakKept, WeakTyped DEF UpdateFail
  <2>2. /\ pc[t] = "upd_fail" /\ UpdateAgain(t) /\ UNCHANGED pd
        /\ jn' = [jn EXCEPT ![t] = jn[t]] /\ op' = [op EXCEPT ![t] = op[t]]
    BY <1>0, <1>5 DEF UpdateFail
  <2> QED BY <1>0, <2>1, <2>2, StartKeeps DEF UpdateAgain, Linking
<1>6. CASE UpdateMark(t)
  <2>1. LineKept /\ CountsOK'
    BY <1>0, <1>6, OnlyWeakKept, HaveNextTyped DEF UpdateMark, locals
  <2>2. Knows("upd_dec", item[t], av[t], pd[t], jn[t], op[t])
    BY <1>0, <1>6 DEF UpdateMark, Knows, Frames, OnChain, NewNode, JanitorOrdered, UpToDate,
       HandleKept, Linking, Linked
  <2> QED BY <1>6, <2>1, <2>2, JumpKeeps DEF UpdateMark, locals, Linking, Labels
<1>7. CASE UpdateDec(t)
  <2>1. LineKept /\ CountsOK'
    BY <1>0, <1>7, OnlyStrongKept, StrongTyped DEF UpdateDec
  <2>2. pc[t] = "upd_dec" /\ UNCHANGED <<av, jn, op>>
    BY <1>7 DEF UpdateDec
  <2>3. CASE LastStrong(item[t])
    <3>1. StartPayloadDrop(t, item[t], FALSE, "upd_decw") /\ UNCHANGED item
      BY <1>7, <2>3 DEF UpdateDec
    <3>2. av[t].ret = "idle" /\ Linked(pc[t], pd[t])
      BY <1>0, <2>2 DEF Knows, Frames, Linked
    <3> QED BY <1>0, <2>1, <2>2, <3>1, <3>2, PayloadKeeps
  <2>4. CASE ~LastStrong(item[t])
    <3>1. item' = [item EXCEPT ![t] = op[t].val] /\ Goto(t, "ret") /\ UNCHANGED pd
      BY <1>7, <2>4 DEF UpdateDec
    <3>2. op[t].val \in Nodes /\ Published(op[t].val) /\ stamp[op[t].val] >= op[t].since
      BY <1>0, <2>2 DEF Knows, NewNode, Linked, Ptrs
    <3>3. MoveTo(t, "ret", op[t].val, av[t], pd[t], jn[t], op[t])
      BY <1>0, <2>2, <3>1, <3>2 DEF MoveTo, Goto, TypeOK, Labels
    <3>4. SameCall(t, "ret", av[t], op[t])
      BY <1>0, <2>2 DEF SameCall, Linking
    <3>5. Knows("ret", op[t].val, av[t], pd[t], jn[t], op[t])
      BY <1>0, <2>2, <3>2 DEF Knows, Frames, OnChain, NewNode, JanitorOrdered, UpToDate,
         HandleKept, Linking, Linked
    <3> QED BY <2>1, <3>3, <3>4, <3>5, MoveKeeps
  <2> QED BY <2>3, <2>4
<1>8. CASE UpdateDecWeak(t)
  <2> DEFINE j == [IdleJanitor EXCEPT !.ret = "upd_done"]
  <2>1. LineKept /\ CountsOK'
    BY <1>0, <1>8, OnlyWeakKept, WeakTyped DEF UpdateDecWeak
  <2>2. /\ pc[t] = "upd_decw" /\ UNCHANGED <<av, pd, op>> /\ Goto(t, "jan_lock")
        /\ item' = [item EXCEPT ![t] = op[t].val] /\ jn' = [jn EXCEPT ![t] = j]
    BY <1>8 DEF UpdateDecWeak
  <2>3. j \in JanitorFrames
    BY IdleFramesTyped DEF JanitorFrames
  <2> HIDE DEF j
  <2>4. op[t].val \in Nodes /\ Published(op[t].val) /\ stamp[op[t].val] >= op[t].since
    BY <1>0, <2>2 DEF Knows, NewNode, Linked, Ptrs
  <2>5. MoveTo(t, "jan_lock", op[t].val, av[t], pd[t], j, op[t])
    BY <1>0, <2>2, <2>3, <2>4 DEF MoveTo, Goto, TypeOK, Labels
  <2>6. SameCall(t, "jan_lock", av[t], op[t])
    BY <1>0, <2>2 DEF SameCall, Linking
  <2>7. Knows("jan_lock", op[t].val, av[t], pd[t], j, op[t])
    BY <1>0, <2>2, <2>4 DEF Knows, Frames, OnChain, NewNode, JanitorOrdered, UpToDate,
       HandleKept, Linking, Linked
  <2> QED BY <2>1, <2>5, <2>6, <2>7, MoveKeeps
<1>9. CASE UpdateDone(t)
  <2>1. LineKept /\ CountsOK'
    BY <1>0, <1>9, ReadOnlyKept DEF UpdateDone
  <2>2. pc[t] = "upd_done" /\ UNCHANGED <<pd, jn, op>>
    BY <1>9 DEF UpdateDone
  <2>3. CASE jn[t].rerun
    <3>1. StartAdvance(t, item[t], "strong", "jan_lock")
      BY <1>9, <2>3 DEF UpdateDone
    <3>2. jn' = [jn EXCEPT ![t] = jn[t]] /\ op' = [op EXCEPT ![t] = op[t]]
      BY <1>0, <2>2
    <3> QED BY <1>0, <2>1, <2>2, <3>1, <3>2, StartKeeps
  <2>4. CASE ~jn[t].rerun
    <3>1. Knows("ret", item[t], av[t], pd[t], jn[t], op[t])
      BY <1>0, <2>2 DEF Knows, Frames, OnChain, NewNode, JanitorOrdered, UpToDate,
         HandleKept, Linking, Linked
    <3> QED BY <1>9, <2>1, <2>2, <2>4, <3>1, JumpKeeps DEF UpdateDone, Linking, Labels
  <2> QED BY <2>3, <2>4
<1> QED
  BY <1>1, <1>2, <1>3, <1>4, <1>5, <1>6, <1>7, <1>8, <1>9 DEF UpdateStep

-----------------------------------------------------------------------------

(* Another round of do_upgrade_weak.                                       *)
LEMMA UpgradeAgainKeeps ==
  ASSUME OrderInv, NEW t \in Threads, LineKept, CountsOK', UpgradeAgain(t),
         UNCHANGED <<pd, jn, op>>, pc[t] \notin {"idle"} \cup Dropping
  PROVE  OrderInv'
<1>1. /\ item[t] \in Nodes /\ Published(item[t]) /\ op[t] \in CallFrames /\ jn[t] \in JanitorFrames
  BY RegistersTyped DEF Knows, OnChain
<1>2. jn' = [jn EXCEPT ![t] = jn[t]] /\ op' = [op EXCEPT ![t] = op[t]]
  BY DEF OrderInv, TypeOK
<1> QED BY <1>1, <1>2, StartKeeps DEF UpgradeAgain

(* Every step of do_upgrade_weak.                                          *)
LEMMA UpgradeKeeps ==
  ASSUME OrderInv, NEW t \in Threads, UpgradeStep(t) PROVE OrderInv'
<1>0. /\ TypeOK /\ item[t] \in Nodes /\ op[t] \in CallFrames
      /\ Knows(pc[t], item[t], av[t], pd[t], jn[t], op[t]) /\ dr \in [Threads -> DropFrames]
  BY RegistersTyped DEF OrderInv, TypeOK
<1>1. CASE UpgradeLoadStrong(t)
  <2> DEFINE o == [op[t] EXCEPT !.cs = strong[item[t]]]
  <2>1. LineKept /\ CountsOK'
    BY <1>0, <1>1, ReadOnlyKept DEF UpgradeLoadStrong
  <2>2. /\ pc[t] = "upg_strong" /\ Goto(t, "upg_next") /\ op' = [op EXCEPT ![t] = o]
        /\ UNCHANGED <<item, av, pd, jn>>
    BY <1>1 DEF UpgradeLoadStrong
  <2>3. strong[item[t]] \in 0..UsizeMax
    BY <1>0 DEF TypeOK
  <2>4. /\ o \in CallFrames /\ o.val = op[t].val /\ o.f = op[t].f /\ o.hnd = op[t].hnd
        /\ o.out = op[t].out /\ o.since = op[t].since /\ o.nxt = op[t].nxt
    BY <1>0, <2>3 DEF CallFrames
  <2> HIDE DEF o
  <2>5. MoveTo(t, "upg_next", item[t], av[t], pd[t], jn[t], o)
    BY <1>0, <2>2, <2>4 DEF MoveTo, Goto, TypeOK, Labels
  <2>6. SameCall(t, "upg_next", av[t], o)
    BY <2>2, <2>4 DEF SameCall, Linking
  <2>7. Knows("upg_next", item[t], av[t], pd[t], jn[t], o)
    BY <1>0, <2>2, <2>4 DEF Knows, Frames, OnChain, NewNode, JanitorOrdered, UpToDate,
       HandleKept, Linking, Linked, ResultHandle
  <2> QED BY <2>1, <2>5, <2>6, <2>7, MoveKeeps
<1>2. CASE UpgradeLoadNext(t)
  <2>1. pc[t] = "upg_next" /\ ReadOnly /\ UNCHANGED pd
    BY <1>2 DEF UpgradeLoadNext
  <2>2. CASE HasNext(item[t])
    BY <1>0, <1>2, <2>1, <2>2, ReadOnlyKept, UpgradeAgainKeeps DEF UpgradeLoadNext
  <2>3. CASE ~HasNext(item[t]) /\ ValueIsGone(item[t], op[t].cs)
    <3> DEFINE o == [op[t] EXCEPT !.ok = FALSE]
    <3>1. op' = [op EXCEPT ![t] = o] /\ StartDropWeak(t, item[t], "ret")
      BY <1>2, <2>3 DEF UpgradeLoadNext
    <3>2. /\ o \in CallFrames /\ o.val = op[t].val /\ o.f = op[t].f /\ o.hnd = op[t].hnd
          /\ o.out = op[t].out /\ o.since = op[t].since /\ o.nxt = op[t].nxt
      BY <1>0 DEF CallFrames
    <3> HIDE DEF o
    <3>3. [IdleDrop EXCEPT !.ret = "ret"] \in DropFrames
      BY IdleFramesTyped DEF DropFrames
    <3>4. dr' \in [Threads -> DropFrames]
      BY <1>0, <3>1, <3>3 DEF StartDropWeak
    <3> QED BY <2>1, <3>1, <3>2, <3>4, ReadOnlyKept, DropWeakRoundKeeps DEF StartDropWeak
  <2>4. CASE ~HasNext(item[t]) /\ ~ValueIsGone(item[t], op[t].cs)
    <3> DEFINE l == IF op[t].cs = 0 THEN "upg_incw" ELSE "upg_cas"
    <3>1. Goto(t, l) /\ UNCHANGED <<item, av, jn, dr, op>>
      BY <1>2, <2>4 DEF UpgradeLoadNext
    <3>2. l \in {"upg_incw", "upg_cas"}
      OBVIOUS
    <3> HIDE DEF l
    <3>3. Knows(l, item[t], av[t], pd[t], jn[t], op[t])
      BY <1>0, <2>1, <3>2 DEF Knows, Frames, OnChain, NewNode, JanitorOrdered, UpToDate,
         HandleKept, Linking, Linked
    <3> QED BY <1>0, <2>1, <3>1, <3>2, <3>3, ReadOnlyKept, JumpKeeps DEF Linking, Labels
  <2> QED BY <2>2, <2>3, <2>4
<1>3. CASE UpgradeIncWeak(t)
  <2>1. LineKept /\ CountsOK'
    BY <1>0, <1>3, OnlyWeakKept, WeakTyped DEF UpgradeIncWeak, locals
  <2>2. Knows("upg_cas", item[t], av[t], pd[t], jn[t], op[t])
    BY <1>0, <1>3 DEF UpgradeIncWeak, Knows, Frames, OnChain, NewNode, JanitorOrdered, UpToDate,
       HandleKept, Linking, Linked
  <2> QED BY <1>3, <2>1, <2>2, JumpKeeps DEF UpgradeIncWeak, locals, Linking, Labels
<1>4. CASE UpgradeCas(t)
  <2>1. pc[t] = "upg_cas" /\ OnlyStrong /\ UNCHANGED <<pd, jn, dr, op>>
    BY <1>4 DEF UpgradeCas
  <2>2. LineKept /\ CountsOK'
    <3>1. strong' \in [Nodes -> 0..UsizeMax]
      BY <1>0, <1>4, StrongTyped DEF UpgradeCas, TypeOK
    <3> QED BY <1>0, <2>1, <3>1, OnlyStrongKept
  <2>3. CASE strong[item[t]] = op[t].cs
    <3>1. Goto(t, "upg_check") /\ UNCHANGED <<item, av>>
      BY <1>4, <2>3 DEF UpgradeCas
    <3>2. Knows("upg_check", item[t], av[t], pd[t], jn[t], op[t])
      BY <1>0, <2>1 DEF Knows, Frames, OnChain, NewNode, JanitorOrdered, UpToDate,
         HandleKept, Linking, Linked
    <3> QED BY <2>1, <2>2, <3>1, <3>2, JumpKeeps DEF Linking, Labels
  <2>4. CASE strong[item[t]] # op[t].cs /\ op[t].cs = 0
    <3>1. Goto(t, "upg_race") /\ UNCHANGED <<item, av>>
      BY <1>4, <2>4 DEF UpgradeCas
    <3>2. Knows("upg_race", item[t], av[t], pd[t], jn[t], op[t])
      BY <1>0, <2>1 DEF Knows, Frames, OnChain, NewNode, JanitorOrdered, UpToDate,
         HandleKept, Linking, Linked
    <3> QED BY <2>1, <2>2, <3>1, <3>2, JumpKeeps DEF Linking, Labels
  <2>5. CASE strong[item[t]] # op[t].cs /\ op[t].cs # 0
    BY <1>4, <2>1, <2>2, <2>5, UpgradeAgainKeeps DEF UpgradeCas
  <2> QED BY <2>3, <2>4, <2>5
<1>5. CASE UpgradeRaceDecWeak(t)
  BY <1>0, <1>5, OnlyWeakKept, WeakTyped, UpgradeAgainKeeps DEF UpgradeRaceDecWeak
<1>6. CASE UpgradeCheck(t)
  <2> DEFINE l == IF HasNext(item[t]) THEN "upg_undo" ELSE "upg_done"
  <2>1. LineKept /\ CountsOK' /\ pc[t] = "upg_check" /\ Goto(t, l) /\ UNCHANGED <<item, av, pd, jn, op>>
    BY <1>0, <1>6, ReadOnlyKept DEF UpgradeCheck, locals
  <2>2. l \in {"upg_undo", "upg_done"}
    OBVIOUS
  <2> HIDE DEF l
  <2>3. Knows(l, item[t], av[t], pd[t], jn[t], op[t])
    BY <1>0, <2>1, <2>2 DEF Knows, Frames, OnChain, NewNode, JanitorOrdered, UpToDate,
       HandleKept, Linking, Linked
  <2> QED BY <2>1, <2>2, <2>3, JumpKeeps DEF Linking, Labels
<1>7. CASE UpgradeUndo(t)
  <2>1. pc[t] = "upg_undo" /\ OnlyStrong /\ UNCHANGED <<pd, jn, dr, op>>
    BY <1>7 DEF UpgradeUndo
  <2>2. LineKept /\ CountsOK'
    BY <1>0, <1>7, OnlyStrongKept, StrongTyped DEF UpgradeUndo
  <2>3. CASE LastStrong(item[t])
    <3>1. Goto(t, "upg_undo_decw") /\ UNCHANGED <<item, av>>
      BY <1>7, <2>3 DEF UpgradeUndo
    <3>2. Knows("upg_undo_decw", item[t], av[t], pd[t], jn[t], op[t])
      BY <1>0, <2>1 DEF Knows, Frames, OnChain, NewNode, JanitorOrdered, UpToDate,
         HandleKept, Linking, Linked
    <3> QED BY <2>1, <2>2, <3>1, <3>2, JumpKeeps DEF Linking, Labels
  <2>4. CASE ~LastStrong(item[t])
    BY <1>7, <2>1, <2>2, <2>4, UpgradeAgainKeeps DEF UpgradeUndo
  <2> QED BY <2>3, <2>4
<1>8. CASE UpgradeUndoDecWeak(t)
  BY <1>0, <1>8, OnlyWeakKept, WeakTyped, UpgradeAgainKeeps DEF UpgradeUndoDecWeak
<1>9. CASE UpgradeDone(t)
  <2>1. LineKept /\ CountsOK'
    BY <1>0, <1>9, OnlyWeakKept, WeakTyped DEF UpgradeDone, locals
  <2>2. Knows("ret", item[t], av[t], pd[t], jn[t], op[t])
    BY <1>0, <1>9 DEF UpgradeDone, Knows, Frames, OnChain, NewNode, JanitorOrdered, UpToDate,
       HandleKept, Linking, Linked
  <2> QED BY <1>9, <2>1, <2>2, JumpKeeps DEF UpgradeDone, locals, Linking, Labels
<1> QED
  BY <1>1, <1>2, <1>3, <1>4, <1>5, <1>6, <1>7, <1>8, <1>9 DEF UpgradeStep

-----------------------------------------------------------------------------
(* Entering a call, leaving it, and the steps of the public functions      *)
(* themselves keep OrderInv.                                               *)

-----------------------------------------------------------------------------
(* Entering a call.                                                        *)

(* What is known of a thread between two calls.                            *)
LEMMA IdleKnows ==
  ASSUME OrderInv, NEW t \in Threads, pc[t] = "idle"
  PROVE  av[t].ret = "idle" /\ pd[t].ret = "idle" /\ Published(av[t].start) /\ Published(av[t].nxt)
         /\ Published(item[t])
<1>1. Knows(pc[t], item[t], av[t], pd[t], jn[t], op[t])
  BY RegistersTyped
<1> QED BY <1>1 DEF Knows, Frames, OnChain

\* a call is entered that takes or reserves the handle g and may bring a new node v
Entering(t, f, h, r, v, g, n) ==
  /\ Enter(t, f, h, r, v)
  /\ g = IF f \in {"clone", "upgrade"} THEN r ELSE h
  /\ handle[g].kind # "busy" /\ handle' = [handle EXCEPT ![g] = Busy]
  /\ \A u \in Threads : pc[u] # "idle" /\ op[u].f = "sharedGet" => op[u].hnd # g
  /\ UNCHANGED next
  /\ \/ v = Null /\ UNCHANGED <<mem, prev>>
     \/ v # Null /\ mem[v] = "unused" /\ mem' = [mem EXCEPT ![v] = "private"]
          /\ prev' = [prev EXCEPT ![v] = n]

\* its first step is to look for what is right of n
Looks(t, l, n, a, j) ==
  /\ Goto(t, l) /\ item' = [item EXCEPT ![t] = n] /\ av' = [av EXCEPT ![t] = a]
  /\ jn' = [jn EXCEPT ![t] = j]
  /\ \/ l = "adv_load" /\ a.start = n /\ a.nxt = n
     \/ l = "get_load" /\ a = av[t]

(* A call that takes or reserves a handle.                                 *)
LEMMA EnterKeeps ==
  ASSUME OrderInv, NEW t \in Threads, NEW f \in Storing, NEW h \in Handles, NEW r \in Handles,
         NEW v \in Ptrs, NEW g \in Handles, NEW n \in Nodes, Entering(t, f, h, r, v, g, n),
         Published(n), CountsOK',
         NEW l, NEW a \in AdvanceFrames, NEW j \in JanitorFrames, Looks(t, l, n, a, j)
  PROVE  OrderInv'
<1>a. SUFFICES ASSUME NEW o, o = [IdleOp EXCEPT !.f = f, !.hnd = h, !.out = r, !.val = v, !.since = count]
               PROVE  OrderInv'
  OBVIOUS
<1>b. SUFFICES ASSUME NEW p, p = pd[t] PROVE OrderInv'
  OBVIOUS
<1>c. /\ Enter(t, f, h, r, v)
      /\ g = IF f \in {"clone", "upgrade"} THEN r ELSE h
      /\ handle[g].kind # "busy" /\ handle' = [handle EXCEPT ![g] = Busy]
      /\ \A u \in Threads : pc[u] # "idle" /\ op[u].f = "sharedGet" => op[u].hnd # g
      /\ UNCHANGED next
      /\ \/ v = Null /\ UNCHANGED <<mem, prev>>
         \/ v # Null /\ mem[v] = "unused" /\ mem' = [mem EXCEPT ![v] = "private"]
              /\ prev' = [prev EXCEPT ![v] = n]
  BY DEF Entering
<1>d. /\ Goto(t, l) /\ item' = [item EXCEPT ![t] = n] /\ av' = [av EXCEPT ![t] = a]
      /\ jn' = [jn EXCEPT ![t] = j]
      /\ \/ l = "adv_load" /\ a.start = n /\ a.nxt = n
         \/ l = "get_load" /\ a = av[t]
  BY DEF Looks
<1>1. TypeOK /\ ChainOrdered /\ count \in Nat /\ pc[t] = "idle" /\ p \in PayloadFrames
  BY <1>b, <1>c, RegistersTyped DEF OrderInv, TypeOK, Enter, Admitted
<1>2. /\ o \in CallFrames /\ o.f = f /\ o.hnd = h /\ o.out = r /\ o.val = v /\ o.since = count
      /\ o.nxt = IdleNode
  <2>1. f \in Functions \cup {"none"}
    BY DEF Storing
  <2> QED BY <1>1, <1>a, <2>1, IdleFramesTyped DEF CallFrames
<1>3. ResultHandle(o) = g
  BY <1>2, <1>c DEF ResultHandle
<1>4. /\ op' = [op EXCEPT ![t] = o] /\ pd' = [pd EXCEPT ![t] = p] /\ UNCHANGED <<stamp, count, pd>>
      /\ left' = [left EXCEPT ![t] = @ - 1] /\ left[t] > 0
  BY <1>1, <1>a, <1>b, <1>c DEF Enter, Admitted, TypeOK
<1>5. MoveTo(t, l, n, a, p, j, o)
  BY <1>1, <1>2, <1>4, <1>d DEF MoveTo, Goto, Labels
<1>6. left' \in [Threads -> Nat] /\ handle' \in [Handles -> HandleStates]
  <2>1. Busy \in HandleStates
    BY IdleFramesTyped DEF Busy, HandleStates
  <2>2. left[t] - 1 \in Nat
    BY <1>1, <1>4 DEF TypeOK
  <2> QED BY <1>1, <1>4, <1>c, <2>1, <2>2 DEF TypeOK
<1>7. LineGrows /\ HeapTyped' /\ ChainOrdered'
  <2>1. CASE v = Null
    <3>1. UNCHANGED <<next, mem, prev, stamp, count>>
      BY <1>4, <1>c, <2>1
    <3>2. LineGrows
      BY <1>1, <3>1 DEF LineGrows, HasNext
    <3>3. HeapTyped'
      BY <1>1, <1>6, <3>1 DEF HeapTyped, TypeOK
    <3>4. ChainOrdered'
      BY <1>1, <3>1 DEF ChainOrdered, Published, HasNext
    <3> QED BY <3>2, <3>3, <3>4
  <2>2. CASE v # Null
    <3>1. v \in Nodes /\ n \in Ptrs /\ ~Published(v)
      BY <1>1, <1>c, <2>2 DEF Ptrs, ChainOrdered
    <3> QED BY <1>4, <1>6, <1>c, <2>2, <3>1, BuildLine
  <2> QED BY <2>1, <2>2
<1>8. Published(IdleNode)' /\ Published(n)' /\ \A x \in Handles : Published(handle[x].node)'
  <2>1. Busy.node = IdleNode
    BY DEF Busy
  <2> QED BY <1>1, <1>4, <1>c, <2>1 DEF OrderInv, Published, TypeOK
<1>9. Knows(l, n, a, p, j, o)'
  <2>0. av[t].ret = "idle" /\ p.ret = "idle" /\ stamp'[av[t].start] > 0 /\ stamp'[av[t].nxt] > 0
    BY <1>1, <1>4, <1>b, IdleKnows DEF Published
  <2>1. Frames(l, a, p)
    BY <1>d, <2>0 DEF Frames
  <2>2. OnChain(l, n, a, o)'
    BY <1>2, <1>8, <1>d, <2>0 DEF OnChain, Published
  <2>3. v # Null => mem'[v] = "private"
    BY <1>1, <1>c DEF TypeOK, Ptrs
  <2>4. NewNode(l, n, a, p, o)'
    BY <1>2, <1>d, <2>0, <2>3 DEF NewNode, Linked
  <2>5. JanitorOrdered(l, n, j)'
    BY <1>d DEF JanitorOrdered
  <2>6. UpToDate(l, n, o)'
    BY <1>1, <1>2, <1>4, <1>d DEF UpToDate
  <2>7. handle'[g].kind = "busy"
    BY <1>1, <1>c DEF TypeOK, Busy
  <2>8. HandleKept(l, o)'
    BY <1>2, <1>3, <1>d, <2>7 DEF HandleKept, Storing
  <2> QED BY <2>1, <2>2, <2>4, <2>5, <2>6, <2>8 DEF Knows, Frames
<1>10. ASSUME NEW u \in Threads \ {t}
       PROVE  /\ Spared(pc[u], av[u], op[u])
              /\ Linking(l, a) /\ Linking(pc[u], av[u]) /\ o.val # Null => o.val # op[u].val
              /\ l # "idle" /\ pc[u] # "idle" /\ o.f \in Storing /\ op[u].f \in Storing
                   => ResultHandle(o) # ResultHandle(op[u])
  <2>1. Local(u) /\ op[u].val \in Ptrs /\ op[u].hnd \in Handles /\ op[u].out \in Handles
    BY DEF OrderInv, TypeOK, CallFrames
  <2>2. ResultHandle(op[u]) \in Handles
    BY <2>1 DEF ResultHandle
  <2>3. Linking(pc[u], av[u]) /\ op[u].val # Null => mem[op[u].val] = "private"
    BY <2>1 DEF Local, Knows, NewNode
  <2>4. pc[u] # "idle" /\ op[u].f \in Storing => handle[ResultHandle(op[u])].kind = "busy"
    BY <2>1 DEF Local, Knows, HandleKept
  <2>5. Linking(pc[u], av[u]) /\ op[u].val # Null
           => op[u].val # v /\ mem'[op[u].val] = mem[op[u].val] /\ prev'[op[u].val] = prev[op[u].val]
    BY <1>1, <1>c, <2>1, <2>3 DEF TypeOK, Ptrs
  <2>6. Spared(pc[u], av[u], op[u])
    BY <1>1, <1>c, <2>1, <2>2, <2>4, <2>5 DEF Spared, TypeOK
  <2>7. Linking(pc[u], av[u]) /\ o.val # Null => o.val # op[u].val
    BY <1>2, <2>5
  <2>8. pc[u] # "idle" /\ op[u].f \in Storing => ResultHandle(o) # ResultHandle(op[u])
    BY <1>3, <1>c, <2>4
  <2> QED BY <2>6, <2>7, <2>8
<1> QED BY <1>5, <1>7, <1>8, <1>9, <1>10, GrowKeeps

(* The node a handle refers to.                                            *)
LEMMA HandleNode ==
  ASSUME OrderInv, NEW h \in Handles
  PROVE  handle[h].node \in Nodes /\ Published(handle[h].node)
  BY DEF OrderInv, TypeOK, HandleStates

(* A call that begins with an advance.                                     *)
LEMMA EnterAdvanceKeeps ==
  ASSUME OrderInv, NEW t \in Threads, NEW f \in Storing, NEW h \in Handles, NEW r \in Handles,
         NEW v \in Ptrs, NEW g \in Handles, Entering(t, f, h, r, v, g, handle[h].node), CountsOK',
         NEW mode \in {"strong", "weak"},
         NEW ret \in {"ds_dec", "jan_lock", "upd_next", "upg_strong", "ret"},
         StartAdvance(t, handle[h].node, mode, ret),
         NEW j \in JanitorFrames, jn' = [jn EXCEPT ![t] = j]
  PROVE  OrderInv'
<1>a. SUFFICES ASSUME NEW n, n = handle[h].node,
                      NEW a, a = [IdleAdvance EXCEPT !.start = n, !.nxt = n, !.mode = mode, !.ret = ret]
               PROVE  OrderInv'
  OBVIOUS
<1>1. n \in Nodes /\ Published(n)
  BY <1>a, HandleNode
<1>2. a \in AdvanceFrames /\ a.start = n /\ a.nxt = n
  <2>1. IdleAdvance \in AdvanceFrames
    BY IdleFramesTyped
  <2> QED BY <1>1, <1>a, <2>1 DEF AdvanceFrames
<1>3. Looks(t, "adv_load", n, a, j)
  BY <1>2, <1>a DEF StartAdvance, Looks
<1>4. Entering(t, f, h, r, v, g, n)
  BY <1>a
<1> QED BY <1>1, <1>2, <1>3, <1>4, EnterKeeps

(* &mut self: a handle that is taken is not busy, and nobody borrows it.   *)
LEMMA TakeSpares ==
  ASSUME NEW t \in Threads, NEW h \in Handles, NEW kind \in {"strong", "weak"}, Take(h, kind)
  PROVE  /\ handle[h].kind # "busy" /\ handle' = [handle EXCEPT ![h] = Busy]
         /\ \A u \in Threads : pc[u] # "idle" /\ op[u].f = "sharedGet" => op[u].hnd # h
  BY DEF Take

(* &self: an empty handle that is reserved is not busy, and nobody has it. *)
LEMMA ReserveSpares ==
  ASSUME OrderInv, NEW t \in Threads, NEW r \in Handles, Reserve(r)
  PROVE  /\ handle[r].kind # "busy" /\ handle' = [handle EXCEPT ![r] = Busy]
         /\ \A u \in Threads : pc[u] # "idle" /\ op[u].f = "sharedGet" => op[u].hnd # r
<1>1. handle[r].kind = "none" /\ handle' = [handle EXCEPT ![r] = Busy]
  BY DEF Reserve
<1>2. ASSUME NEW u \in Threads, pc[u] # "idle", op[u].f = "sharedGet" PROVE op[u].hnd # r
  <2>1. Local(u)
    BY DEF OrderInv
  <2> QED BY <1>1, <1>2, <2>1 DEF Local, Knows, HandleKept
<1> QED BY <1>1, <1>2

(* Entering any public call keeps the invariant: what the call borrows or takes is on the chain. *)
LEMMA CallKeeps ==
  ASSUME OrderInv, NEW t \in Threads, Call(t) PROVE OrderInv'
<1>0. /\ TypeOK /\ Null \in Ptrs /\ jn[t] \in JanitorFrames /\ jn = [jn EXCEPT ![t] = jn[t]]
      /\ dr \in [Threads -> DropFrames]
      /\ {"clone", "upgrade", "update", "rcu", "drop", "dropWeak", "intoInner", "get", "reload",
          "tryGetMut"} \subseteq Storing
  BY RegistersTyped DEF OrderInv, TypeOK, Ptrs, Storing, Functions
<1>a. [IdleDrop EXCEPT !.ret = "ret"] \in DropFrames
  BY IdleFramesTyped DEF DropFrames
<1>b. PICK h \in Handles, r \in Handles :
        \/ Clone(t, h, r) \/ CloneWeak(t, "downgrade", h, r) \/ CloneWeak(t, "cloneWeak", h, r)
        \/ Upgrade(t, h, r) \/ Update(t, h) \/ Rcu(t, h)
        \/ DropShift(t, "drop", h) \/ DropShift(t, "intoInner", h) \/ DropShiftWeak(t, h)
        \/ Reload(t, "get", h) \/ Reload(t, "reload", h) \/ Reload(t, "tryGetMut", h)
        \/ SharedGet(t, h)
  BY DEF Call
<1>c. handle[h].node \in Nodes /\ Published(handle[h].node)
  BY HandleNode
<1>1. CASE Clone(t, h, r)
  <2>1. /\ Enter(t, "clone", h, r, Null) /\ Reserve(r) /\ AddStrong(handle[h].node)
        /\ StartAdvance(t, handle[h].node, "strong", "ret")
        /\ UNCHANGED <<next, prev, weak, adv, mem, drops, jn, dr>>
    BY <1>1 DEF Clone
  <2>2. CountsOK'
    BY <1>0, <1>c, <2>1, StrongTyped DEF CountsOK, TypeOK
  <2>3. "clone" \in Storing /\ Entering(t, "clone", h, r, Null, r, handle[h].node)
    BY <1>0, <2>1, ReserveSpares DEF Entering
  <2> QED BY <1>0, <2>1, <2>2, <2>3, EnterAdvanceKeeps
<1>2. CASE \E f \in {"downgrade", "cloneWeak"} : CloneWeak(t, f, h, r)
  <2>1. /\ pc[t] = "idle" /\ left[t] > 0 /\ left' = [left EXCEPT ![t] = @ - 1]
        /\ handle[r].kind = "none"
        /\ handle' = [handle EXCEPT ![r] = [kind |-> "weak", node |-> handle[h].node]]
        /\ AddWeak(handle[h].node)
        /\ UNCHANGED <<next, prev, strong, adv, mem, drops, stamp, count, pc,
                       item, av, pd, jn, dr, op>>
    BY <1>2 DEF CloneWeak, Admitted, locals
  <2>2. CountsOK'
    BY <1>0, <1>c, <2>1, WeakTyped DEF CountsOK, TypeOK
  <2>3. [kind |-> "weak", node |-> handle[h].node] \in HandleStates
    BY <1>c DEF HandleStates
  <2>4. HeapTyped'
    <3>1. left[t] - 1 \in Nat
      BY <1>0, <2>1 DEF TypeOK
    <3> QED BY <1>0, <2>1, <2>3, <3>1 DEF HeapTyped, TypeOK
  <2>5. LineGrows /\ ChainOrdered'
    BY <1>0, <2>1 DEF LineGrows, HasNext, TypeOK, OrderInv, ChainOrdered, Published
  <2>6. MoveTo(t, pc[t], item[t], av[t], pd[t], jn[t], op[t])
    BY <1>0, <2>1 DEF MoveTo, TypeOK
  <2>7. ASSUME NEW u \in Threads PROVE Spared(pc[u], av[u], op[u])
    <3>1. Local(u) /\ op[u].hnd \in Handles /\ op[u].out \in Handles
      BY DEF OrderInv, TypeOK, CallFrames
    <3>2. ResultHandle(op[u]) \in Handles
      BY <3>1 DEF ResultHandle
    <3> QED BY <1>0, <2>1, <3>1, <3>2 DEF Spared, Local, Knows, HandleKept, TypeOK
  <2>8. Knows(pc[t], item[t], av[t], pd[t], jn[t], op[t])'
    BY <2>1, <2>5, <2>7, KnowsStays, RegistersTyped DEF OrderInv
  <2>9. \A x \in Handles : Published(handle[x].node)'
    BY <1>0, <1>c, <2>1 DEF OrderInv, Published, TypeOK
  <2>10. ASSUME NEW u \in Threads \ {t}
         PROVE  Linking(pc[t], av[t]) /\ Linking(pc[u], av[u]) /\ op[t].val # Null
                  => op[t].val # op[u].val
    <3>1. Apart(t, u)
      BY DEF OrderInv
    <3> QED BY <3>1 DEF Apart
  <2> QED BY <2>1, <2>2, <2>4, <2>5, <2>6, <2>7, <2>8, <2>9, <2>10, GrowKeeps
<1>3. CASE Upgrade(t, h, r)
  <2>1. /\ Enter(t, "upgrade", h, r, Null) /\ Reserve(r) /\ AddWeak(handle[h].node)
        /\ StartAdvance(t, handle[h].node, "weak", "upg_strong")
        /\ UNCHANGED <<next, prev, strong, adv, mem, drops, jn, dr>>
    BY <1>3 DEF Upgrade
  <2>2. CountsOK'
    BY <1>0, <1>c, <2>1, WeakTyped DEF CountsOK, TypeOK
  <2>3. "upgrade" \in Storing /\ Entering(t, "upgrade", h, r, Null, r, handle[h].node)
    BY <1>0, <2>1, ReserveSpares DEF Entering
  <2> QED BY <1>0, <2>1, <2>2, <2>3, EnterAdvanceKeeps
<1>4. CASE Update(t, h)
  <2> DEFINE v == FreshNode
  <2>1. /\ Unused # {} /\ Enter(t, "update", h, h, v) /\ Take(h, "strong")
        /\ NewHolder(v, handle[h].node) /\ StartAdvance(t, handle[h].node, "strong", "upd_next")
        /\ UNCHANGED <<next, adv, drops, jn, dr>>
    BY <1>4 DEF Update
  <2>2. v \in Nodes /\ v \in Ptrs /\ v # Null /\ mem[v] = "unused"
    BY <2>1, FreshIsUnused, NodeIsPtr
  <2> HIDE DEF v
  <2>3. CountsOK'
    BY <1>0, <2>1, <2>2, HolderTyped
  <2>4. mem' = [mem EXCEPT ![v] = "private"] /\ prev' = [prev EXCEPT ![v] = handle[h].node]
    BY <2>1 DEF NewHolder
  <2>5. "update" \in Storing /\ Entering(t, "update", h, h, v, h, handle[h].node)
    BY <1>0, <2>1, <2>2, <2>4, TakeSpares DEF Entering
  <2> QED BY <1>0, <2>1, <2>2, <2>3, <2>5, EnterAdvanceKeeps
<1>5. CASE Rcu(t, h)
  <2>1. /\ Enter(t, "rcu", h, h, Null) /\ Take(h, "strong")
        /\ StartAdvance(t, handle[h].node, "strong", "upd_next") /\ UNCHANGED <<heap, jn, dr>>
    BY <1>5 DEF Rcu
  <2>2. CountsOK' /\ UNCHANGED <<next, mem, prev>>
    BY <1>0, <2>1 DEF CountsOK, TypeOK, heap
  <2>3. "rcu" \in Storing /\ Entering(t, "rcu", h, h, Null, h, handle[h].node)
    BY <1>0, <2>1, <2>2, TakeSpares DEF Entering
  <2> QED BY <1>0, <2>1, <2>2, <2>3, EnterAdvanceKeeps
<1>6. CASE \E f \in {"drop", "intoInner"} : DropShift(t, f, h)
  <2>1. PICK f \in {"drop", "intoInner"} :
          /\ Enter(t, f, h, h, Null) /\ Take(h, "strong")
          /\ StartDropStrong(t, handle[h].node, "ret") /\ UNCHANGED <<heap, jn>>
    BY <1>6 DEF DropShift
  <2>2. StartAdvance(t, handle[h].node, "strong", "ds_dec") /\ dr' \in [Threads -> DropFrames]
    BY <1>0, <1>a, <2>1 DEF StartDropStrong
  <2>3. CountsOK' /\ UNCHANGED <<next, mem, prev>>
    BY <1>0, <2>1, <2>2 DEF CountsOK, TypeOK, heap
  <2>4. f \in Storing /\ Entering(t, f, h, h, Null, h, handle[h].node)
    BY <1>0, <2>1, <2>3, TakeSpares DEF Entering
  <2> QED BY <1>0, <2>1, <2>2, <2>3, <2>4, EnterAdvanceKeeps
<1>7. CASE DropShiftWeak(t, h)
  <2> DEFINE j == [IdleJanitor EXCEPT !.ret = "dw_weak"]
  <2>1. /\ Enter(t, "dropWeak", h, h, Null) /\ Take(h, "weak")
        /\ StartDropWeak(t, handle[h].node, "ret") /\ UNCHANGED heap
    BY <1>7 DEF DropShiftWeak
  <2>2. /\ StartAdvance(t, handle[h].node, "weak", "jan_lock") /\ dr' \in [Threads -> DropFrames]
        /\ jn' = [jn EXCEPT ![t] = j]
    BY <1>0, <1>a, <2>1 DEF StartDropWeak, DropWeakRound
  <2>3. j \in JanitorFrames
    BY IdleFramesTyped DEF JanitorFrames
  <2> HIDE DEF j
  <2>4. CountsOK' /\ UNCHANGED <<next, mem, prev>>
    BY <1>0, <2>1, <2>2 DEF CountsOK, TypeOK, heap
  <2>5. "dropWeak" \in Storing /\ Entering(t, "dropWeak", h, h, Null, h, handle[h].node)
    BY <1>0, <2>1, <2>4, TakeSpares DEF Entering
  <2> QED BY <1>0, <2>1, <2>2, <2>3, <2>4, <2>5, EnterAdvanceKeeps
<1>8. CASE \E f \in {"get", "reload", "tryGetMut"} : Reload(t, f, h)
  <2>1. PICK f \in {"get", "reload", "tryGetMut"} :
          /\ Enter(t, f, h, h, Null) /\ Take(h, "strong") /\ Goto(t, "get_load")
          /\ item' = [item EXCEPT ![t] = handle[h].node] /\ UNCHANGED <<heap, av, jn, dr>>
    BY <1>8 DEF Reload
  <2>2. CountsOK' /\ UNCHANGED <<next, mem, prev>>
    BY <1>0, <2>1 DEF CountsOK, TypeOK, heap
  <2>3. av[t] \in AdvanceFrames /\ av' = [av EXCEPT ![t] = av[t]] /\ jn' = [jn EXCEPT ![t] = jn[t]]
    BY <1>0, <2>1 DEF TypeOK
  <2>4. f \in Storing /\ Entering(t, f, h, h, Null, h, handle[h].node)
    BY <1>0, <2>1, <2>2, TakeSpares DEF Entering
  <2>5. Looks(t, "get_load", handle[h].node, av[t], jn[t])
    BY <2>1, <2>3 DEF Looks
  <2> QED BY <1>0, <1>c, <2>2, <2>3, <2>4, <2>5, EnterKeeps
<1>9. CASE SharedGet(t, h)
  <2>a. SUFFICES ASSUME NEW o, o = [IdleOp EXCEPT !.f = "sharedGet", !.hnd = h, !.out = h, !.val = Null,
                                                   !.since = count]
                 PROVE  OrderInv'
    OBVIOUS
  <2>1. /\ pc[t] = "idle" /\ left[t] > 0 /\ left' = [left EXCEPT ![t] = @ - 1]
        /\ op' = [op EXCEPT ![t] = o] /\ handle[h].kind = "strong" /\ Goto(t, "sg_load")
        /\ UNCHANGED <<next, prev, strong, weak, adv, mem, drops, stamp, count, handle,
                       item, av, pd, jn, dr>>
    BY <1>9, <2>a DEF SharedGet, Enter, Admitted, Borrow, heap
  <2>2. /\ o \in CallFrames /\ o.f = "sharedGet" /\ o.hnd = h /\ o.val = Null /\ o.since = count
        /\ o.nxt = IdleNode
    <3>1. "sharedGet" \in Functions \cup {"none"} /\ count \in Nat
      BY <1>0 DEF Functions, TypeOK
    <3> QED BY <1>0, <2>a, <3>1, IdleFramesTyped DEF CallFrames
  <2>3. CountsOK' /\ HeapTyped'
    <3>1. left[t] - 1 \in Nat
      BY <1>0, <2>1 DEF TypeOK
    <3> QED BY <1>0, <2>1, <3>1 DEF CountsOK, HeapTyped, TypeOK
  <2>4. LineGrows /\ ChainOrdered'
    BY <1>0, <2>1 DEF LineGrows, HasNext, TypeOK, OrderInv, ChainOrdered, Published
  <2>5. MoveTo(t, "sg_load", item[t], av[t], pd[t], jn[t], o)
    BY <1>0, <2>1, <2>2 DEF MoveTo, Goto, TypeOK, Labels
  <2>6. Knows("sg_load", item[t], av[t], pd[t], jn[t], o)
    <3>1. count \in Nat /\ Published(IdleNode)
      BY <1>0 DEF TypeOK, OrderInv
    <3>2. Knows(pc[t], item[t], av[t], pd[t], jn[t], op[t])
      BY RegistersTyped
    <3> QED BY <2>1, <2>2, <3>1, <3>2 DEF Knows, Frames, OnChain, NewNode, JanitorOrdered, UpToDate,
          HandleKept, Linking, Linked, Storing
  <2>7. ASSUME NEW u \in Threads PROVE Spared(pc[u], av[u], op[u])
    <3>1. Local(u)
      BY DEF OrderInv
    <3> QED BY <2>1, <3>1 DEF Spared, Local, Knows, HandleKept
  <2>8. Spared("sg_load", av[t], o)
    BY <2>1, <2>2 DEF Spared, Storing
  <2>9. Knows("sg_load", item[t], av[t], pd[t], jn[t], o)'
    BY <2>1, <2>2, <2>4, <2>6, <2>8, KnowsStays, RegistersTyped DEF OrderInv
  <2>10. \A x \in Handles : Published(handle[x].node)'
    BY <2>1 DEF OrderInv, Published
  <2>11. o.val = Null /\ o.f \notin Storing
    BY <2>2 DEF Storing
  <2> QED BY <2>1, <2>3, <2>4, <2>5, <2>7, <2>9, <2>10, <2>11, GrowKeeps
<1> QED
  BY <1>b, <1>1, <1>2, <1>3, <1>4, <1>5, <1>6, <1>7, <1>8, <1>9

-----------------------------------------------------------------------------
(* The steps of the public functions.                                      *)

(* get, reload and try_get_mut advance again, or go on.                    *)
LEMMA ReloadKeeps ==
  ASSUME OrderInv, NEW t \in Threads, ReloadAgain(t), ReadOnly, UNCHANGED <<pd, dr, op>>,
         NEW j \in JanitorFrames, jn' = [jn EXCEPT ![t] = j], pc[t] \in {"get_load", "get_done"}
  PROVE  OrderInv'
<1>1. /\ item[t] \in Nodes /\ Published(item[t]) /\ op[t] \in CallFrames
      /\ op' = [op EXCEPT ![t] = op[t]] /\ dr' \in [Threads -> DropFrames]
  BY RegistersTyped DEF Knows, OnChain, OrderInv, TypeOK
<1>2. LineKept /\ CountsOK'
  BY <1>1, ReadOnlyKept
<1> QED BY <1>1, <1>2, StartKeeps DEF ReloadAgain

(* get, reload and try_get_mut go on once they are as new as the newest value at their start. *)
LEMMA AfterReloadKeeps ==
  ASSUME OrderInv, NEW t \in Threads, Goto(t, AfterReload(op[t].f)), ReadOnly,
         UNCHANGED <<item, av, pd, jn, dr, op>>, pc[t] \in {"get_load", "get_done"},
         stamp[item[t]] >= op[t].since
  PROVE  OrderInv'
<1> DEFINE l == AfterReload(op[t].f)
<1>1. Knows(pc[t], item[t], av[t], pd[t], jn[t], op[t]) /\ LineKept /\ CountsOK'
  BY RegistersTyped, ReadOnlyKept DEF OrderInv, TypeOK
<1>2. l \in {"reading", "ret", "tgm_weak"}
  BY DEF AfterReload
<1>3. Goto(t, l)
  OBVIOUS
<1> HIDE DEF l
<1>4. Knows(l, item[t], av[t], pd[t], jn[t], op[t])
  BY <1>1, <1>2 DEF Knows, Frames, OnChain, NewNode, JanitorOrdered, UpToDate,
     HandleKept, Linking, Linked
<1> QED BY <1>1, <1>2, <1>3, <1>4, JumpKeeps DEF Linking, Labels

(* A node with nothing to its right is the newest.                         *)
LEMMA EndIsUpToDate ==
  ASSUME OrderInv, NEW t \in Threads, NEW n \in Nodes, Published(n), ~HasNext(n)
  PROVE  stamp[n] >= op[t].since
<1>1. /\ Knows(pc[t], item[t], av[t], pd[t], jn[t], op[t]) /\ op[t].since \in Nat
      /\ count \in Nat /\ stamp[n] = count
  BY RegistersTyped DEF OrderInv, TypeOK, CallFrames, ChainOrdered
<1> QED BY <1>1 DEF Knows, UpToDate

(* What a call leaves in the handle it has.                                *)
LEMMA ResultKept ==
  ASSUME OrderInv, NEW t \in Threads, pc[t] = "ret"
  PROVE  \/ Result(t) = handle
         \/ /\ op[t].f \in Storing
            /\ \E w \in HandleStates : /\ Published(w.node)
                                      /\ Result(t) = [handle EXCEPT ![ResultHandle(op[t])] = w]
<1> DEFINE f == op[t].f
           g == ResultHandle(op[t])
           s == [kind |-> "strong", node |-> item[t]]
<1>1. Published(item[t]) /\ item[t] \in Nodes /\ Published(IdleNode) /\ op[t] \in CallFrames
  BY RegistersTyped DEF OrderInv, Knows, OnChain
<1>2. s \in HandleStates /\ Published(s.node) /\ NoHandle \in HandleStates /\ Published(NoHandle.node)
  BY <1>1, IdleFramesTyped DEF HandleStates, NoHandle
<1>3. f \in Functions \cup {"none"}
  BY <1>1 DEF CallFrames
<1>4. CASE f \in {"clone", "upgrade"}
  <2>1. g = op[t].out /\ f \in Storing
    BY <1>4 DEF ResultHandle, Storing, Functions
  <2>2. Result(t) = [handle EXCEPT ![op[t].out] = IF op[t].ok THEN s ELSE NoHandle]
    BY <1>4 DEF Result
  <2>3. CASE op[t].ok
    <3>1. Result(t) = [handle EXCEPT ![g] = s]
      BY <2>1, <2>2, <2>3
    <3> QED BY <1>2, <2>1, <3>1
  <2>4. CASE ~op[t].ok
    <3>1. Result(t) = [handle EXCEPT ![g] = NoHandle]
      BY <2>1, <2>2, <2>4
    <3> QED BY <1>2, <2>1, <3>1
  <2> QED BY <2>3, <2>4
<1>5. CASE f \in {"get", "reload", "tryGetMut", "update", "rcu"}
  <2>1. g = op[t].hnd /\ f \in Storing
    BY <1>5 DEF ResultHandle, Storing, Functions
  <2>2. Result(t) = [handle EXCEPT ![g] = s]
    BY <1>5, <2>1 DEF Result
  <2> QED BY <1>2, <2>1, <2>2
<1>6. CASE f \in {"drop", "dropWeak", "intoInner"}
  <2>1. g = op[t].hnd /\ f \in Storing
    BY <1>6 DEF ResultHandle, Storing, Functions
  <2>2. Result(t) = [handle EXCEPT ![g] = NoHandle]
    BY <1>6, <2>1 DEF Result
  <2> QED BY <1>2, <2>1, <2>2
<1>7. CASE f \notin {"clone", "upgrade", "get", "reload", "tryGetMut", "update", "rcu", "drop",
                    "dropWeak", "intoInner"}
  BY <1>7 DEF Result
<1> QED BY <1>4, <1>5, <1>6, <1>7

(* A call that returns leaves a node of the chain in the handle it took or reserved. *)
LEMMA ReturnCallKeeps ==
  ASSUME OrderInv, NEW t \in Threads, Return(t) PROVE OrderInv'
<1>a. SUFFICES ASSUME NEW a, a = av[t], NEW p, p = pd[t] PROVE OrderInv'
  OBVIOUS
<1>1. /\ TypeOK /\ pc[t] = "ret" /\ handle' = Result(t) /\ pc' = [pc EXCEPT ![t] = "idle"]
      /\ item' = [item EXCEPT ![t] = IdleNode] /\ jn' = [jn EXCEPT ![t] = IdleJanitor]
      /\ op' = [op EXCEPT ![t] = IdleOp]
      /\ UNCHANGED <<next, prev, strong, weak, adv, mem, drops, left, stamp, count, av, pd, dr>>
  BY DEF Return, OrderInv, Goto, heap
<1>2. Knows(pc[t], item[t], av[t], pd[t], jn[t], op[t])
  BY RegistersTyped
<1>3. \/ handle' = handle
      \/ /\ op[t].f \in Storing
         /\ \E w \in HandleStates : /\ Published(w.node)
                                   /\ handle' = [handle EXCEPT ![ResultHandle(op[t])] = w]
  BY <1>1, ResultKept
<1>4. ResultHandle(op[t]) \in Handles
  BY RegistersTyped DEF ResultHandle, CallFrames
<1>5. handle' \in [Handles -> HandleStates] /\ \A x \in Handles : Published(handle'[x].node)
  <2>1. handle \in [Handles -> HandleStates] /\ \A x \in Handles : Published(handle[x].node)
    BY DEF OrderInv, TypeOK
  <2> QED BY <1>3, <1>4, <2>1
<1>6. \A x \in Handles : Published(handle[x].node)'
  BY <1>1, <1>5 DEF Published
<1>7. LineGrows /\ ChainOrdered' /\ CountsOK' /\ HeapTyped'
  <2>1. LineGrows /\ ChainOrdered'
    BY <1>1 DEF LineGrows, HasNext, TypeOK, OrderInv, ChainOrdered, Published
  <2>2. CountsOK' /\ HeapTyped'
    BY <1>1, <1>5 DEF CountsOK, HeapTyped, TypeOK
  <2> QED BY <2>1, <2>2
<1>8. MoveTo(t, "idle", IdleNode, a, p, IdleJanitor, IdleOp)
  BY <1>1, <1>a, IdleFramesTyped DEF MoveTo, TypeOK, Labels
<1>9. a.ret = "idle" /\ p.ret = "idle" /\ Published(a.start) /\ Published(a.nxt)
  BY <1>1, <1>2, <1>a DEF Knows, Frames, OnChain
<1>10. Knows("idle", IdleNode, a, p, IdleJanitor, IdleOp)
  <2>1. Published(IdleNode) /\ count \in Nat
    BY <1>1 DEF OrderInv, TypeOK
  <2> QED BY <1>9, <2>1, IdleFramesTyped DEF Knows, Frames, OnChain, NewNode, JanitorOrdered, UpToDate,
       HandleKept, Linking, Linked
<1>11. Knows("idle", IdleNode, a, p, IdleJanitor, IdleOp)'
  <2>1. Spared("idle", a, IdleOp)
    BY <1>9 DEF Spared, Linking
  <2>2. a \in AdvanceFrames /\ IdleNode \in Nodes /\ IdleJanitor \in JanitorFrames /\ IdleOp \in CallFrames
    BY <1>a, RegistersTyped, IdleFramesTyped
  <2> QED BY <1>7, <1>10, <2>1, <2>2, KnowsStays DEF OrderInv
<1>12. ASSUME NEW u \in Threads \ {t} PROVE Spared(pc[u], av[u], op[u])
  <2>1. Local(u) /\ op[u].hnd \in Handles /\ op[u].out \in Handles /\ Apart(t, u) /\ Local(t)
    BY DEF OrderInv, TypeOK, CallFrames
  <2>2. ResultHandle(op[u]) \in Handles
    BY <2>1 DEF ResultHandle
  <2>3. CASE handle' = handle
    BY <1>1, <2>1, <2>3 DEF Spared, Local, Knows, HandleKept
  <2>4. CASE handle' # handle
    <3>1. PICK w \in HandleStates :
            op[t].f \in Storing /\ handle' = [handle EXCEPT ![ResultHandle(op[t])] = w]
      BY <1>3, <2>4
    <3>2. handle[ResultHandle(op[t])].kind = "busy"
      BY <1>1, <2>1, <3>1 DEF Local, Knows, HandleKept
    <3>3. pc[u] # "idle" /\ op[u].f \in Storing => handle'[ResultHandle(op[u])].kind = "busy"
      <4>1. pc[u] # "idle" /\ op[u].f \in Storing
              => /\ ResultHandle(op[u]) # ResultHandle(op[t])
                 /\ handle[ResultHandle(op[u])].kind = "busy"
        BY <1>1, <2>1, <3>1 DEF Apart, Local, Knows, HandleKept
      <4> QED BY <1>1, <2>2, <3>1, <4>1 DEF TypeOK
    <3>4. pc[u] # "idle" /\ op[u].f = "sharedGet" => handle'[op[u].hnd] = handle[op[u].hnd]
      <4>1. pc[u] # "idle" /\ op[u].f = "sharedGet" => handle[op[u].hnd].kind = "strong"
        BY <2>1 DEF Local, Knows, HandleKept
      <4> QED BY <1>1, <2>1, <3>1, <3>2, <4>1 DEF TypeOK
    <3> QED BY <1>1, <3>3, <3>4 DEF Spared
  <2> QED BY <2>3, <2>4
<1>13. IdleOp.val = Null
  BY IdleFramesTyped
<1> QED BY <1>6, <1>7, <1>8, <1>11, <1>12, <1>13, GrowKeeps

(* Every step of the public functions.                                     *)
LEMMA ApiKeeps ==
  ASSUME OrderInv, NEW t \in Threads, ApiStep(t) PROVE OrderInv'
<1>0. /\ TypeOK /\ item[t] \in Nodes /\ Published(item[t])
      /\ op[t] \in CallFrames /\ jn[t] \in JanitorFrames
      /\ Knows(pc[t], item[t], av[t], pd[t], jn[t], op[t]) /\ dr \in [Threads -> DropFrames]
      /\ jn = [jn EXCEPT ![t] = jn[t]] /\ op = [op EXCEPT ![t] = op[t]]
  BY RegistersTyped DEF OrderInv, Knows, OnChain, TypeOK
<1>a. op[t].nxt \in Nodes /\ Published(op[t].nxt) /\ Base(t) \in Nodes /\ Published(Base(t))
  BY <1>0, HandleNode DEF CallFrames, Knows, OnChain, Base
<1>1. CASE GetLoad(t)
  <2>1. pc[t] = "get_load" /\ ReadOnly /\ UNCHANGED <<pd, dr, op>>
    BY <1>1 DEF GetLoad
  <2>2. CASE NeedsReload(op[t].f, item[t])
    <3> DEFINE j == [jn[t] EXCEPT !.ret = "get_done"]
    <3>1. ReloadAgain(t) /\ jn' = [jn EXCEPT ![t] = j]
      BY <1>1, <2>2 DEF GetLoad
    <3>2. j \in JanitorFrames
      BY <1>0 DEF JanitorFrames
    <3> HIDE DEF j
    <3> QED BY <2>1, <3>1, <3>2, ReloadKeeps
  <2>3. CASE ~NeedsReload(op[t].f, item[t])
    <3>1. Goto(t, AfterReload(op[t].f)) /\ UNCHANGED <<item, av, jn>>
      BY <1>1, <2>3 DEF GetLoad
    <3>2. ~HasNext(item[t])
      BY <2>3 DEF NeedsReload, HasNext, NullNext
    <3>3. stamp[item[t]] >= op[t].since
      BY <1>0, <3>2, EndIsUpToDate
    <3> QED BY <2>1, <3>1, <3>3, AfterReloadKeeps
  <2> QED BY <2>2, <2>3
<1>2. CASE GetDone(t)
  <2>1. pc[t] = "get_done" /\ ReadOnly /\ UNCHANGED <<pd, jn, dr, op>>
    BY <1>2 DEF GetDone
  <2>2. CASE jn[t].rerun
    BY <1>0, <1>2, <2>1, <2>2, ReloadKeeps DEF GetDone
  <2>3. CASE ~jn[t].rerun
    <3>1. stamp[item[t]] >= op[t].since
      BY <1>0, <2>1 DEF Knows, UpToDate
    <3> QED BY <1>2, <2>1, <2>3, <3>1, AfterReloadKeeps DEF GetDone
  <2> QED BY <2>2, <2>3
<1>3. CASE TryGetMutWeak(t)
  <2> DEFINE l == IF SoleUser(weak[item[t]]) THEN "tgm_strong" ELSE "ret"
  <2>1. pc[t] = "tgm_weak" /\ Goto(t, l) /\ UNCHANGED <<item, av, pd, jn, op>> /\ LineKept /\ CountsOK'
    BY <1>0, <1>a, <1>3, ReadOnlyKept DEF TryGetMutWeak, locals
  <2>2. l \in {"tgm_strong", "ret"}
    OBVIOUS
  <2> HIDE DEF l
  <2>3. Knows(l, item[t], av[t], pd[t], jn[t], op[t])
    BY <1>0, <2>1, <2>2 DEF Knows, Frames, OnChain, NewNode, JanitorOrdered, UpToDate,
       HandleKept, Linking, Linked
  <2> QED BY <2>1, <2>2, <2>3, JumpKeeps DEF Linking, Labels
<1>4. CASE TryGetMutStrong(t)
  <2> DEFINE l == IF strong[item[t]] = 1 THEN "tgm_again" ELSE "ret"
  <2>1. pc[t] = "tgm_strong" /\ Goto(t, l) /\ UNCHANGED <<item, av, pd, jn, op>> /\ LineKept /\ CountsOK'
    BY <1>0, <1>a, <1>4, ReadOnlyKept DEF TryGetMutStrong, locals
  <2>2. l \in {"tgm_again", "ret"}
    OBVIOUS
  <2> HIDE DEF l
  <2>3. Knows(l, item[t], av[t], pd[t], jn[t], op[t])
    BY <1>0, <2>1, <2>2 DEF Knows, Frames, OnChain, NewNode, JanitorOrdered, UpToDate,
       HandleKept, Linking, Linked
  <2> QED BY <2>1, <2>2, <2>3, JumpKeeps DEF Linking, Labels
<1>5. CASE TryGetMutAgain(t)
  <2> DEFINE l == IF weak[item[t]].count = 1 THEN "mutref" ELSE "ret"
  <2>1. pc[t] = "tgm_again" /\ Goto(t, l) /\ UNCHANGED <<item, av, pd, jn, op>> /\ LineKept /\ CountsOK'
    BY <1>0, <1>a, <1>5, ReadOnlyKept DEF TryGetMutAgain, locals
  <2>2. l \in {"mutref", "ret"}
    OBVIOUS
  <2> HIDE DEF l
  <2>3. Knows(l, item[t], av[t], pd[t], jn[t], op[t])
    BY <1>0, <2>1, <2>2 DEF Knows, Frames, OnChain, NewNode, JanitorOrdered, UpToDate,
       HandleKept, Linking, Linked
  <2> QED BY <2>1, <2>2, <2>3, JumpKeeps DEF Linking, Labels
<1>6. CASE SharedGetLoad(t) /\ ~HasNext(Base(t))
  <2> DEFINE o == [op[t] EXCEPT !.guard = "raw"]
             l == "reading"
  <2>1. /\ pc[t] = "sg_load" /\ pc' = [pc EXCEPT ![t] = l] /\ op' = [op EXCEPT ![t] = o]
        /\ item' = [item EXCEPT ![t] = Base(t)] /\ UNCHANGED <<av, pd, jn>>
    BY <1>0, <1>6 DEF SharedGetLoad, Goto, TypeOK, locals
  <2>2. LineKept /\ CountsOK'
    BY <1>0, <1>a, <1>6, ReadOnlyKept DEF SharedGetLoad, locals
  <2>3. l \in {"reading"}
    BY <1>0, <1>a
  <2>4. /\ o \in CallFrames /\ o.val = op[t].val /\ o.f = op[t].f /\ o.hnd = op[t].hnd
        /\ o.out = op[t].out /\ o.since = op[t].since /\ o.nxt = op[t].nxt
    BY <1>0, <1>a, <2>3 DEF CallFrames
  <2> HIDE DEF o, l
  <2>5. MoveTo(t, l, Base(t), av[t], pd[t], jn[t], o)
    BY <1>0, <1>a, <2>1, <2>3, <2>4 DEF MoveTo, TypeOK, Labels
  <2>6. SameCall(t, l, av[t], o)
    BY <2>1, <2>3, <2>4 DEF SameCall, Linking
  <2>7. Knows(l, Base(t), av[t], pd[t], jn[t], o)
    BY <1>0, <1>a, <2>1, <2>3, <2>4, <1>6, EndIsUpToDate DEF Knows, Frames, OnChain, NewNode, JanitorOrdered, UpToDate,
       HandleKept, Linking, Linked, ResultHandle, Base
  <2> QED BY <2>2, <2>5, <2>6, <2>7, MoveKeeps
<1>7. CASE SharedGetLoad(t) /\ HasNext(Base(t))
  <2>1. pc[t] = "sg_load" /\ Goto(t, "sg_inc") /\ UNCHANGED <<item, av, pd, jn, op>> /\ LineKept /\ CountsOK'
    BY <1>0, <1>7, ReadOnlyKept DEF SharedGetLoad
  <2>2. Knows("sg_inc", item[t], av[t], pd[t], jn[t], op[t])
    BY <1>0, <1>7, <2>1 DEF Knows, Frames, OnChain, NewNode, JanitorOrdered, UpToDate,
       HandleKept, Linking, Linked, Base
  <2> QED BY <2>1, <2>2, JumpKeeps DEF Linking, Labels
<1>8. CASE SharedGetInc(t)
  <2>1. pc[t] = "sg_inc" /\ Goto(t, "sg_next") /\ UNCHANGED <<item, av, pd, jn, op>>
    BY <1>8 DEF SharedGetInc, locals
  <2>2. LineKept /\ CountsOK'
    BY <1>0, <1>a, <1>8, OnlyAdvKept DEF SharedGetInc, locals, TypeOK
  <2>3. Knows("sg_next", item[t], av[t], pd[t], jn[t], op[t])
    BY <1>0, <1>a, <2>1 DEF Knows, Frames, OnChain, NewNode, JanitorOrdered, UpToDate,
       HandleKept, Linking, Linked
  <2> QED BY <2>1, <2>2, <2>3, JumpKeeps DEF Linking, Labels
<1>9. CASE SharedGetNext(t)
  <2> DEFINE m == next[Base(t)].ptr
             o == [op[t] EXCEPT !.nxt = m]
  <2>1. /\ pc[t] = "sg_next" /\ Goto(t, "sg_strong") /\ op' = [op EXCEPT ![t] = o]
        /\ UNCHANGED <<item, av, pd, jn>> /\ LineKept /\ CountsOK'
    BY <1>0, <1>9, ReadOnlyKept DEF SharedGetNext
  <2>2. HasNext(Base(t))
    BY <1>0, <2>1 DEF Knows, HandleKept, Base
  <2>3. m \in Nodes /\ Published(m)
    <3>1. m # Null /\ m \in Ptrs
      BY <1>0, <1>a, <2>2 DEF HasNext, TypeOK, NextWords
    <3>2. stamp[Base(t)] > 0 /\ stamp[m] > stamp[Base(t)] /\ stamp \in [Nodes -> Nat]
      BY <1>0, <1>a, <2>2 DEF OrderInv, ChainOrdered, TypeOK
    <3> QED BY <1>a, <3>1, <3>2 DEF Published, Ptrs
  <2> HIDE DEF m
  <2>4. /\ o \in CallFrames /\ o.val = op[t].val /\ o.f = op[t].f /\ o.hnd = op[t].hnd
        /\ o.out = op[t].out /\ o.since = op[t].since /\ o.nxt = m
    BY <1>0, <2>3 DEF CallFrames
  <2> HIDE DEF o
  <2>5. MoveTo(t, "sg_strong", item[t], av[t], pd[t], jn[t], o)
    BY <1>0, <2>1, <2>4 DEF MoveTo, Goto, TypeOK, Labels
  <2>6. SameCall(t, "sg_strong", av[t], o)
    BY <2>1, <2>4 DEF SameCall, Linking
  <2>7. Knows("sg_strong", item[t], av[t], pd[t], jn[t], o)
    BY <1>0, <2>1, <2>3, <2>4 DEF Knows, Frames, OnChain, NewNode, JanitorOrdered, UpToDate,
       HandleKept, Linking, Linked, ResultHandle
  <2> QED BY <2>1, <2>5, <2>6, <2>7, MoveKeeps
<1>10. CASE SharedGetStrong(t)
  <2> DEFINE o == [op[t] EXCEPT !.cs = strong[op[t].nxt]]
             l == IF strong[op[t].nxt] = 0 THEN "sg_dec" ELSE "sg_cas"
  <2>1. /\ pc[t] = "sg_strong" /\ pc' = [pc EXCEPT ![t] = l] /\ op' = [op EXCEPT ![t] = o]
        /\ item' = [item EXCEPT ![t] = item[t]] /\ UNCHANGED <<av, pd, jn>>
    BY <1>0, <1>10 DEF SharedGetStrong, Goto, TypeOK, locals
  <2>2. LineKept /\ CountsOK'
    BY <1>0, <1>a, <1>10, ReadOnlyKept DEF SharedGetStrong, locals
  <2>3. l \in {"sg_dec", "sg_cas"} /\ strong[op[t].nxt] \in 0..UsizeMax
    BY <1>0, <1>a DEF TypeOK
  <2>4. /\ o \in CallFrames /\ o.val = op[t].val /\ o.f = op[t].f /\ o.hnd = op[t].hnd
        /\ o.out = op[t].out /\ o.since = op[t].since /\ o.nxt = op[t].nxt
    BY <1>0, <1>a, <2>3 DEF CallFrames
  <2> HIDE DEF o, l
  <2>5. MoveTo(t, l, item[t], av[t], pd[t], jn[t], o)
    BY <1>0, <1>a, <2>1, <2>3, <2>4 DEF MoveTo, TypeOK, Labels
  <2>6. SameCall(t, l, av[t], o)
    BY <2>1, <2>3, <2>4 DEF SameCall, Linking
  <2>7. Knows(l, item[t], av[t], pd[t], jn[t], o)
    BY <1>0, <1>a, <2>1, <2>3, <2>4 DEF Knows, Frames, OnChain, NewNode, JanitorOrdered, UpToDate,
       HandleKept, Linking, Linked, ResultHandle, Base
  <2> QED BY <2>2, <2>5, <2>6, <2>7, MoveKeeps
<1>11. CASE SharedGetCas(t)
  <2> DEFINE l == IF strong[op[t].nxt] = op[t].cs THEN "sg_recheck" ELSE "sg_dec"
  <2>1. pc[t] = "sg_cas" /\ Goto(t, l) /\ UNCHANGED <<item, av, pd, jn, op>> /\ LineKept /\ CountsOK'
    <3>1. pc[t] = "sg_cas" /\ Goto(t, l) /\ UNCHANGED <<item, av, pd, jn, dr, op>> /\ OnlyStrong
      BY <1>11 DEF SharedGetCas, locals
    <3>2. strong' \in [Nodes -> 0..UsizeMax]
      BY <1>0, <1>a, <1>11, StrongTyped DEF SharedGetCas, TypeOK
    <3> QED BY <1>0, <3>1, <3>2, OnlyStrongKept
  <2>2. l \in {"sg_recheck", "sg_dec"}
    OBVIOUS
  <2> HIDE DEF l
  <2>3. Knows(l, item[t], av[t], pd[t], jn[t], op[t])
    BY <1>0, <2>1, <2>2 DEF Knows, Frames, OnChain, NewNode, JanitorOrdered, UpToDate,
       HandleKept, Linking, Linked
  <2> QED BY <2>1, <2>2, <2>3, JumpKeeps DEF Linking, Labels
<1>12. CASE SharedGetRecheck(t) /\ HasNext(op[t].nxt)
  <2>1. /\ pc[t] = "sg_recheck" /\ ReadOnly /\ UNCHANGED <<pd, jn, op>>
        /\ StartAdvance(t, op[t].nxt, "strong", "ds_dec")
        /\ dr' = [dr EXCEPT ![t] = [IdleDrop EXCEPT !.ret = "sg_dec"]]
    BY <1>12 DEF SharedGetRecheck, StartDropStrong
  <2>2. [IdleDrop EXCEPT !.ret = "sg_dec"] \in DropFrames
    BY IdleFramesTyped DEF DropFrames
  <2>3. LineKept /\ CountsOK'
    BY <1>0, <2>1, <2>2, ReadOnlyKept
  <2>4. jn' = [jn EXCEPT ![t] = jn[t]] /\ op' = [op EXCEPT ![t] = op[t]]
    BY <1>0, <2>1
  <2> QED BY <1>0, <1>a, <2>1, <2>3, <2>4, StartKeeps
<1>13. CASE SharedGetRecheck(t) /\ ~HasNext(op[t].nxt)
  <2>1. pc[t] = "sg_recheck" /\ Goto(t, "sg_light") /\ UNCHANGED <<item, av, pd, jn, op>>
    BY <1>13 DEF SharedGetRecheck, locals
  <2>2. LineKept /\ CountsOK'
    BY <1>0, <1>a, <1>13, ReadOnlyKept DEF SharedGetRecheck, locals
  <2>3. Knows("sg_light", item[t], av[t], pd[t], jn[t], op[t])
    BY <1>0, <1>a, <2>1, <1>13, EndIsUpToDate DEF Knows, Frames, OnChain, NewNode, JanitorOrdered, UpToDate,
       HandleKept, Linking, Linked
  <2> QED BY <2>1, <2>2, <2>3, JumpKeeps DEF Linking, Labels
<1>14. CASE SharedGetLight(t)
  <2> DEFINE o == [op[t] EXCEPT !.guard = "light"]
             l == "reading"
  <2>1. /\ pc[t] = "sg_light" /\ pc' = [pc EXCEPT ![t] = l] /\ op' = [op EXCEPT ![t] = o]
        /\ item' = [item EXCEPT ![t] = op[t].nxt] /\ UNCHANGED <<av, pd, jn>>
    BY <1>0, <1>14 DEF SharedGetLight, Goto, TypeOK, locals
  <2>2. LineKept /\ CountsOK'
    BY <1>0, <1>a, <1>14, OnlyAdvKept DEF SharedGetLight, locals, TypeOK
  <2>3. l \in {"reading"}
    BY <1>0, <1>a
  <2>4. /\ o \in CallFrames /\ o.val = op[t].val /\ o.f = op[t].f /\ o.hnd = op[t].hnd
        /\ o.out = op[t].out /\ o.since = op[t].since /\ o.nxt = op[t].nxt
    BY <1>0, <1>a, <2>3 DEF CallFrames
  <2> HIDE DEF o, l
  <2>5. MoveTo(t, l, op[t].nxt, av[t], pd[t], jn[t], o)
    BY <1>0, <1>a, <2>1, <2>3, <2>4 DEF MoveTo, TypeOK, Labels
  <2>6. SameCall(t, l, av[t], o)
    BY <2>1, <2>3, <2>4 DEF SameCall, Linking
  <2>7. Knows(l, op[t].nxt, av[t], pd[t], jn[t], o)
    BY <1>0, <1>a, <2>1, <2>3, <2>4 DEF Knows, Frames, OnChain, NewNode, JanitorOrdered, UpToDate,
       HandleKept, Linking, Linked, ResultHandle, Base
  <2> QED BY <2>2, <2>5, <2>6, <2>7, MoveKeeps
<1>15. CASE SharedGetDec(t)
  <2>1. pc[t] = "sg_dec" /\ Goto(t, "sg_clone") /\ UNCHANGED <<item, av, pd, jn, op>>
    BY <1>15 DEF SharedGetDec, locals
  <2>2. LineKept /\ CountsOK'
    BY <1>0, <1>a, <1>15, OnlyAdvKept DEF SharedGetDec, locals, TypeOK
  <2>3. Knows("sg_clone", item[t], av[t], pd[t], jn[t], op[t])
    BY <1>0, <1>a, <2>1 DEF Knows, Frames, OnChain, NewNode, JanitorOrdered, UpToDate,
       HandleKept, Linking, Linked
  <2> QED BY <2>1, <2>2, <2>3, JumpKeeps DEF Linking, Labels
<1>16. CASE SharedGetClone(t)
  <2> DEFINE o == [op[t] EXCEPT !.guard = "full"]
  <2>1. /\ pc[t] = "sg_clone" /\ StartAdvance(t, Base(t), "strong", "reading")
        /\ op' = [op EXCEPT ![t] = o] /\ UNCHANGED <<pd, jn, dr>>
    BY <1>16 DEF SharedGetClone
  <2>2. LineKept /\ CountsOK'
    BY <1>0, <1>a, <1>16, OnlyStrongKept, StrongTyped DEF SharedGetClone
  <2>3. /\ o \in CallFrames /\ o.val = op[t].val /\ o.f = op[t].f /\ o.hnd = op[t].hnd
        /\ o.out = op[t].out /\ o.since = op[t].since /\ o.nxt = op[t].nxt
    BY <1>0 DEF CallFrames
  <2> HIDE DEF o
  <2>4. jn' = [jn EXCEPT ![t] = jn[t]]
    BY <1>0, <2>1
  <2> QED BY <1>0, <1>a, <2>1, <2>2, <2>3, <2>4, StartKeeps
<1>17. CASE FinishReading(t) /\ op[t].guard \in {"light", "full"}
  <2>1. /\ pc[t] \in {"reading", "mutref"} /\ ReadOnly /\ UNCHANGED <<pd, jn, op>>
        /\ StartAdvance(t, item[t], "strong", "ds_dec")
        /\ dr' = [dr EXCEPT ![t] = [IdleDrop EXCEPT !.ret = "ret"]]
    BY <1>17 DEF FinishReading, StartDropStrong
  <2>2. [IdleDrop EXCEPT !.ret = "ret"] \in DropFrames
    BY IdleFramesTyped DEF DropFrames
  <2>3. LineKept /\ CountsOK'
    BY <1>0, <2>1, <2>2, ReadOnlyKept
  <2>4. jn' = [jn EXCEPT ![t] = jn[t]] /\ op' = [op EXCEPT ![t] = op[t]]
    BY <1>0, <2>1
  <2> QED BY <1>0, <2>1, <2>3, <2>4, StartKeeps
<1>18. CASE FinishReading(t) /\ op[t].guard \notin {"light", "full"}
  <2>1. pc[t] \in {"reading", "mutref"} /\ Goto(t, "ret") /\ UNCHANGED <<item, av, pd, jn, op>>
    BY <1>18 DEF FinishReading
  <2>2. LineKept /\ CountsOK'
    BY <1>0, <1>18, ReadOnlyKept DEF FinishReading
  <2>3. Knows("ret", item[t], av[t], pd[t], jn[t], op[t])
    BY <1>0, <2>1 DEF Knows, Frames, OnChain, NewNode, JanitorOrdered, UpToDate,
       HandleKept, Linking, Linked
  <2> QED BY <2>1, <2>2, <2>3, JumpKeeps DEF Linking, Labels
<1>19. CASE Return(t)
  BY <1>19, ReturnCallKeeps
<1> QED
  BY <1>1, <1>2, <1>3, <1>4, <1>5, <1>6, <1>7, <1>8, <1>9, <1>10, <1>11, <1>12, <1>13, <1>14, <1>15,
     <1>16, <1>17, <1>18, <1>19 DEF ApiStep

-----------------------------------------------------------------------------
(* The theorems. OrderInv holds initially and is kept by every step; it    *)
(* contains the types of all variables, and the freshness of what is read  *)
(* and the order of the updates follow from it.                            *)

(* The counts of the initial chain are small.                              *)
LEMMA InitRefsTyped ==
  ASSUME NEW kind, NEW n PROVE InitRefs(kind, n) \in Nat /\ InitRefs(kind, n) < UsizeMax
<1> DEFINE S == {h \in Handles : InitHandle[h] = [kind |-> kind, node |-> n]}
<1>1. IsFiniteSet(Handles) /\ S \subseteq Handles
  BY HeapAssumption
<1>2. IsFiniteSet(S) /\ Cardinality(S) <= Cardinality(Handles)
  BY <1>1, FS_Subset
<1>3. Cardinality(S) \in Nat /\ Cardinality(Handles) \in Nat /\ Cardinality(Threads) \in Nat
  BY <1>1, <1>2, HeapAssumption, FS_CardinalityType
<1>4. Cardinality(Handles) < UsizeMax
  BY <1>3, HeapAssumption
<1>5. InitRefs(kind, n) = Cardinality(S)
  BY DEF InitRefs
<1> HIDE DEF S
<1> QED BY <1>2, <1>3, <1>4, <1>5, HeapAssumption

(* The program starts well typed.                                          *)
LEMMA InitTyped ==
  ASSUME Init PROVE TypeOK
<1>1. /\ MaxNodes \in Nat \ {0} /\ UsizeMax \in Nat /\ InitLen \in Nodes
      /\ InitHandle \in [Handles -> HandleStates] /\ Budget \in [Threads -> Nat]
  BY HeapAssumption, ProgramAssumption
<1>2. next \in [Nodes -> NextWords] /\ prev \in [Nodes -> Ptrs]
  <2>1. ASSUME NEW n \in Nodes
        PROVE  /\ (IF n < InitLen THEN n + 1 ELSE Null) \in Ptrs
               /\ (IF n <= InitLen THEN n - 1 ELSE Null) \in Ptrs
    BY <1>1 DEF Nodes, Ptrs, Null
  <2>2. ASSUME NEW p \in Ptrs PROVE [NullNext EXCEPT !.ptr = p] \in NextWords
    BY DEF NullNext, NextWords
  <2> QED BY <2>1, <2>2 DEF Init
<1>3. strong \in [Nodes -> 0..UsizeMax]
  BY <1>1, InitRefsTyped DEF Init
<1>4. weak \in [Nodes -> WeakWords]
  <2>1. ASSUME NEW n \in Nodes
        PROVE  [count |-> InitRefs("weak", n) + IF n < InitLen THEN 2 ELSE 1,
                haveNext |-> n < InitLen, havePrev |-> n > 1] \in WeakWords
    <3>1. (InitRefs("weak", n) + IF n < InitLen THEN 2 ELSE 1) \in Int
      BY InitRefsTyped
    <3>2. (n < InitLen) \in BOOLEAN /\ (n > 1) \in BOOLEAN
      OBVIOUS
    <3> QED BY <3>1, <3>2 DEF WeakWords
  <2>2. NoWeak \in WeakWords
    BY DEF NoWeak, WeakWords
  <2> QED BY <2>1, <2>2 DEF Init
<1>5. /\ adv \in [Nodes -> Int] /\ mem \in [Nodes -> {"unused", "private", "live", "freed"}]
      /\ drops \in [Nodes -> Nat] /\ handle \in [Handles -> HandleStates]
      /\ left \in [Threads -> Nat] /\ stamp \in [Nodes -> Nat] /\ count \in Nat
  BY <1>1 DEF Init, Nodes
<1>6. /\ pc \in [Threads -> Labels] /\ item \in [Threads -> Nodes]
      /\ av \in [Threads -> AdvanceFrames] /\ pd \in [Threads -> PayloadFrames]
      /\ jn \in [Threads -> JanitorFrames] /\ dr \in [Threads -> DropFrames]
      /\ op \in [Threads -> CallFrames]
  BY IdleFramesTyped DEF Init, Labels
<1> QED BY <1>2, <1>3, <1>4, <1>5, <1>6 DEF TypeOK

(* The chain the program starts on is in order, and no call is in progress. *)
LEMMA InitOrdered ==
  ASSUME Init PROVE OrderInv
<1>1. TypeOK
  BY InitTyped
<1>2. MaxNodes \in Nat \ {0} /\ InitLen \in 1..MaxNodes /\ InitLen \in Nat
  BY HeapAssumption, ProgramAssumption DEF Nodes
<1>3. ChainOrdered
  <2>1. \A n \in Nodes : /\ n \in Nat /\ n >= 1
                         /\ stamp[n] = IF n <= InitLen THEN n ELSE 0
                         /\ prev[n] = IF n <= InitLen THEN n - 1 ELSE 0
                         /\ mem[n] = IF n <= InitLen THEN "live" ELSE "unused"
    BY <1>2 DEF Init, Nodes, Null
  <2>2. \A n \in Nodes : next[n].ptr = IF n < InitLen THEN n + 1 ELSE 0
    BY DEF Init, NullNext, Null
  <2>3. count = InitLen
    BY DEF Init
  <2>4. \A n \in Nodes : stamp[n] <= count
    BY <1>2, <2>1, <2>3
  <2>5. \A m, n \in Nodes : Published(m) /\ stamp[m] = stamp[n] => m = n
    BY <1>2, <2>1 DEF Published
  <2>6. \A n \in Nodes : HasNext(n) => stamp[n] > 0 /\ stamp[next[n].ptr] > stamp[n]
    <3>1. ASSUME NEW n \in Nodes, HasNext(n) PROVE stamp[n] > 0 /\ stamp[next[n].ptr] > stamp[n]
      <4>1. n < InitLen /\ next[n].ptr = n + 1 /\ n + 1 \in Nodes
        BY <1>2, <2>1, <2>2, <3>1 DEF HasNext, Null, Nodes
      <4> QED BY <1>2, <2>1, <4>1
    <3> QED BY <3>1
  <2>7. \A n \in Nodes : Published(n) /\ ~HasNext(n) => stamp[n] = count
    BY <1>2, <2>1, <2>2, <2>3 DEF Published, HasNext, Null
  <2>8. \A n \in Nodes : Published(n) /\ prev[n] # Null => Published(prev[n]) /\ stamp[prev[n]] < stamp[n]
    <3>1. ASSUME NEW n \in Nodes, Published(n), prev[n] # Null
          PROVE  Published(prev[n]) /\ stamp[prev[n]] < stamp[n]
      <4>1. n <= InitLen /\ prev[n] = n - 1 /\ n - 1 \in Nodes
        BY <1>2, <2>1, <3>1 DEF Published, Null, Nodes
      <4> QED BY <1>2, <2>1, <4>1 DEF Published
    <3> QED BY <3>1
  <2>9. \A n \in Nodes : mem[n] \in {"unused", "private"} => ~Published(n)
    BY <2>1 DEF Published
  <2> QED BY <2>4, <2>5, <2>6, <2>7, <2>8, <2>9 DEF ChainOrdered
<1>4. Published(IdleNode)
  BY <1>2 DEF Init, Published, IdleNode, Nodes
<1>5. ASSUME NEW h \in Handles PROVE Published(handle[h].node)
  <2>1. handle[h].node <= InitLen /\ handle[h].node \in Nodes
    BY ProgramAssumption DEF Init, HandleStates
  <2> QED BY <1>2, <2>1 DEF Init, Published, Nodes
<1>6. ASSUME NEW t \in Threads PROVE Local(t)
  <2>1. /\ pc[t] = "idle" /\ item[t] = IdleNode /\ av[t] = IdleAdvance /\ pd[t] = IdlePayload
        /\ jn[t] = IdleJanitor /\ op[t] = IdleOp /\ count \in Nat
    BY <1>1 DEF Init, TypeOK
  <2>2. Knows("idle", IdleNode, IdleAdvance, IdlePayload, IdleJanitor, IdleOp)
    BY <1>4, <2>1, IdleFramesTyped DEF Knows, Frames, OnChain, NewNode, JanitorOrdered, UpToDate,
       HandleKept, Linking, Linked
  <2> QED BY <2>1, <2>2 DEF Local
<1>7. ASSUME NEW t \in Threads, NEW u \in Threads PROVE Apart(t, u)
  <2>1. pc[t] = "idle" /\ op[t] = IdleOp
    BY DEF Init
  <2> QED BY <2>1, IdleFramesTyped DEF Apart
<1> QED BY <1>1, <1>3, <1>4, <1>5, <1>6, <1>7 DEF OrderInv

(* A step of somebody else (a stutter) keeps the invariant.                *)
LEMMA StutterKeeps ==
  ASSUME OrderInv, UNCHANGED vars PROVE OrderInv'
<1>1. UNCHANGED <<next, prev, strong, weak, adv, mem, drops, handle, left, stamp, count,
                  pc, item, av, pd, jn, dr, op>>
  BY DEF vars, heap, client, locals
<1>2. TypeOK'
  BY <1>1 DEF OrderInv, TypeOK
<1>3. ChainOrdered' /\ Published(IdleNode)' /\ \A h \in Handles : Published(handle[h].node)'
  BY <1>1 DEF OrderInv, ChainOrdered, Published, HasNext
<1>4. ASSUME NEW t \in Threads PROVE Local(t)'
  <2>1. Local(t)
    BY DEF OrderInv
  <2> QED BY <1>1, <2>1 DEF Local, Knows, Frames, OnChain, NewNode, JanitorOrdered, Older, UpToDate,
       HandleKept, Published, HasNext
<1>5. ASSUME NEW t \in Threads, NEW u \in Threads, t # u PROVE Apart(t, u)'
  <2>1. Apart(t, u)
    BY <1>5 DEF OrderInv
  <2> QED BY <1>1, <2>1 DEF Apart
<1> QED BY <1>2, <1>3, <1>4, <1>5 DEF OrderInv

(* Every step of every call keeps the invariant.                           *)
LEMMA NextKeeps ==
  ASSUME OrderInv, [Next]_vars PROVE OrderInv'
<1>1. ASSUME NEW t \in Threads, Call(t) PROVE OrderInv'
  BY <1>1, CallKeeps
<1>2. ASSUME NEW t \in Threads, Step(t) PROVE OrderInv'
  BY <1>2, AdvanceKeeps, JanitorKeeps, DropKeeps, UpdateKeeps, UpgradeKeeps, ApiKeeps DEF Step
<1>3. CASE UNCHANGED vars
  BY <1>3, StutterKeeps
<1> QED BY <1>1, <1>2, <1>3 DEF Next, Rest

-----------------------------------------------------------------------------

(* The order of the chain, for every number of threads, handles and nodes: *)
(* next leads to younger nodes and prev to older ones whatever advances,   *)
(* updates and janitors do at the same time.                               *)
THEOREM ChainStaysOrdered == Spec => []OrderInv
<1>1. Init => OrderInv
  BY InitOrdered
<1>2. OrderInv /\ [Next]_vars => OrderInv'
  BY NextKeeps
<1> QED BY <1>1, <1>2, PTL DEF Spec

(* Every word of the heap and every local of a call stays in its type.     *)
THEOREM TypesHold == Spec => []TypeOK
<1>1. OrderInv => TypeOK
  BY DEF OrderInv
<1> QED BY <1>1, ChainStaysOrdered, PTL

(* What get, shared_get, rcu, try_get_mut, clone, upgrade and the updates  *)
(* hand out is at least as new as the newest value when the call began.    *)
THEOREM ReadsAreFresh == Spec => []FreshRead
<1>1. OrderInv => FreshRead
  <2>1. ASSUME OrderInv, NEW t \in Threads, HandsOut(t) PROVE stamp[item[t]] >= op[t].since
    <3>1. Knows(pc[t], item[t], av[t], pd[t], jn[t], op[t])
      BY <2>1, RegistersTyped
    <3>2. pc[t] \in {"reading", "mutref", "upd_next", "ret"}
      BY <2>1 DEF HandsOut, Looking
    <3> QED BY <3>1, <3>2 DEF Knows, UpToDate
  <2> QED BY <2>1 DEF FreshRead
<1> QED BY <1>1, ChainStaysOrdered, PTL

-----------------------------------------------------------------------------
(* Which steps link a node.                                                *)

(* A step of an advance moves nobody else, and none leaves upd_cas.         *)
LEMMA AdvanceMoves ==
  ASSUME TypeOK, NEW t \in Threads, AdvanceStep(t), NEW u \in Threads
  PROVE  (u # t => pc'[u] = pc[u]) /\ (pc[t] = "upd_cas" => FALSE)
  BY SMTT(60) DEF TypeOK, Goto, AdvanceStep, AdvanceLoad, AdvanceInc, AdvanceReload, AdvanceWeakInc, AdvanceDec,
     AdvanceWeakDec, WeakLeaveStart, PayloadMark, PayloadDrop, StrongLoad, StrongIncWeak,
     StrongCas, StrongRaceDecWeak, StrongRecheck, StrongUndo, StrongUndoDecWeak,
     StrongDecWeakB, StrongLeaveStart, StrongDecWeakA, ReturnAdvance, RetryAdvance,
     StartPayloadDrop, TryStrong

(* A step of the janitor moves nobody else, and none leaves upd_cas.        *)
LEMMA JanitorMoves ==
  ASSUME TypeOK, NEW t \in Threads, JanitorStep(t), NEW u \in Threads
  PROVE  (u # t => pc'[u] = pc[u]) /\ (pc[t] = "upd_cas" => FALSE)
  BY SMTT(60) DEF TypeOK, Goto, JanitorStep, JanitorLockStart, JanitorSweep, JanitorCleanup, JanitorUnlockStart,
     JanitorStrong, JanitorSetNext, JanitorCheckAdvance, JanitorFinal, JanitorDelete,
     JanitorFree, JanitorClearPrev, JanitorUnlink, JanitorCarry, JanitorUncarry, Janitor,
     ReturnJanitor

(* A step of a drop moves nobody else, and none leaves upd_cas.             *)
LEMMA DropMoves ==
  ASSUME TypeOK, NEW t \in Threads, DropStep(t), NEW u \in Threads
  PROVE  (u # t => pc'[u] = pc[u]) /\ (pc[t] = "upd_cas" => FALSE)
  BY SMTT(60) DEF TypeOK, Goto, DropStep, DropStrongDec, DropWeakLoad, DropWeakNext, ClaimTeardown, DropWeakCas,
     DropWeakFree, DropWeakRound, StartDropWeak, ReturnDrop, StartAdvance,
     StartPayloadDrop

(* A step of an update moves nobody else, and only UpdateCas leaves upd_cas.*)
LEMMA UpdateMoves ==
  ASSUME TypeOK, NEW t \in Threads, UpdateStep(t), NEW u \in Threads
  PROVE  (u # t => pc'[u] = pc[u]) /\ (pc[t] = "upd_cas" => UpdateCas(t))
  BY SMTT(60) DEF TypeOK, Goto, UpdateStep, UpdateNext, RcuCancel, UpdateWeakInc, UpdateCas, UpdateFail, UpdateMark,
     UpdateDec, UpdateDecWeak, UpdateDone, UpdateAgain, StartAdvance, PrepareLink,
     StartPayloadDrop

(* A step of an upgrade moves nobody else, and none leaves upd_cas.         *)
LEMMA UpgradeMoves ==
  ASSUME TypeOK, NEW t \in Threads, UpgradeStep(t), NEW u \in Threads
  PROVE  (u # t => pc'[u] = pc[u]) /\ (pc[t] = "upd_cas" => FALSE)
  BY SMTT(60) DEF TypeOK, Goto, UpgradeStep, UpgradeLoadStrong, UpgradeLoadNext, UpgradeIncWeak, UpgradeCas,
     UpgradeRaceDecWeak, UpgradeCheck, UpgradeUndo, UpgradeUndoDecWeak, UpgradeDone,
     UpgradeAgain, StartAdvance, StartDropWeak, DropWeakRound

(* A step of a public function moves nobody else, and none leaves upd_cas.  *)
LEMMA ApiMoves ==
  ASSUME TypeOK, NEW t \in Threads, ApiStep(t), NEW u \in Threads
  PROVE  (u # t => pc'[u] = pc[u]) /\ (pc[t] = "upd_cas" => FALSE)
  BY SMTT(60) DEF TypeOK, Goto, ApiStep, GetLoad, GetDone, TryGetMutWeak, TryGetMutStrong, TryGetMutAgain,
     SharedGetLoad, SharedGetInc, SharedGetNext, SharedGetStrong, SharedGetCas,
     SharedGetRecheck, SharedGetLight, SharedGetDec, SharedGetClone, FinishReading,
     Return, ReloadAgain, StartAdvance, StartDropStrong

(* The beginning of a call moves nobody else.                              *)
LEMMA CallMoves ==
  ASSUME TypeOK, NEW t \in Threads, Call(t), NEW u \in Threads
  PROVE  (u # t => pc'[u] = pc[u]) /\ pc[t] = "idle"
  BY SMTT(60) DEF TypeOK, Goto, Call, Clone, CloneWeak, Upgrade, Update, Rcu, DropShift, DropShiftWeak,
     Reload, SharedGet, Enter, Admitted, StartAdvance, StartDropStrong, StartDropWeak, DropWeakRound

(* Updates form a line: each is linked after the newest value, the one the *)
(* closure of rcu was given, however many threads update at once.          *)
THEOREM UpdatesFormALine == Spec => UpdatesSerialize
<1> DEFINE Linked1(t) == /\ stamp[item[t]] = count
                         /\ prev[op[t].val] = item[t]
                         /\ stamp'[op[t].val] = count + 1
           A == \A t \in Threads : pc[t] = "upd_cas" /\ pc'[t] = "upd_mark" => Linked1(t)
<1>1. ASSUME OrderInv, NEW t \in Threads, UpdateCas(t), pc'[t] = "upd_mark" PROVE Linked1(t)
  <2>1. /\ TypeOK /\ Knows(pc[t], item[t], av[t], pd[t], jn[t], op[t]) /\ pc[t] = "upd_cas"
        /\ op[t].val \in Ptrs /\ item[t] \in Nodes
    BY <1>1, RegistersTyped DEF OrderInv, UpdateCas, CallFrames
  <2>2. CanLink(item[t], op[t].nw) /\ Publish(op[t].val)
    BY <1>1, <2>1 DEF UpdateCas, Goto, TypeOK
  <2>3. /\ op[t].val \in Nodes /\ prev[op[t].val] = item[t] /\ ~HasNext(item[t])
        /\ Published(item[t])
    BY <2>1, <2>2 DEF Knows, OnChain, NewNode, CanLink, HasNext, Ptrs
  <2>4. stamp[item[t]] = count
    BY <1>1, <2>1, <2>3 DEF OrderInv, ChainOrdered
  <2>5. stamp'[op[t].val] = count + 1
    BY <2>1, <2>2, <2>3 DEF Publish, TypeOK
  <2> QED BY <2>3, <2>4, <2>5
<1>2. OrderInv /\ [Next]_vars => A
  <2> SUFFICES ASSUME OrderInv, [Next]_vars,
                      NEW t \in Threads, pc[t] = "upd_cas", pc'[t] = "upd_mark"
               PROVE  Linked1(t)
    OBVIOUS
  <2> HIDE DEF Linked1
  <2>1. TypeOK
    BY DEF OrderInv
  <2>2. ASSUME NEW u \in Threads, Call(u) PROVE Linked1(t)
    BY <2>1, <2>2, CallMoves
  <2>3. ASSUME NEW u \in Threads, Step(u) PROVE Linked1(t)
    <3>1. u = t
      BY <2>1, <2>3, AdvanceMoves, JanitorMoves, DropMoves, UpdateMoves, UpgradeMoves, ApiMoves DEF Step
    <3>2. UpdateCas(t)
      BY <2>1, <2>3, <3>1, AdvanceMoves, JanitorMoves, DropMoves, UpdateMoves, UpgradeMoves, ApiMoves
         DEF Step
    <3> QED BY <1>1, <3>2
  <2>4. CASE UNCHANGED vars
    BY <2>4 DEF vars
  <2> QED BY <2>2, <2>3, <2>4 DEF Next, Rest
<1>3. [][A]_vars => UpdatesSerialize
  BY DEF UpdatesSerialize
<1>4. OrderInv /\ [Next]_vars => [A]_vars
  BY <1>2
<1> QED BY <1>3, <1>4, ChainStaysOrdered, PTL DEF Spec
===============================================================================
