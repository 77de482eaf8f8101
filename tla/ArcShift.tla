------------------------------- MODULE ArcShift -------------------------------
(***************************************************************************)
(* The public API of ArcShift and ArcShiftWeak, and the specification of a *)
(* program whose threads call it. A call that takes &self borrows its      *)
(* handle, one that takes &mut self or self has it alone, as the borrow    *)
(* checker makes sure.                                                     *)
(***************************************************************************)
EXTENDS ArcShiftUpdate

CONSTANTS
  Calls,        \* the calls <<thread, function, handle, result handle>> the program may make
  Budget,       \* Budget[t]: how many of them thread t makes at most (a bound)
  InitLen,      \* length of the chain the program starts with
  InitHandle,   \* what each handle holds then
  Scheduled     \* the threads that keep being scheduled

Functions == {"clone", "downgrade", "cloneWeak", "upgrade", "get", "reload", "update", "rcu",
              "drop", "dropWeak", "tryGetMut", "intoInner", "sharedGet"}

HandleStates == [kind : {"none", "strong", "weak", "busy"}, node : Nodes]
NoHandle == [kind |-> "none", node |-> IdleNode]
Busy == [kind |-> "busy", node |-> IdleNode]

(* The program starts at rest, on a chain that new, clone, downgrade and   *)
(* update can build: every node is held by an ArcShift.                    *)
ASSUME ProgramAssumption ==
  /\ Calls \subseteq Threads \X Functions \X Handles \X Handles
  /\ Budget \in [Threads -> Nat]
  /\ InitLen \in Nodes
  /\ InitHandle \in [Handles -> HandleStates]
  /\ \A h \in Handles : InitHandle[h].kind # "busy" /\ InitHandle[h].node <= InitLen
  /\ \A n \in 1..InitLen : \E h \in Handles : InitHandle[h] = [kind |-> "strong", node |-> n]
  /\ Scheduled \subseteq Threads

InitRefs(kind, n) == Cardinality({h \in Handles : InitHandle[h] = [kind |-> kind, node |-> n]})

Init ==
  /\ next = [n \in Nodes |-> [NullNext EXCEPT !.ptr = IF n < InitLen THEN n + 1 ELSE Null]]
  /\ prev = [n \in Nodes |-> IF n <= InitLen THEN n - 1 ELSE Null]
  /\ strong = [n \in Nodes |-> InitRefs("strong", n)]
  /\ weak = [n \in Nodes |->
       IF n > InitLen THEN NoWeak
       ELSE [count |-> InitRefs("weak", n) + IF n < InitLen THEN 2 ELSE 1,
             haveNext |-> n < InitLen, havePrev |-> n > 1]]
  /\ adv = [n \in Nodes |-> 0]
  /\ mem = [n \in Nodes |-> IF n <= InitLen THEN "live" ELSE "unused"]
  /\ drops = [n \in Nodes |-> 0]
  /\ handle = InitHandle
  /\ left = Budget
  /\ stamp = [n \in Nodes |-> IF n <= InitLen THEN n ELSE 0]
  /\ count = InitLen
  /\ pc = [t \in Threads |-> "idle"]
  /\ item = [t \in Threads |-> IdleNode]
  /\ av = [t \in Threads |-> IdleAdvance]
  /\ pd = [t \in Threads |-> IdlePayload]
  /\ jn = [t \in Threads |-> IdleJanitor]
  /\ dr = [t \in Threads |-> IdleDrop]
  /\ op = [t \in Threads |-> IdleOp]

-----------------------------------------------------------------------------
(* Entering a call. *)

Admitted(t, f, h, o) ==
  /\ pc[t] = "idle"
  /\ left[t] > 0
  /\ <<t, f, h, o>> \in Calls
  /\ left' = [left EXCEPT ![t] = @ - 1]

\* v is the node the call brings along, if any
Enter(t, f, h, o, v) ==
  /\ Admitted(t, f, h, o)
  /\ op' = [op EXCEPT ![t] = [IdleOp EXCEPT !.f = f, !.hnd = h, !.out = o, !.val = v, !.since = count]]
  /\ UNCHANGED <<stamp, count, pd>>

\* &self: the handle stays where it is; a result goes to an empty handle
Borrow(h, kind) == handle[h].kind = kind
Reserve(o) == handle[o].kind = "none" /\ handle' = [handle EXCEPT ![o] = Busy]

\* &mut self and self: nobody else is using the handle
Take(h, kind) ==
  /\ handle[h].kind = kind
  /\ \A u \in Threads : pc[u] # "idle" => op[u].hnd # h
  /\ handle' = [handle EXCEPT ![h] = Busy]

\* do_clone_strong: count first, then advance the new reference
Clone(t, h, o) ==
  /\ Enter(t, "clone", h, o, Null)
  /\ Borrow(h, "strong") /\ Reserve(o)
  /\ AddStrong(handle[h].node)
  /\ StartAdvance(t, handle[h].node, "strong", "ret")
  /\ UNCHANGED <<next, prev, weak, adv, mem, drops, jn, dr>>

\* do_clone_weak, for downgrade and for the clone of an ArcShiftWeak: one step
CloneWeak(t, f, h, o) ==
  /\ Admitted(t, f, h, o)
  /\ Borrow(h, IF f = "downgrade" THEN "strong" ELSE "weak")
  /\ handle[o].kind = "none"
  /\ handle' = [handle EXCEPT ![o] = [kind |-> "weak", node |-> handle[h].node]]
  /\ AddWeak(handle[h].node)
  /\ UNCHANGED <<next, prev, strong, adv, mem, drops, stamp, count, pc, locals>>

Upgrade(t, h, o) ==
  /\ Enter(t, "upgrade", h, o, Null)
  /\ Borrow(h, "weak") /\ Reserve(o)
  /\ AddWeak(handle[h].node)
  /\ StartAdvance(t, handle[h].node, "weak", "upg_strong")
  /\ UNCHANGED <<next, prev, strong, adv, mem, drops, jn, dr>>

\* update and update_box build the new node first
Update(t, h) ==
  /\ Unused # {}
  /\ Enter(t, "update", h, h, FreshNode)
  /\ Take(h, "strong")
  /\ NewHolder(FreshNode, handle[h].node)
  /\ StartAdvance(t, handle[h].node, "strong", "upd_next")
  /\ UNCHANGED <<next, adv, drops, jn, dr>>

\* rcu and rcu_maybe build it in the closure
Rcu(t, h) ==
  /\ Enter(t, "rcu", h, h, Null)
  /\ Take(h, "strong")
  /\ StartAdvance(t, handle[h].node, "strong", "upd_next")
  /\ UNCHANGED <<heap, jn, dr>>

\* Drop for ArcShift, and try_into_inner with the handler that keeps the payload
DropShift(t, f, h) ==
  /\ f \in {"drop", "intoInner"}
  /\ Enter(t, f, h, h, Null)
  /\ Take(h, "strong")
  /\ StartDropStrong(t, handle[h].node, "ret")
  /\ UNCHANGED <<heap, jn>>

\* Drop for ArcShiftWeak
DropShiftWeak(t, h) ==
  /\ Enter(t, "dropWeak", h, h, Null)
  /\ Take(h, "weak")
  /\ StartDropWeak(t, handle[h].node, "ret")
  /\ UNCHANGED heap

\* get, reload, and the reload that try_get_mut begins with
Reload(t, f, h) ==
  /\ f \in {"get", "reload", "tryGetMut"}
  /\ Enter(t, f, h, h, Null)
  /\ Take(h, "strong")
  /\ item' = [item EXCEPT ![t] = handle[h].node]
  /\ Goto(t, "get_load")
  /\ UNCHANGED <<heap, av, jn, dr>>

SharedGet(t, h) ==
  /\ Enter(t, "sharedGet", h, h, Null)
  /\ Borrow(h, "strong")
  /\ Goto(t, "sg_load")
  /\ UNCHANGED <<heap, handle, item, av, jn, dr>>

Call(t) ==
  \E h, o \in Handles :
    \/ Clone(t, h, o) \/ CloneWeak(t, "downgrade", h, o) \/ CloneWeak(t, "cloneWeak", h, o)
    \/ Upgrade(t, h, o) \/ Update(t, h) \/ Rcu(t, h)
    \/ DropShift(t, "drop", h) \/ DropShift(t, "intoInner", h) \/ DropShiftWeak(t, h)
    \/ Reload(t, "get", h) \/ Reload(t, "reload", h) \/ Reload(t, "tryGetMut", h)
    \/ SharedGet(t, h)

-----------------------------------------------------------------------------
(* get, reload and try_get_mut: advance_strong_helper2 unless up to date.   *)

\* mutant: a node a janitor is working on is left alone
NeedsReloadUnlocked(f, n) == HasNext(n) /\ ~next[n].locked

\* get looks at the pointer, reload at the whole word
NeedsReload(f, n) == IF f = "get" THEN HasNext(n) ELSE next[n] # NullNext

AfterReload(f) == CASE f = "get" -> "reading" [] f = "reload" -> "ret" [] OTHER -> "tgm_weak"

ReloadAgain(t) == StartAdvance(t, item[t], "strong", "jan_lock")

GetLoad(t) ==
  /\ pc[t] = "get_load"
  /\ IF NeedsReload(op[t].f, item[t])
     THEN /\ ReloadAgain(t)
          /\ jn' = [jn EXCEPT ![t].ret = "get_done"]
     ELSE Goto(t, AfterReload(op[t].f)) /\ UNCHANGED <<item, av, jn>>
  /\ ReadOnly /\ UNCHANGED <<pd, dr, op>>

GetDone(t) ==
  /\ pc[t] = "get_done"
  /\ IF jn[t].rerun
     THEN ReloadAgain(t)
     ELSE Goto(t, AfterReload(op[t].f)) /\ UNCHANGED <<item, av>>
  /\ ReadOnly /\ UNCHANGED <<pd, jn, dr, op>>

\* try_get_mut: the only weak count is the one of the strong group ...
TryGetMutWeak(t) ==
  /\ pc[t] = "tgm_weak"
  /\ Goto(t, IF SoleUser(weak[item[t]]) THEN "tgm_strong" ELSE "ret")
  /\ ReadOnly /\ UNCHANGED locals

\* ... of one strong reference ...
TryGetMutStrong(t) ==
  /\ pc[t] = "tgm_strong"
  /\ Goto(t, IF strong[item[t]] = 1 THEN "tgm_again" ELSE "ret")
  /\ ReadOnly /\ UNCHANGED locals

\* mutant: the second look at the weak count is left out
TryGetMutOnce(t) ==
  /\ pc[t] = "tgm_again"
  /\ Goto(t, "mutref")
  /\ ReadOnly /\ UNCHANGED locals

\* ... and no update or downgrade came between the two loads
TryGetMutAgain(t) ==
  /\ pc[t] = "tgm_again"
  /\ Goto(t, IF weak[item[t]].count = 1 THEN "mutref" ELSE "ret")
  /\ ReadOnly /\ UNCHANGED locals

-----------------------------------------------------------------------------
(* shared_get and slow_shared_get. The node of the borrowed handle is base. *)

Base(t) == handle[op[t].hnd].node

SharedGetLoad(t) ==
  /\ pc[t] = "sg_load"
  /\ \/ /\ ~HasNext(Base(t))
        /\ item' = [item EXCEPT ![t] = Base(t)]
        /\ op' = [op EXCEPT ![t].guard = "raw"]
        /\ Goto(t, "reading")
     \/ /\ HasNext(Base(t))
        /\ Goto(t, "sg_inc")
        /\ UNCHANGED <<item, op>>
  /\ ReadOnly /\ UNCHANGED <<av, pd, jn, dr>>

SharedGetInc(t) ==
  /\ pc[t] = "sg_inc"
  /\ adv' = [adv EXCEPT ![Base(t)] = @ + 1]
  /\ Goto(t, "sg_next")
  /\ OnlyAdv /\ UNCHANGED locals

SharedGetNext(t) ==
  /\ pc[t] = "sg_next"
  /\ op' = [op EXCEPT ![t].nxt = next[Base(t)].ptr]
  /\ Goto(t, "sg_strong")
  /\ ReadOnly /\ UNCHANGED <<item, av, pd, jn, dr>>

SharedGetStrong(t) ==
  /\ pc[t] = "sg_strong"
  /\ op' = [op EXCEPT ![t].cs = strong[op[t].nxt]]
  /\ Goto(t, IF strong[op[t].nxt] = 0 THEN "sg_dec" ELSE "sg_cas")
  /\ ReadOnly /\ UNCHANGED <<item, av, pd, jn, dr>>

SharedGetCas(t) ==
  /\ pc[t] = "sg_cas"
  /\ \/ /\ strong[op[t].nxt] = op[t].cs
        /\ AddStrong(op[t].nxt)
        /\ Goto(t, "sg_recheck")
     \/ /\ strong[op[t].nxt] # op[t].cs
        /\ Goto(t, "sg_dec")
        /\ UNCHANGED strong
  /\ OnlyStrong /\ UNCHANGED locals

\* mutant: next is not looked at again
SharedGetNoRecheck(t) ==
  /\ pc[t] = "sg_recheck"
  /\ Goto(t, "sg_light")
  /\ ReadOnly /\ UNCHANGED locals

SharedGetRecheck(t) ==
  /\ pc[t] = "sg_recheck"
  /\ IF HasNext(op[t].nxt)
     THEN StartDropStrong(t, op[t].nxt, "sg_dec")
     ELSE Goto(t, "sg_light") /\ UNCHANGED <<item, av, dr>>
  /\ ReadOnly /\ UNCHANGED <<pd, jn, op>>

\* mutant: advance_count is not lowered again
SharedGetLightForgets(t) ==
  /\ pc[t] = "sg_light"
  /\ item' = [item EXCEPT ![t] = op[t].nxt]
  /\ op' = [op EXCEPT ![t].guard = "light"]
  /\ Goto(t, "reading")
  /\ ReadOnly /\ UNCHANGED <<av, pd, jn, dr>>

\* SharedGetGuardInner::LightCloned
SharedGetLight(t) ==
  /\ pc[t] = "sg_light"
  /\ adv' = [adv EXCEPT ![Base(t)] = @ - 1]
  /\ item' = [item EXCEPT ![t] = op[t].nxt]
  /\ op' = [op EXCEPT ![t].guard = "light"]
  /\ Goto(t, "reading")
  /\ OnlyAdv /\ UNCHANGED <<av, pd, jn, dr>>

SharedGetDec(t) ==
  /\ pc[t] = "sg_dec"
  /\ adv' = [adv EXCEPT ![Base(t)] = @ - 1]
  /\ Goto(t, "sg_clone")
  /\ OnlyAdv /\ UNCHANGED locals

\* SharedGetGuardInner::FullClone
SharedGetClone(t) ==
  /\ pc[t] = "sg_clone"
  /\ AddStrong(Base(t))
  /\ op' = [op EXCEPT ![t].guard = "full"]
  /\ StartAdvance(t, Base(t), "strong", "reading")
  /\ OnlyStrong /\ UNCHANGED <<pd, jn, dr>>

-----------------------------------------------------------------------------
(* Leaving a call. *)

\* the reference to the payload ends, and with it the guard of shared_get
FinishReading(t) ==
  /\ pc[t] \in {"reading", "mutref"}
  /\ IF op[t].guard \in {"light", "full"}
     THEN StartDropStrong(t, item[t], "ret")
     ELSE Goto(t, "ret") /\ UNCHANGED <<item, av, dr>>
  /\ ReadOnly /\ UNCHANGED <<pd, jn, op>>

\* what the call leaves in the handle it took or reserved
Result(t) ==
  CASE op[t].f \in {"clone", "upgrade"} ->
         [handle EXCEPT ![op[t].out] =
            IF op[t].ok THEN [kind |-> "strong", node |-> item[t]] ELSE NoHandle]
    [] op[t].f \in {"get", "reload", "tryGetMut", "update", "rcu"} ->
         [handle EXCEPT ![op[t].hnd] = [kind |-> "strong", node |-> item[t]]]
    [] op[t].f \in {"drop", "dropWeak", "intoInner"} -> [handle EXCEPT ![op[t].hnd] = NoHandle]
    [] OTHER -> handle

Return(t) ==
  /\ pc[t] = "ret"
  /\ handle' = Result(t)
  /\ Goto(t, "idle")
  /\ item' = [item EXCEPT ![t] = IdleNode]
  /\ jn' = [jn EXCEPT ![t] = IdleJanitor]
  /\ op' = [op EXCEPT ![t] = IdleOp]
  /\ UNCHANGED <<heap, left, stamp, count, av, pd, dr>>

ApiStep(t) ==
  \/ GetLoad(t) \/ GetDone(t) \/ TryGetMutWeak(t) \/ TryGetMutStrong(t) \/ TryGetMutAgain(t)
  \/ SharedGetLoad(t) \/ SharedGetInc(t) \/ SharedGetNext(t) \/ SharedGetStrong(t)
  \/ SharedGetCas(t) \/ SharedGetRecheck(t) \/ SharedGetLight(t) \/ SharedGetDec(t)
  \/ SharedGetClone(t) \/ FinishReading(t) \/ Return(t)

-----------------------------------------------------------------------------

Step(t) ==
  AdvanceStep(t) \/ JanitorStep(t) \/ DropStep(t) \/ UpdateStep(t) \/ UpgradeStep(t) \/ ApiStep(t)

\* the program may stop calling, but not in the middle of a call
AtRest == \A t \in Threads : pc[t] = "idle"
Rest == AtRest /\ UNCHANGED vars

Next == (\E t \in Threads : Call(t) \/ Step(t)) \/ Rest

Spec == Init /\ [][Next]_vars

\* the scheduler: a scheduled thread that is in a call keeps taking steps
Fairness == \A t \in Scheduled : WF_vars(Step(t))
FairSpec == Spec /\ Fairness
=============================================================================
