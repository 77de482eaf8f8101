----------------------------- MODULE ArcShiftProps -----------------------------
(***************************************************************************)
(* What the chain and its callers are promised: the type invariant, who    *)
(* holds which reference at every step, and the properties that follow.    *)
(***************************************************************************)
EXTENDS ArcShift

JanitorStatus == {"StrongRefsFound", "NoStrongRefsExist", "Indeterminate"}

Labels ==
  {"idle", "ret", "reading", "mutref",
   "adv_load", "adv_inc", "adv_reload", "adv_weak", "adv_dec", "adv_unweak", "advw_dec",
   "advs_load", "advs_incw", "advs_cas", "advs_race", "advs_recheck", "advs_undo",
   "advs_undo_decw", "advs_b_decw", "advs_a_dec", "advs_a_decw", "pay_mark", "pay_drop",
   "jan_lock", "jan_sweep", "jan_clean", "jan_strong", "jan_setnext", "jan_adv", "jan_final",
   "jan_del", "jan_free", "jan_clearprev", "jan_unlink", "jan_carry", "jan_uncarry", "jan_unlock",
   "ds_dec", "dw_weak", "dw_next", "dw_claim", "dw_cas", "dw_free",
   "upd_next", "upd_weak", "upd_cas", "upd_fail", "upd_mark", "upd_dec", "upd_decw", "upd_done",
   "upg_strong", "upg_next", "upg_incw", "upg_cas", "upg_race", "upg_check", "upg_undo",
   "upg_undo_decw", "upg_done", "get_load", "get_done", "tgm_weak", "tgm_strong", "tgm_again",
   "sg_load", "sg_inc", "sg_next", "sg_strong", "sg_cas", "sg_recheck", "sg_light", "sg_dec",
   "sg_clone"}

AdvanceFrames ==
  [start : Nodes, nxt : Nodes, mode : {"strong", "weak"}, cs : 0..UsizeMax,
   ret : {"idle", "jan_lock", "ds_dec", "upd_next", "upg_strong", "reading", "ret"}]
PayloadFrames ==
  [tgt : Nodes, override : BOOLEAN, ret : {"idle", "advs_a_decw", "dw_cas", "upd_decw"}]
JanitorFrames ==
  [cur : Ptrs, cand : Ptrs, prv : Ptrs, fail : Ptrs, rdel : Ptrs, right : Ptrs, carry : Ptrs,
   del : Ptrs, seen : BOOLEAN, rerun : BOOLEAN, status : JanitorStatus,
   ret : {"idle", "dw_weak", "upd_done", "get_done"}]
DropFrames == [ww : WeakWords, ret : {"idle", "ret", "sg_dec"}]
CallFrames ==
  [f : Functions \cup {"none"}, hnd : Handles, out : Handles, val : Ptrs, nw : NextWords,
   nxt : Nodes, cs : 0..UsizeMax, since : Nat, stolen : Ptrs, sole : BOOLEAN, ok : BOOLEAN,
   guard : {"none", "raw", "light", "full"}]

\* The type of every variable: the words of the nodes and the locals of the calls.
TypeOK ==
  /\ next \in [Nodes -> NextWords]
  /\ prev \in [Nodes -> Ptrs]
  /\ strong \in [Nodes -> 0..UsizeMax]
  /\ weak \in [Nodes -> WeakWords]
  /\ adv \in [Nodes -> Int]
  /\ mem \in [Nodes -> {"unused", "private", "live", "freed"}]
  /\ drops \in [Nodes -> Nat]
  /\ handle \in [Handles -> HandleStates]
  /\ left \in [Threads -> Nat]
  /\ stamp \in [Nodes -> Nat]
  /\ count \in Nat
  /\ pc \in [Threads -> Labels]
  /\ item \in [Threads -> Nodes]
  /\ av \in [Threads -> AdvanceFrames]
  /\ pd \in [Threads -> PayloadFrames]
  /\ jn \in [Threads -> JanitorFrames]
  /\ dr \in [Threads -> DropFrames]
  /\ op \in [Threads -> CallFrames]

-----------------------------------------------------------------------------
(* Who holds which reference. A holder is a pair <<role, who>>.             *)

Walking == {"adv_load", "adv_inc", "adv_reload", "adv_weak", "adv_dec", "adv_unweak"}
Swapping == {"advs_load", "advs_incw", "advs_cas", "advs_race", "advs_undo_decw"}
SwappedIn == {"advs_recheck", "advs_undo", "advs_b_decw", "advs_a_dec"}
Janitoring ==
  {"jan_lock", "jan_sweep", "jan_clean", "jan_strong", "jan_setnext", "jan_adv", "jan_final",
   "jan_del", "jan_free", "jan_clearprev", "jan_unlink", "jan_carry", "jan_uncarry", "jan_unlock"}

\* t is at one of the labels, or dropping a payload before it gets to one
At(t, labels) ==
  \/ pc[t] \in labels
  \/ pc[t] \in {"pay_mark", "pay_drop"} /\ pd[t].ret \in labels
  \/ pc[t] \in Janitoring /\ jn[t].ret \in labels

HoldsValue(f) == f \in {"clone", "upgrade", "get", "reload", "tryGetMut", "update", "rcu"}

StrongOnStart(t) ==
  pc[t] \in Swapping \cup SwappedIn \/ (pc[t] \in Walking /\ av[t].mode = "strong")

StrongOnItem(t) ==
  \/ pc[t] \in SwappedIn
  \/ At(t, {"advs_a_decw", "ds_dec", "upd_next", "upd_weak", "upd_cas", "upd_fail", "upd_mark",
            "upd_dec", "upd_done", "upg_check", "upg_undo", "upg_done", "get_load", "get_done",
            "tgm_weak", "tgm_strong", "tgm_again", "mutref"})
  \/ pc[t] = "reading" /\ op[t].guard # "raw"
  \/ pc[t] = "ret" /\ HoldsValue(op[t].f) /\ op[t].ok
  \/ pc[t] = "ret" /\ op[t].f = "rcu"

StrongOnNew(t) == At(t, {"upd_mark", "upd_dec", "upd_decw"})

StrongHolders(n) ==
  {<<"handle", h>> : h \in {h \in Handles : handle[h] = [kind |-> "strong", node |-> n]}}
  \cup {<<"start", t>> : t \in {t \in Threads : StrongOnStart(t) /\ av[t].start = n}}
  \cup {<<"item", t>> : t \in {t \in Threads : StrongOnItem(t) /\ item[t] = n}}
  \cup {<<"new", t>> : t \in {t \in Threads : StrongOnNew(t) /\ op[t].val = n}}
  \cup {<<"nxt", t>> : t \in {t \in Threads : pc[t] \in {"sg_recheck", "sg_light"} /\ op[t].nxt = n}}

WeakOnStart(t) ==
  \/ pc[t] \in Walking /\ av[t].mode = "weak"
  \/ At(t, {"advw_dec", "advs_a_decw"})

WeakOnItem(t) ==
  \/ pc[t] \in Walking /\ item[t] # av[t].start
  \/ pc[t] \in Swapping \cup (SwappedIn \ {"advs_a_dec"})
  \/ At(t, {"advw_dec", "dw_weak", "dw_next", "dw_claim", "dw_cas", "upd_cas", "upd_fail",
            "upd_decw", "upg_strong", "upg_next", "upg_incw", "upg_cas", "upg_race", "upg_check",
            "upg_undo", "upg_undo_decw", "upg_done"})

\* the weak count that goes with a strong group which does not exist yet, or no longer
WeakForGroup(t) ==
  \/ pc[t] \in {"advs_race", "advs_undo_decw", "upg_race", "upg_undo_decw"}
  \/ pc[t] = "advs_cas" /\ av[t].cs = 0
  \/ pc[t] = "upg_cas" /\ op[t].cs = 0

\* the link of a node being freed, on its way to the node right of the gap
WeakOnGap(t) ==
  \/ pc[t] \in {"jan_del", "jan_free"} /\ jn[t].del # jn[t].cur
  \/ pc[t] = "jan_unlink"

WeakHolders(n) ==
  {<<"handle", h>> : h \in {h \in Handles : handle[h] = [kind |-> "weak", node |-> n]}}
  \cup {<<"link", m>> : m \in {m \in Nodes : mem[m] = "live" /\ prev[m] = n}}
  \cup {<<"group", m>> : m \in {m \in {n} : LiveStrong(strong[n]) > 0}}
  \cup {<<"start", t>> : t \in {t \in Threads : WeakOnStart(t) /\ av[t].start = n}}
  \cup {<<"item", t>> : t \in {t \in Threads : WeakOnItem(t) /\ item[t] = n}}
  \cup {<<"extra", t>> : t \in {t \in Threads : WeakForGroup(t) /\ item[t] = n}}
  \cup {<<"nxt", t>> : t \in {t \in Threads : pc[t] \in {"adv_dec", "adv_unweak"} /\ av[t].nxt = n}}
  \cup {<<"gap", t>> : t \in {t \in Threads : WeakOnGap(t) /\ jn[t].del = n}}

Live(n) == mem[n] = "live"

(* strong_count is the number of strong references, at every step of every *)
(* interleaving; STRONG_DROPPED is installed only where there is none.     *)
StrongExact == \A n \in Nodes : Live(n) => LiveStrong(strong[n]) = Cardinality(StrongHolders(n))

(* weak_count counts the ArcShiftWeaks, the next node, one for all strong  *)
(* references together, and what the calls in progress hold (the           *)
(* invariants above ItemHolder; debug_validate checks them at rest).       *)
WeakExact == \A n \in Nodes : Live(n) => weak[n].count = Cardinality(WeakHolders(n))

-----------------------------------------------------------------------------
(* Memory. *)

\* the nodes the next step of t dereferences
Derefs(t) ==
  CASE pc[t] \in {"adv_load", "adv_inc", "adv_reload", "adv_dec", "adv_unweak"} -> {item[t]}
    [] pc[t] = "adv_weak" -> {av[t].nxt}
    [] pc[t] \in {"advw_dec", "advs_a_dec", "advs_a_decw"} -> {av[t].start}
    [] pc[t] \in {"pay_mark", "pay_drop"} -> {pd[t].tgt}
    [] pc[t] \in {"jan_sweep", "jan_strong"} -> {item[t], jn[t].cur}
    [] pc[t] = "jan_clean" -> {jn[t].cur} \ {jn[t].fail, Null}
    [] pc[t] \in {"jan_setnext", "jan_adv"} -> {jn[t].cur, jn[t].prv}
    [] pc[t] \in {"jan_del", "jan_free"} -> {jn[t].del}
    [] pc[t] \in {"jan_clearprev", "jan_unlink"} -> {jn[t].right}
    [] pc[t] \in {"jan_carry"} -> {jn[t].right, jn[t].carry} \ {Null}
    [] pc[t] = "jan_uncarry" -> {jn[t].carry} \ {Null}
    [] pc[t] \in {"sg_load", "sg_inc", "sg_next", "sg_dec", "sg_clone"} -> {Base(t)}
    [] pc[t] \in {"sg_strong", "sg_cas", "sg_recheck"} -> {op[t].nxt}
    [] pc[t] = "sg_light" -> {Base(t), op[t].nxt}
    [] pc[t] \in {"idle", "ret", "jan_final", "get_done", "upd_done"} -> {}
    [] OTHER -> {item[t]}

(* No step dereferences a node that has been freed: advance_count, the weak *)
(* counts and the janitor's locks together keep every node that some       *)
(* thread can still reach.                                                 *)
NoUseAfterFree == \A t \in Threads : \A n \in Derefs(t) : n \in Nodes /\ Live(n)

(* A payload is destroyed at most once, by whichever call gets to it:      *)
(* advance, update, the janitor, do_drop_weak or try_into_inner.           *)
SingleDrop == \A n \in Nodes : drops[n] <= 1

\* t is looking at the payload of item: a reader, a try_get_mut, a closure of rcu
Looking(t) == pc[t] \in {"reading", "mutref"} \/ (pc[t] = "upd_next" /\ ~HasNext(item[t]))

(* The payload a reference gives access to is there: what an ArcShift      *)
(* points to, and what get, shared_get, rcu and try_get_mut hand out.      *)
PayloadSafe ==
  /\ \A h \in Handles : handle[h].kind = "strong" => Live(handle[h].node) /\ drops[handle[h].node] = 0
  /\ \A t \in Threads : Looking(t) => Live(item[t]) /\ drops[item[t]] = 0

\* a strong count that t will take back, because the node got a next meanwhile
Undoing(t) == pc[t] \in {"advs_recheck", "advs_undo", "upg_check", "upg_undo"} /\ HasNext(item[t])

(* Somebody has a strong reference to some node. What an advance or an     *)
(* upgrade has counted on a node that is no longer the newest does not     *)
(* keep the chain: the call takes it back and goes on.                     *)
StrongRefsExist ==
  \E n \in Nodes : Live(n) /\ StrongHolders(n) \ {<<"item", t>> : t \in {t \in Threads : Undoing(t)}} # {}

(* Once do_drop_weak has claimed the current value, nothing refers to the  *)
(* chain strongly any more: an upgrade that sees the claim, and no other,  *)
(* may answer None.                                                        *)
ClaimedMeansGone ==
  \A n \in Nodes : Live(n) /\ ~HasNext(n) /\ (strong[n] = STRONG_DROPPED \/ next[n].dropped)
                     => ~StrongRefsExist

(* A strong advance, and shared_get, never meet a torn-down node: they     *)
(* resurrect a count of 0 on the strength of the reference the caller has  *)
(* (the assertions in do_advance_strong).                                  *)
StrongAdvanceFindsValue ==
  \A t \in Threads :
    /\ pc[t] \in {"advs_load", "advs_incw", "advs_cas", "advs_race"} => strong[item[t]] # STRONG_DROPPED
    /\ pc[t] \in {"sg_strong", "sg_cas"} => strong[op[t].nxt] # STRONG_DROPPED
    /\ pc[t] = "advs_recheck" /\ ~HasNext(item[t]) => ~next[item[t]].dropped

(* No live node points at a freed one: the janitor redirects next before   *)
(* it frees, and keeps what an advance in progress may still reach. A prev *)
(* dangles only between the free and the unlink, under the janitor's lock. *)
NoDanglingLinks ==
  \A n \in Nodes : Live(n) =>
    /\ HasNext(n) => Live(next[n].ptr)
    /\ prev[n] # Null => Live(prev[n]) \/ next[n].locked

(* The list changes only under the janitor's locks: a prev is rewritten,   *)
(* and a node with a right neighbour is freed, while that node and the one *)
(* to its right are locked (the last rules of the comment at ItemHolder).  *)
UnlinkUnderLock ==
  [][\A n \in Nodes : Live(n) =>
       /\ prev'[n] # prev[n] => next[n].locked
       /\ mem'[n] = "freed" /\ HasNext(n) =>
            /\ next[n].locked
            /\ \A m \in Nodes : Live(m) /\ prev[m] = n => next[m].locked]_vars

(* STRONG_DROPPED is final: no upgrade, advance or shared_get brings a     *)
(* torn-down value back.                                                   *)
SentinelIsFinal ==
  [][\A n \in Nodes : strong[n] = STRONG_DROPPED => strong'[n] = STRONG_DROPPED]_vars

(* What a call hands out is at least as new as the newest value when the   *)
(* call began (the guarantee of get, and what clone, upgrade, shared_get   *)
(* and the update family rely on).                                         *)
HandsOut(t) == Looking(t) \/ (pc[t] = "ret" /\ HoldsValue(op[t].f) /\ op[t].ok)
FreshRead == \A t \in Threads : HandsOut(t) => stamp[item[t]] >= op[t].since

(* Updates form a line: each is linked after the newest value, which is    *)
(* the one the closure of rcu was given.                                   *)
UpdatesSerialize ==
  [][\A t \in Threads : pc[t] = "upd_cas" /\ pc'[t] = "upd_mark" =>
       /\ stamp[item[t]] = count
       /\ prev[op[t].val] = item[t]
       /\ stamp'[op[t].val] = count + 1]_vars

\* thread t has the only reference to the chain, a strong one to its newest value
OnlyReference(t) ==
  /\ stamp[item[t]] = count
  /\ \A n \in Nodes : Live(n) =>
       /\ StrongHolders(n) \subseteq {<<"item", t>>}
       /\ WeakHolders(n) \subseteq {<<"group", n>>}

(* Where no ArcShiftWeak is upgraded, a mutable reference from try_get_mut *)
(* is the only way to the chain: no other handle and no call in progress   *)
(* refers to any node, and the value is the newest.                        *)
ExclusiveUnlessUpgraded ==
  (\A c \in Calls : c[2] # "upgrade") => \A t \in Threads : pc[t] = "mutref" => OnlyReference(t)

-----------------------------------------------------------------------------
(* At rest: no call in progress. *)

Held(kind) == {h \in Handles : handle[h].kind = kind}

(* When the last handle is gone, so is everything: no node is left, and    *)
(* every value was destroyed exactly once, or given out by try_into_inner. *)
NothingLeaks ==
  AtRest /\ Held("strong") \cup Held("weak") = {} =>
    \A n \in Nodes : mem[n] \in {"unused", "freed"} /\ drops[n] = IF mem[n] = "freed" THEN 1 ELSE 0

(* When the last ArcShift is gone, the newest value is, however many       *)
(* ArcShiftWeaks still keep the node.                                      *)
ValueGoesWithLastShift ==
  AtRest /\ Held("strong") = {} => \A n \in Nodes : Live(n) /\ ~HasNext(n) => drops[n] = 1

(* While an ArcShift exists, whichever node it points to, the newest value *)
(* is still there for it to advance to.                                    *)
NewestValueKept ==
  \A n \in Nodes : Live(n) /\ ~HasNext(n) /\ drops[n] # 0 => ~StrongRefsExist

(* At rest no lock is held, no janitor is asked to run again and no        *)
(* advance is announced: nobody's work was forgotten.                      *)
QuietAtRest ==
  AtRest => \A n \in Nodes : Live(n) => ~next[n].locked /\ ~next[n].disturbed /\ adv[n] = 0

(* try_into_inner that reports the sole user took the chain down.          *)
SoleUserIsLast ==
  \A t \in Threads : pc[t] = "ret" /\ op[t].sole => \A n \in Nodes : ~Live(n)

-----------------------------------------------------------------------------
(* Progress. *)

(* Every call of a scheduled thread returns, also when the other threads   *)
(* stop for ever at any point of a call, a janitor's locks held included:  *)
(* the loops wait for nobody.                                              *)
CallsReturn == \A t \in Scheduled : pc[t] # "idle" ~> pc[t] = "idle"

-----------------------------------------------------------------------------
(* What the documentation says and the code does not do. *)

(* "All functions are lock free" (lib.rs): when every thread that is in a  *)
(* call keeps taking steps and the program makes finitely many calls, it   *)
(* comes to rest, whatever the schedule.                                   *)
LockFree == []<>AtRest

(* "Payload values only stay in memory if they are actively referenced by  *)
(* at least one ArcShift instance" (README.md): once the last ArcShift is  *)
(* gone and the calls have returned, no node has a value any more.         *)
StaleValuesGo == AtRest /\ Held("strong") = {} => \A n \in Nodes : Live(n) => drops[n] = 1

(* "This method returns None if there are any other ArcShift or            *)
(* ArcShiftWeak instances pointing to the same object chain"               *)
(* (try_get_mut): who has a mutable reference has the only one.            *)
ExclusiveMut == \A t \in Threads : pc[t] = "mutref" => OnlyReference(t)

(* "A drop handler that will persist the most recent object, allowing it   *)
(* to be returned to the user" (StealingDropHandler): what try_into_inner  *)
(* returns is the newest value.                                            *)
IntoInnerIsNewest ==
  \A t \in Threads : pc[t] = "ret" /\ op[t].f = "intoInner" /\ op[t].sole /\ op[t].stolen # Null
                       => stamp[op[t].stolen] = count
=============================================================================
