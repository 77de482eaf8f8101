------------------------------ MODULE ArcShiftSafe ------------------------------
(***************************************************************************)
(* The inductive invariant behind the memory safety of the chain: who has  *)
(* locked what, what a janitor may free, and why both counts are exact at  *)
(* every step of any number of threads.                                    *)
(***************************************************************************)
EXTENDS ArcShiftOrder

\* by age: the chain from left to right
Before(m, n) == stamp[m] < stamp[n]

-----------------------------------------------------------------------------
(* Which call is where: the label, the return addresses and what was asked  *)
(* for fit together.                                                        *)

Updating == {"upd_next", "upd_weak", "upd_cas", "upd_fail", "upd_mark", "upd_dec", "upd_decw", "upd_done"}
Upgrading ==
  {"upg_strong", "upg_next", "upg_incw", "upg_cas", "upg_race", "upg_check", "upg_undo",
   "upg_undo_decw", "upg_done"}
Dying == {"dw_weak", "dw_next", "dw_claim", "dw_cas", "dw_free"}

\* the function f continues at label l, where its reference is of this kind
Continues(l, mode, f, ok, guard, jret, dret) ==
  CASE l = "jan_lock" ->
         \/ jret = "dw_weak" /\ mode = "weak" /\ dret # "idle"
         \/ jret = "upd_done" /\ mode = "strong" /\ f \in {"update", "rcu"} /\ ok /\ dret = "idle"
         \/ jret = "get_done" /\ mode = "strong" /\ f \in {"get", "reload", "tryGetMut"} /\ ok /\ dret = "idle"
    [] l = "ds_dec" -> mode = "strong" /\ dret # "idle"
    [] l = "upd_next" -> mode = "strong" /\ f \in {"update", "rcu"} /\ ok /\ dret = "idle"
    [] l = "upg_strong" -> mode = "weak" /\ f = "upgrade" /\ ok /\ dret = "idle"
    [] l = "reading" -> mode = "strong" /\ f = "sharedGet" /\ guard = "full" /\ dret = "idle"
    [] l = "ret" -> mode = "strong" /\ f = "clone" /\ ok /\ dret = "idle"
    [] OTHER -> FALSE

\* what a drop is for, and what comes after it
DropShape(f, ok, guard, dret) ==
  CASE dret = "ret" -> \/ f \in {"drop", "dropWeak", "intoInner"}
                       \/ f = "sharedGet" /\ guard \in {"light", "full"}
                       \/ f = "upgrade" /\ ~ok
    [] dret = "sg_dec" -> f = "sharedGet" /\ guard = "none"
    [] OTHER -> TRUE

Shape(t) ==
  LET l == pc[t]
      a == av[t]
      p == pd[t]
      f == op[t].f
      dret == dr[t].ret
  IN /\ l \in Advancing \/ (l \in Dropping /\ p.ret = "advs_a_decw")
          => Continues(a.ret, a.mode, f, op[t].ok, op[t].guard, jn[t].ret, dret)
     /\ l \in Swapping \cup SwappedIn \cup {"advs_a_decw"} => a.mode = "strong"
     /\ l \in Dropping /\ p.ret = "advs_a_decw" => a.mode = "strong"
     /\ l = "advw_dec" => a.mode = "weak"
     /\ l \in Dropping => p.ret # "idle"
     /\ p.ret = "advs_a_decw" => p.tgt = a.start /\ ~p.override
     /\ p.ret = "upd_decw" => p.tgt = item[t] /\ ~p.override
     /\ p.ret = "dw_cas" => p.tgt = item[t]
     /\ l \in Janitoring => Continues("jan_lock", IF jn[t].ret = "dw_weak" THEN "weak" ELSE "strong",
                                      f, op[t].ok, op[t].guard, jn[t].ret, dret)
     /\ l \in Dying \cup {"ds_dec"} \/ p.ret = "dw_cas" => dret # "idle"
     /\ DropShape(f, op[t].ok, op[t].guard, dret)
     /\ dret # "idle" => l \in Dying \cup {"ds_dec"} \cup Janitoring \cup Advancing \cup Dropping
     /\ l \in Updating \/ p.ret = "upd_decw" => f \in {"update", "rcu"} /\ op[t].ok /\ dret = "idle"
     /\ l \in Upgrading => f = "upgrade" /\ op[t].ok /\ dret = "idle"
     /\ l \in {"get_load", "get_done"} => f \in {"get", "reload", "tryGetMut"} /\ op[t].ok /\ dret = "idle"
     /\ l \in {"tgm_weak", "tgm_strong", "tgm_again", "mutref"} => f = "tryGetMut" /\ op[t].ok
     /\ l \in SharedGetting => f = "sharedGet" /\ op[t].guard = "none"
     /\ l = "reading" => IF f = "sharedGet" THEN op[t].guard # "none" ELSE f = "get" /\ op[t].guard = "none"
     /\ f # "sharedGet" => op[t].guard = "none"
     /\ l = "idle" => f = "none"
     /\ f \notin {"upgrade", "rcu"} => op[t].ok
     \* a count is remembered for the compare-exchange
     /\ l = "advs_incw" => a.cs = 0
     /\ l = "upg_incw" => op[t].cs = 0
     /\ l = "sg_cas" => op[t].cs # 0
     /\ l = "upd_done" => jn[t].ret = "upd_done"
     /\ l = "get_done" => jn[t].ret = "get_done"

\* what call t knows about the order and the neighbours of the nodes it has
Places(t) ==
  LET l == pc[t]
      p == pd[t]
  IN /\ l \in Walking => item[t] = av[t].start \/ Before(av[t].start, item[t])
     /\ l \in {"adv_weak", "adv_dec", "adv_unweak"} => Before(item[t], av[t].nxt)
     /\ l \in Swapping \cup SwappedIn \cup {"adv_unweak", "advw_dec", "advs_a_decw"}
          \/ p.ret = "advs_a_decw" => Before(av[t].start, item[t])
     /\ p.ret \in {"advs_a_decw", "upd_decw"} => HasNext(p.tgt)
     /\ l \in {"upd_mark", "upd_dec"} => HasNext(item[t])
     \* shared_get has a borrowed handle left of the node it tries
     /\ l \in {"sg_strong", "sg_cas", "sg_recheck", "sg_light"} => Before(Base(t), op[t].nxt)
     /\ dr[t].ret = "sg_dec" /\ StrongOnStart(t) => Before(Base(t), av[t].start)
     /\ l = "reading" /\ op[t].guard = "raw" => item[t] = Base(t)

-----------------------------------------------------------------------------
(* The list. *)

\* p is the live node next to n on its left, Null if there is none
Adjacent(n, p) ==
  /\ p # Null => Live(p) /\ Before(p, n)
  /\ \A m \in Nodes : Live(m) /\ Before(m, n) => p # Null /\ ~Before(p, m)

\* nodes between right and del have been freed, and prev of right dangles
Gap(t) ==
  \/ pc[t] \in {"jan_del", "jan_free"} /\ jn[t].del # jn[t].cur
  \/ pc[t] \in {"jan_clearprev", "jan_unlink"}

Listed ==
  /\ \A n \in Nodes : Live(n) /\ (\A t \in Threads : ~(Gap(t) /\ jn[t].right = n)) => Adjacent(n, prev[n])
  /\ \A n \in Nodes : Live(n) /\ HasNext(n) => Live(next[n].ptr)
  /\ \A n \in Nodes : Live(n) => Published(n)

-----------------------------------------------------------------------------
(* Locks. *)

Redirecting == {"jan_strong", "jan_setnext", "jan_adv"}
Freeing == {"jan_final", "jan_del", "jan_free", "jan_clearprev", "jan_unlink", "jan_carry", "jan_uncarry"}

(* The part of the list that janitor t has locked: the node it started at, *)
(* and on the left of it what it has swept and not given back.             *)
HasLocked(t, n) ==
  LET j == jn[t] IN
  \/ pc[t] \in Janitoring \ {"jan_lock"} /\ n = item[t]
  \/ pc[t] = "jan_sweep" /\ Before(j.cur, n) /\ Before(n, item[t])
  \/ pc[t] = "jan_clean" /\ Before(j.fail, n) /\ ~Before(j.cur, n)
  \/ pc[t] \in Redirecting /\ Before(n, item[t])
  \/ pc[t] \in Freeing /\ n = j.carry
  \/ pc[t] \in {"jan_final", "jan_del", "jan_free"} /\ ~Before(j.cur, n)
  \/ pc[t] = "jan_unlink" /\ j.del # Null /\ ~Before(j.del, n)
  \/ pc[t] = "jan_carry" /\ ~Before(j.right, n)

LocksHeld ==
  /\ \A t \in Threads : \A n \in Nodes : Live(n) /\ HasLocked(t, n) => next[n].locked
  /\ \A t, u \in Threads : \A n \in Nodes : Live(n) /\ HasLocked(t, n) /\ HasLocked(u, n) => t = u

\* what a janitor's registers say about the list
JanitorKnows(t) ==
  LET j == jn[t]
      i == item[t]
      l == pc[t]
  IN /\ l \in {"jan_sweep"} \cup Redirecting =>
          /\ j.cur # Null /\ Live(j.cur) /\ Live(j.cand) /\ Before(j.cand, i) /\ ~Before(j.cand, j.cur)
          /\ prev[i] = j.cand
     /\ l \in Redirecting /\ j.rdel # Null => Before(j.cur, j.rdel) /\ ~Before(i, j.rdel)
     /\ l = "jan_sweep" => j.fail = Null /\ j.rdel = Null /\ ~j.seen
     /\ l \in {"jan_sweep"} \cup Redirecting => j.carry = Null
     /\ l = "jan_clean" =>
          /\ j.cur # Null /\ j.fail # Null
          /\ j.cur # j.fail => Live(j.cur) /\ Live(j.fail) /\ Before(j.fail, j.cur) /\ Before(j.cur, i)
     /\ l \in Redirecting \cup Freeing => j.fail = Null
     /\ l \in {"jan_setnext", "jan_adv"} => j.prv = prev[j.cur] /\ j.prv # Null
     /\ l \in Freeing \ {"jan_carry", "jan_uncarry"} =>
          /\ j.right # Null /\ Live(j.right) /\ ~Before(i, j.right)
          /\ j.carry = IF j.right = i THEN Null ELSE j.right
          /\ j.cur # Null /\ prev[j.right] = j.cur
     /\ l = "jan_final" => Live(j.cur)
     /\ l \in {"jan_del", "jan_free"} =>
          /\ j.rdel = Null /\ j.del # Null /\ Live(j.del) /\ Before(j.del, j.right)
          /\ IF j.del = j.cur THEN TRUE
             ELSE mem[j.cur] = "freed" /\ Adjacent(j.right, j.del) /\ Before(j.del, j.cur)
     /\ l \in {"jan_clearprev", "jan_unlink"} => j.rdel = Null /\ mem[j.cur] = "freed" /\ Adjacent(j.right, j.del)
     /\ l = "jan_carry" =>
          /\ j.right # Null /\ Live(j.right) /\ Before(j.right, i)
          /\ j.carry # Null => Live(j.carry) /\ Before(j.carry, i) /\ Before(j.right, j.carry)
     /\ l = "jan_uncarry" /\ j.carry # Null => Live(j.carry) /\ Before(j.carry, i)

\* the only reference to what is freed is that of its right neighbour
Unreferenced(t) == pc[t] = "jan_free" => weak[jn[t].del].count <= 1

-----------------------------------------------------------------------------
(* Advances and janitors. *)

(* t has announced that it follows next of node n: it goes there, or it    *)
(* comes back, for advance_count to be lowered.                            *)
Walks(t, n) == pc[t] \in {"adv_reload", "adv_weak", "adv_dec"} /\ item[t] = n
Shares(t, n) ==
  /\ pc[t] \in {"sg_next", "sg_strong", "sg_cas", "sg_recheck", "sg_light", "sg_dec"} \/ dr[t].ret = "sg_dec"
  /\ Base(t) = n
Announcers(n) ==
  {<<"walk", t>> : t \in {t \in Threads : Walks(t, n)}} \cup {<<"share", t>> : t \in {t \in Threads : Shares(t, n)}}

AdvanceExact == \A n \in Nodes : adv[n] = Cardinality(Announcers(n))

\* t is on its way from x to y, and has no reference to y yet
Follows(t, x, y) ==
  \/ pc[t] = "adv_weak" /\ x = item[t] /\ y = av[t].nxt
  \/ pc[t] \in {"sg_strong", "sg_cas"} /\ x = Base(t) /\ y = op[t].nxt

(* next of what a janitor has redirected leads to its start node, or on;   *)
(* and an advance that read next before is on its way to a node that the   *)
(* janitor spares.                                                         *)
Redirected(t, n) ==
  \/ pc[t] \in {"jan_strong", "jan_setnext"} /\ ~Before(n, jn[t].cur) /\ Before(n, item[t])
  \/ pc[t] = "jan_adv" /\ ~Before(n, jn[t].prv) /\ Before(n, item[t])
  \/ pc[t] \in Freeing /\ HasLocked(t, n) /\ Before(n, item[t])

\* y is right of all that t may free
Spares(t, y) ==
  LET j == jn[t] IN
  \/ j.rdel # Null /\ Published(j.rdel) /\ ~Before(y, j.rdel)
  \/ ~Before(y, IF pc[t] \in Redirecting THEN item[t] ELSE j.right)

Followed ==
  /\ \A t \in Threads : \A n \in Nodes : Live(n) /\ Redirected(t, n) => ~Before(next[n].ptr, item[t])
  /\ \A u \in Threads : \A x, y \in Nodes : Follows(u, x, y) =>
       /\ Live(y) /\ Before(x, y)
       /\ \A t \in Threads :
            /\ pc[t] \in Redirecting /\ ~Before(x, jn[t].cur) => Spares(t, y)
            /\ pc[t] \in Freeing \ {"jan_uncarry"} => Spares(t, y)

-----------------------------------------------------------------------------
(* References. *)

HeldLive(t) ==
  /\ StrongOnStart(t) \/ WeakOnStart(t) => Live(av[t].start)
  /\ StrongOnItem(t) \/ WeakOnItem(t) \/ WeakForGroup(t) \/ pc[t] = "dw_free" => Live(item[t])
  /\ StrongOnNew(t) => Live(op[t].val)
  /\ pc[t] \in {"sg_recheck", "sg_light"} => Live(op[t].nxt)
  /\ pc[t] \in {"adv_dec", "adv_unweak"} => Live(av[t].nxt)

HandlesLive == \A h \in Handles : handle[h].kind \in {"strong", "weak"} => Live(handle[h].node)

\* a node that nobody but its creator knows
PrivateFresh ==
  \A n \in Nodes : mem[n] \in {"unused", "private"} =>
    /\ next[n] = NullNext /\ adv[n] = 0 /\ drops[n] = 0
    /\ mem[n] = "unused" => strong[n] = 0
    /\ mem[n] = "private" => strong[n] = 1 /\ weak[n] = [count |-> 1, haveNext |-> FALSE, havePrev |-> TRUE]

Flagged ==
  \A n \in Nodes : Live(n) =>
    /\ weak[n].haveNext => HasNext(n)
    /\ HasNext(n) /\ ~weak[n].haveNext => \E t \in Threads : pc[t] = "upd_mark" /\ item[t] = n
    /\ ~weak[n].havePrev => prev[n] = Null \/ \E t \in Threads : pc[t] = "jan_unlink" /\ jn[t].right = n /\ jn[t].del = Null

\* what do_drop_weak has learnt from the weak word it compares
WordKnown(t) ==
  /\ pc[t] = "dw_next" /\ dr[t].ww.haveNext => HasNext(item[t])
  /\ pc[t] \in {"dw_claim", "dw_cas"} \/ pd[t].ret = "dw_cas" => ~dr[t].ww.haveNext
  /\ pc[t] = "dw_free" =>
       /\ \A n \in Nodes : Live(n) => n = item[t]
       /\ ~HasNext(item[t]) /\ weak[item[t]].count = 0
       /\ \A u \in Threads : pc[u] = "dw_free" => u = t

-----------------------------------------------------------------------------
(* Teardown. *)

\* t has a strong reference to n that it does not have to take back at once
Keeps(t, n) ==
  \/ StrongOnStart(t) /\ dr[t].ret # "sg_dec" /\ av[t].start = n
  \/ StrongOnItem(t) /\ ~Undoing(t) /\ item[t] = n
  \/ StrongOnNew(t) /\ op[t].val = n
  \/ pc[t] = "sg_light" /\ op[t].nxt = n

\* t has counted itself on a node that shared_get may have to leave again
Tries(t, n) ==
  \/ StrongOnStart(t) /\ dr[t].ret = "sg_dec" /\ av[t].start = n
  \/ pc[t] = "sg_recheck" /\ op[t].nxt = n

Kept(n) ==
  \/ \E h \in Handles : handle[h].kind = "strong" /\ handle[h].node = n
  \/ \E t \in Threads : Keeps(t, n)

Tried(n) == \E t \in Threads : Tries(t, n)

\* no strong reference left of n, but for what an advance or an upgrade takes back
NoneBefore(n) == \A m \in Nodes : Kept(m) \/ Tried(m) => ~Before(m, n)

\* what janitor t has looked at
Seen(t, n) ==
  /\ Before(n, item[t])
  /\ IF pc[t] = "jan_strong" THEN Before(jn[t].cur, n) ELSE ~Before(n, jn[t].cur)

\* t has looked at node after node and has found no strong reference
FoundNone(t) == \A m \in Nodes : Kept(m) => ~Seen(t, m)

TeardownSafe ==
  /\ \A t \in Threads : pc[t] \in Redirecting /\ ~jn[t].seen => FoundNone(t)
  /\ \A t \in Threads :
       \/ pc[t] \in Freeing \cup {"jan_unlock"} /\ StrongStatus(jn[t]) = "NoStrongRefsExist"
       \/ pc[t] \in {"dw_weak", "dw_next"} /\ jn[t].status = "NoStrongRefsExist"
       \/ pc[t] = "dw_claim"
       => NoneBefore(item[t])
  /\ \A n \in Nodes : Live(n) /\ strong[n] = STRONG_DROPPED => NoneBefore(n)
  /\ \A t \in Threads : pd[t].ret = "dw_cas" => strong[pd[t].tgt] = STRONG_DROPPED
  /\ \A t \in Threads : pc[t] \in {"upg_incw", "upg_cas", "upg_race"} => op[t].cs # STRONG_DROPPED

-----------------------------------------------------------------------------
(* Payloads. *)

\* the payload of n is gone, or a call is about to drop it
Released(n) ==
  next[n].dropped \/ \E t \in Threads : pc[t] \in Dropping /\ pd[t].tgt = n

Beyond(n) == (HasNext(n) \/ strong[n] = STRONG_DROPPED) /\ ~Kept(n)

PayloadsSafe ==
  /\ \A n \in Nodes : Live(n) /\ Released(n) => Beyond(n)
  /\ \A n \in Nodes : Live(n) /\ ~next[n].dropped => drops[n] = 0
  /\ \A n \in Nodes : Live(n) /\ next[n].dropped =>
       drops[n] = IF \E t \in Threads : pc[t] = "pay_drop" /\ pd[t].tgt = n THEN 0 ELSE 1
  /\ \A n \in Nodes : mem[n] = "freed" => drops[n] = 1
  /\ \A t, u \in Threads : pc[t] = "pay_drop" /\ pc[u] = "pay_drop" /\ pd[t].tgt = pd[u].tgt => t = u
  /\ \A t \in Threads : pc[t] = "pay_drop" => next[pd[t].tgt].dropped

-----------------------------------------------------------------------------

SafeInv ==
  /\ OrderInv
  /\ \A t \in Threads : Shape(t) /\ Places(t) /\ JanitorKnows(t) /\ HeldLive(t) /\ WordKnown(t) /\ Unreferenced(t)
  /\ Listed /\ LocksHeld /\ HandlesLive /\ PrivateFresh /\ Flagged
  /\ StrongExact /\ WeakExact /\ AdvanceExact
  /\ Followed /\ TeardownSafe /\ PayloadsSafe
=============================================================================
