----------------------------- MODULE ArcShiftOrder -----------------------------
(***************************************************************************)
(* The order of the chain. Nodes are published one after the other, and    *)
(* next always leads to a younger node, prev to an older one, while any    *)
(* number of threads advance, update and collect. The invariant holds for  *)
(* every number of threads, handles and nodes (ArcShiftProofs); it is what *)
(* FreshRead and UpdatesSerialize follow from.                             *)
(***************************************************************************)
EXTENDS ArcShiftProps

Published(n) == stamp[n] > 0

(* The nodes form one line in the order of publication. next skips nodes   *)
(* (the janitor redirects it) but only to the right, and only the newest   *)
(* node has none; prev leads to the left.                                  *)
ChainOrdered ==
  /\ \A n \in Nodes : stamp[n] <= count
  /\ \A m, n \in Nodes : Published(m) /\ stamp[m] = stamp[n] => m = n
  /\ \A n \in Nodes : HasNext(n) => stamp[n] > 0 /\ stamp[next[n].ptr] > stamp[n]
  /\ \A n \in Nodes : Published(n) /\ ~HasNext(n) => stamp[n] = count
  /\ \A n \in Nodes : Published(n) /\ prev[n] # Null => Published(prev[n]) /\ stamp[prev[n]] < stamp[n]
  /\ \A n \in Nodes : mem[n] \in {"unused", "private"} => ~Published(n)

-----------------------------------------------------------------------------
(* What a call knows about the nodes it has a pointer to. l is the label    *)
(* it is at; i, a, p, j and o are its item, av, pd, jn and op.             *)

Advancing == Walking \cup Swapping \cup SwappedIn \cup {"advw_dec", "advs_a_decw"}
Dropping == {"pay_mark", "pay_drop"}

\* a function that is not running has no return address
Frames(l, a, p) ==
  /\ l \notin Advancing \cup Dropping => a.ret = "idle"
  /\ l \in Dropping /\ p.ret # "advs_a_decw" => a.ret = "idle"
  /\ p.ret # "idle" => l \in Dropping

\* every register holds a node of the chain
OnChain(l, i, a, o) ==
  /\ Published(i) /\ Published(a.start) /\ Published(a.nxt) /\ Published(o.nxt)
  /\ l \in {"adv_inc", "adv_reload"} => HasNext(i)

\* the call has built, or may build, a node that is not linked yet
Linking(l, a) == l \in {"upd_next", "upd_weak", "upd_cas", "upd_fail"} \/ a.ret = "upd_next"

\* the call has linked its node and has not moved to it yet
Linked(l, p) == l \in {"upd_mark", "upd_dec", "upd_decw"} \/ p.ret = "upd_decw"

NewNode(l, i, a, p, o) ==
  /\ Linking(l, a) /\ o.val # Null => mem[o.val] = "private"
  /\ l \in {"upd_weak", "upd_cas"} => o.val # Null /\ prev[o.val] = i /\ o.nw.ptr = Null
  /\ Linked(l, p) => o.val # Null /\ Published(o.val) /\ stamp[o.val] >= o.since

\* the janitor moves leftwards, and what it deletes is left of where it stands
Older(m, n) == m # Null /\ n # Null /\ Published(m) /\ stamp[m] < stamp[n]

JanitorOrdered(l, i, j) ==
  /\ l \in {"jan_sweep", "jan_strong", "jan_setnext", "jan_adv"} => Older(j.cur, i) /\ Older(j.cand, i)
  /\ l \in {"jan_setnext", "jan_adv"} => Older(j.prv, i)
  /\ l \in {"jan_final", "jan_del", "jan_free", "jan_clearprev", "jan_unlink", "jan_carry"} =>
       j.right # Null /\ Published(j.right)
  /\ l \in {"jan_final", "jan_del", "jan_free"} => Older(j.cur, j.right)
  /\ l \in {"jan_del", "jan_free"} => Older(j.del, j.right)
  /\ l = "jan_clearprev" => j.del = Null
  /\ l = "jan_unlink" /\ j.del # Null => Older(j.del, j.right)

SharedGetting ==
  {"sg_load", "sg_inc", "sg_next", "sg_strong", "sg_cas", "sg_recheck", "sg_light", "sg_dec", "sg_clone"}

\* the end of a walk to the right is at least as new as the newest node when the call began
UpToDate(l, i, o) ==
  /\ o.since <= count
  /\ l \notin Walking \cup SharedGetting \cup {"idle", "get_load"} => stamp[i] >= o.since
  /\ l = "sg_light" => stamp[o.nxt] >= o.since

\* the calls that put their result into a handle; shared_get borrows one
Storing == Functions \ {"sharedGet", "downgrade", "cloneWeak"}
ResultHandle(o) == IF o.f \in {"clone", "upgrade"} THEN o.out ELSE o.hnd

HandleKept(l, o) ==
  /\ l # "idle" /\ o.f \in Storing => handle[ResultHandle(o)].kind = "busy"
  /\ l \in {"sg_load", "sg_inc", "sg_next"} => o.f = "sharedGet"
  /\ l # "idle" /\ o.f = "sharedGet" => handle[o.hnd].kind = "strong"
  /\ l \in {"sg_inc", "sg_next"} => HasNext(handle[o.hnd].node)

Knows(l, i, a, p, j, o) ==
  /\ Frames(l, a, p) /\ OnChain(l, i, a, o) /\ NewNode(l, i, a, p, o)
  /\ JanitorOrdered(l, i, j) /\ UpToDate(l, i, o) /\ HandleKept(l, o)

Local(t) == Knows(pc[t], item[t], av[t], pd[t], jn[t], op[t])

\* no two calls have the same new node, or the same handle for their results
Apart(t, u) ==
  /\ Linking(pc[t], av[t]) /\ Linking(pc[u], av[u]) /\ op[t].val # Null => op[t].val # op[u].val
  /\ pc[t] # "idle" /\ pc[u] # "idle" /\ op[t].f \in Storing /\ op[u].f \in Storing
       => ResultHandle(op[t]) # ResultHandle(op[u])

(* The inductive invariant: the chain is in order, every call has what it  *)
(* relies on, and no two calls have the same node to link.                 *)
OrderInv ==
  /\ TypeOK
  /\ ChainOrdered
  /\ Published(IdleNode) /\ \A h \in Handles : Published(handle[h].node)
  /\ \A t \in Threads : Local(t)
  /\ \A t, u \in Threads : t # u => Apart(t, u)
=============================================================================
