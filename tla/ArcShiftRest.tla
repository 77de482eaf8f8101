------------------------------ MODULE ArcShiftRest ------------------------------
(***************************************************************************)
(* What calls leave behind: while there is something to unlock, some call  *)
(* in progress is going to do it.                                          *)
(***************************************************************************)
EXTENDS ArcShiftSafe

\* a lock has an owner, and only a locked node is disturbed
LocksOwned ==
  /\ \A n \in Nodes : Live(n) /\ next[n].locked => \E t \in Threads : HasLocked(t, n)
  /\ \A n \in Nodes : next[n].disturbed => next[n].locked

\* who was told to be the sole user has freed the last node
SoleEmpty == \A t \in Threads : op[t].sole => \A n \in Nodes : ~Live(n)

-----------------------------------------------------------------------------
(* try_get_mut. *)

NoUpgrades == \A c \in Calls : c[2] # "upgrade"

\* there is nothing left of n
Leftmost(n) == \A m \in Nodes : Live(m) => ~Before(m, n)

\* nobody but t has a strong reference to n
OnlyKeeper(t, n) ==
  /\ \A h \in Handles : ~(handle[h].kind = "strong" /\ handle[h].node = n)
  /\ \A u \in Threads \ {t} : ~Keeps(u, n) /\ ~Tries(u, n)

(* What each of the three loads of try_get_mut has found out stays true    *)
(* while it makes the next one.                                            *)
MutAlone ==
  NoUpgrades =>
    /\ \A t \in Threads : op[t].f # "upgrade"
    /\ \A t \in Threads : pc[t] \in {"tgm_strong", "tgm_again", "mutref"} => Leftmost(item[t])
    /\ \A t \in Threads : pc[t] \in {"tgm_again", "mutref"} => OnlyKeeper(t, item[t])
    /\ \A t \in Threads : pc[t] = "mutref" => OnlyReference(t)

-----------------------------------------------------------------------------
(* Garbage.                                                                *)

\* what makes a dying call look at the chain once more
Returns(t) ==
  \/ HasNext(item[t])
  \/ pc[t] \in Janitoring \cup {"dw_weak"} /\ jn[t].rerun
  \/ pc[t] \in Janitoring /\ next[item[t]].disturbed

\* the call gives its reference up, and its janitor has spared or could not see some node
Leaves(t) ==
  LET j == jn[t] IN
  \/ pc[t] \in {"dw_weak", "dw_next", "dw_claim", "dw_cas"}
  \/ pc[t] \in Dropping /\ pd[t].ret = "dw_cas"
  \/ /\ j.ret = "dw_weak"
     /\ \/ pc[t] \in {"jan_clean", "jan_carry", "jan_uncarry", "jan_unlock"}
        \/ pc[t] \in Redirecting /\ j.rdel # Null
        \/ pc[t] = "jan_final" /\ (j.right # item[t] \/ j.rdel # Null)
        \/ pc[t] \in {"jan_del", "jan_free"} /\ j.right # item[t]
        \/ pc[t] \in {"jan_clearprev", "jan_unlink"} /\ (j.right # item[t] \/ j.del # Null)

\* the calls that end with a handle to the chain
Yields(t) ==
  op[t].f \in {"clone", "get", "reload", "tryGetMut", "update", "rcu"} \/ (op[t].f = "upgrade" /\ op[t].ok)

InCharge(t) ==
  /\ pc[t] # "idle"
  /\ pc[t] = "ret" => Yields(t)
  /\ Leaves(t) => Returns(t) \/ Leftmost(item[t])

HandleLeft == \E h \in Handles : handle[h].kind \in {"strong", "weak"}

(* While there is a node, there is a handle, or a call that will leave one *)
(* behind or see to it that no node is left.                               *)
Attended == HandleLeft \/ (\E t \in Threads : InCharge(t)) \/ \A n \in Nodes : ~Live(n)

\* a node that is not published has a call that will publish or free it
NewOwned == \A n \in Nodes : mem[n] = "private" => \E t \in Threads : Linking(pc[t], av[t]) /\ op[t].val = n

\* havePrev is cleared before the link is
PrevFlagged ==
  /\ \A n \in Nodes : Live(n) /\ prev[n] = Null => ~weak[n].havePrev
  /\ \A t \in Threads : pc[t] = "jan_unlink" /\ jn[t].del = Null => ~weak[jn[t].right].havePrev

LeakInv == Attended /\ NewOwned /\ PrevFlagged
=============================================================================
