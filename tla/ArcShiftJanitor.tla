---------------------------- MODULE ArcShiftJanitor ----------------------------
(***************************************************************************)
(* do_janitor_task: the garbage collection that a call runs from item      *)
(* leftwards. It locks item and every node left of it, points the next of  *)
(* the earlier nodes at item, and frees the nodes nobody can reach any     *)
(* more. A janitor that meets a lock marks it disturbed, gives its own     *)
(* locks back and leaves the work to the lock's owner, who must run again. *)
(***************************************************************************)
EXTENDS ArcShiftAdvance

\* need_rerun and the strong status are what do_janitor_task returns
ReturnJanitor(t, rerun, status) ==
  /\ jn' = [jn EXCEPT ![t] = [IdleJanitor EXCEPT !.rerun = rerun, !.status = status, !.ret = jn[t].ret]]
  /\ Goto(t, jn[t].ret)

Janitor(t, label) ==
  /\ pc[t] = label
  /\ UNCHANGED <<item, av, pd, dr>>

-----------------------------------------------------------------------------
(* The locks. *)

\* lock_node_for_gc on the start node
JanitorLockStart(t) ==
  /\ Janitor(t, "jan_lock")
  /\ LET n == item[t] IN
     \/ /\ next[n].locked
        /\ Disturb(n)
        /\ ReturnJanitor(t, FALSE, "Indeterminate")
     \/ /\ ~next[n].locked
        /\ Lock(n)
        /\ jn' = [jn EXCEPT ![t] =
                     [IdleJanitor EXCEPT !.cur = prev[n], !.cand = prev[n], !.ret = jn[t].ret]]
        /\ Goto(t, IF prev[n] = Null THEN "jan_unlock" ELSE "jan_sweep")
  /\ OnlyNext /\ UNCHANGED op

\* mutant: a lock is waited for
JanitorSweepWaits(t) ==
  /\ Janitor(t, "jan_sweep")
  /\ LET n == jn[t].cur IN
     /\ ~next[n].locked
     /\ Lock(n)
     /\ jn' = [jn EXCEPT ![t].cur = IF prev[n] = Null THEN jn[t].cand ELSE prev[n]]
     /\ Goto(t, IF prev[n] = Null THEN "jan_strong" ELSE "jan_sweep")
  /\ OnlyNext /\ UNCHANGED op

\* the lock sweep: every node to the left, or none
JanitorSweep(t) ==
  /\ Janitor(t, "jan_sweep")
  /\ LET n == jn[t].cur IN
     \/ /\ next[n].locked
        /\ Disturb(n)
        /\ jn' = [jn EXCEPT ![t].fail = n, ![t].cur = jn[t].cand]
        /\ Goto(t, "jan_clean")
     \/ /\ ~next[n].locked
        /\ Lock(n)
        /\ IF prev[n] = Null
           THEN /\ jn' = [jn EXCEPT ![t].cur = jn[t].cand]
                /\ Goto(t, "jan_strong")
           ELSE /\ jn' = [jn EXCEPT ![t].cur = prev[n]]
                /\ UNCHANGED pc
  /\ OnlyNext /\ UNCHANGED op

\* the cleanup sweep: unlock up to the node whose lock was taken
JanitorCleanup(t) ==
  /\ Janitor(t, "jan_clean")
  /\ LET n == jn[t].cur IN
     \/ /\ n \notin {jn[t].fail, Null}
        /\ Unlock(n)
        /\ jn' = [jn EXCEPT ![t].cur = prev[n], ![t].rerun = @ \/ next[n].disturbed]
        /\ UNCHANGED pc
     \/ /\ n \in {jn[t].fail, Null}
        /\ jn' = [jn EXCEPT ![t].cur = Null, ![t].rerun = @ \/ n = Null]
        /\ Goto(t, "jan_unlock")
        /\ UNCHANGED next
  /\ OnlyNext /\ UNCHANGED op

\* mutant: the strong counts seen on the way are forgotten
StrongStatusBlind(j) == IF j.fail = Null THEN "NoStrongRefsExist" ELSE "Indeterminate"

\* get_strong_status: a traversal that failed to lock says nothing
StrongStatus(j) ==
  IF j.seen THEN "StrongRefsFound"
  ELSE IF j.fail = Null THEN "NoStrongRefsExist" ELSE "Indeterminate"

\* mutant: the mark of a janitor that met the lock is not looked at
JanitorUnlockStartUnmarked(t) ==
  /\ Janitor(t, "jan_unlock")
  /\ Unlock(item[t])
  /\ ReturnJanitor(t, jn[t].rerun, StrongStatus(jn[t]))
  /\ OnlyNext /\ UNCHANGED op

JanitorUnlockStart(t) ==
  /\ Janitor(t, "jan_unlock")
  /\ Unlock(item[t])
  /\ ReturnJanitor(t, jn[t].rerun \/ next[item[t]].disturbed, StrongStatus(jn[t]))
  /\ OnlyNext /\ UNCHANGED op

-----------------------------------------------------------------------------
(* The first loop: redirect the earlier nodes to the start node. *)

JanitorStrong(t) ==
  /\ Janitor(t, "jan_strong")
  /\ LET n == jn[t].cur
         s == jn[t].seen \/ LiveStrong(strong[n]) > 0
     IN \/ /\ prev[n] # Null
           /\ jn' = [jn EXCEPT ![t].seen = s, ![t].prv = prev[n]]
           /\ Goto(t, "jan_setnext")
        \/ /\ prev[n] = Null
           /\ jn' = [jn EXCEPT ![t].seen = s, ![t].cur = jn[t].cand, ![t].right = item[t]]
           /\ Goto(t, "jan_final")
  /\ ReadOnly /\ UNCHANGED op

\* mutant: the next node is kept as the target
JanitorSetNextNear(t) ==
  /\ Janitor(t, "jan_setnext")
  /\ SetNext(jn[t].prv, jn[t].cur)
  /\ Goto(t, "jan_adv")
  /\ OnlyNext /\ UNCHANGED <<jn, op>>

JanitorSetNext(t) ==
  /\ Janitor(t, "jan_setnext")
  /\ SetNext(jn[t].prv, item[t])
  /\ Goto(t, "jan_adv")
  /\ OnlyNext /\ UNCHANGED <<jn, op>>

\* mutant: one advance is overlooked
AdvanceInProgressTwice(n) == adv[n] > 1

\* an advance under way from n may still reach any node to the right of n
AdvanceInProgress(n) == adv[n] > 0

JanitorCheckAdvance(t) ==
  /\ Janitor(t, "jan_adv")
  /\ LET p == jn[t].prv IN
     jn' = [jn EXCEPT ![t].rdel = IF AdvanceInProgress(p) THEN jn[t].cur ELSE @, ![t].cur = p]
  /\ Goto(t, "jan_strong")
  /\ ReadOnly /\ UNCHANGED op

-----------------------------------------------------------------------------
(* The final loop: free runs of nodes, unlink them, unlock one node late. *)

\* nothing may be freed up to and including the node rdel
JanitorFinal(t) ==
  /\ Janitor(t, "jan_final")
  /\ LET n == jn[t].cur IN
     \/ /\ jn[t].rdel = Null
        /\ jn' = [jn EXCEPT ![t].del = n]
        /\ Goto(t, "jan_del")
     \/ /\ jn[t].rdel # Null
        /\ jn' = [jn EXCEPT ![t].rdel = IF @ = n THEN Null ELSE @, ![t].right = n]
        /\ Goto(t, "jan_carry")
  /\ ReadOnly /\ UNCHANGED op

\* only the weak count of the next node is left: nobody else refers to n
Deletable(n) == weak[n].count <= 1

\* delete_nodes_that_can_be_deleted
JanitorDelete(t) ==
  /\ Janitor(t, "jan_del")
  /\ LET n == jn[t].del IN
     \/ /\ Deletable(n)
        /\ Goto(t, "jan_free")
        /\ UNCHANGED jn
     \/ /\ ~Deletable(n)
        /\ n # jn[t].cur
        /\ Goto(t, "jan_unlink")
        /\ UNCHANGED jn
     \/ /\ ~Deletable(n)
        /\ n = jn[t].cur
        /\ jn' = [jn EXCEPT ![t].right = n]
        /\ Goto(t, "jan_carry")
  /\ ReadOnly /\ UNCHANGED op

JanitorFree(t) ==
  /\ Janitor(t, "jan_free")
  /\ LET n == jn[t].del IN
     /\ Deallocate(t, n)
     /\ jn' = [jn EXCEPT ![t].del = prev[n]]
     /\ Goto(t, IF prev[n] = Null THEN "jan_clearprev" ELSE "jan_del")
  /\ UNCHANGED <<next, prev, strong, weak, adv, client>>

JanitorClearPrev(t) ==
  /\ Janitor(t, "jan_clearprev")
  /\ weak' = [weak EXCEPT ![jn[t].right].havePrev = FALSE]
  /\ Goto(t, "jan_unlink")
  /\ OnlyWeak /\ UNCHANGED <<jn, op>>

JanitorUnlink(t) ==
  /\ Janitor(t, "jan_unlink")
  /\ LET new == jn[t].del IN
     /\ prev' = [prev EXCEPT ![jn[t].right] = new]
     /\ IF new = Null
        THEN Goto(t, "jan_uncarry") /\ UNCHANGED jn
        ELSE Goto(t, "jan_carry") /\ jn' = [jn EXCEPT ![t].right = new]
  /\ OnlyPrev /\ UNCHANGED op

\* mutant: the node just visited is unlocked at once
ReleaseCarryEarly(t) == Unlock(IF jn[t].carry = Null THEN jn[t].right ELSE jn[t].carry)

\* do_unlock: the node before the last one visited is given back
ReleaseCarry(t) ==
  IF jn[t].carry = Null THEN UNCHANGED next ELSE Unlock(jn[t].carry)

CarryDisturbed(t) == jn[t].carry # Null /\ next[jn[t].carry].disturbed

JanitorCarry(t) ==
  /\ Janitor(t, "jan_carry")
  /\ LET n == jn[t].right IN
     /\ ReleaseCarry(t)
     /\ jn' = [jn EXCEPT ![t].cur = prev[n], ![t].carry = n, ![t].del = Null,
                         ![t].rerun = @ \/ CarryDisturbed(t)]
     /\ Goto(t, IF prev[n] = Null THEN "jan_uncarry" ELSE "jan_final")
  /\ OnlyNext /\ UNCHANGED op

\* mutant: the last lock is not given back
JanitorUncarryKeeps(t) ==
  /\ Janitor(t, "jan_uncarry")
  /\ jn' = [jn EXCEPT ![t].carry = Null, ![t].rerun = @ \/ CarryDisturbed(t)]
  /\ Goto(t, "jan_unlock")
  /\ ReadOnly /\ UNCHANGED op

JanitorUncarry(t) ==
  /\ Janitor(t, "jan_uncarry")
  /\ ReleaseCarry(t)
  /\ jn' = [jn EXCEPT ![t].carry = Null, ![t].rerun = @ \/ CarryDisturbed(t)]
  /\ Goto(t, "jan_unlock")
  /\ OnlyNext /\ UNCHANGED op

JanitorStep(t) ==
  \/ JanitorLockStart(t) \/ JanitorSweep(t) \/ JanitorCleanup(t) \/ JanitorUnlockStart(t)
  \/ JanitorStrong(t) \/ JanitorSetNext(t) \/ JanitorCheckAdvance(t)
  \/ JanitorFinal(t) \/ JanitorDelete(t) \/ JanitorFree(t) \/ JanitorClearPrev(t)
  \/ JanitorUnlink(t) \/ JanitorCarry(t) \/ JanitorUncarry(t)
=============================================================================
