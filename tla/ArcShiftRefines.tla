---------------------------- MODULE ArcShiftRefines ----------------------------
(***************************************************************************)
(* The chain of nodes implements the register of ArcShiftRegister: value v *)
(* is the node that was published as number v.                             *)
(***************************************************************************)
EXTENDS ArcShiftSafe

\* nobody can have the newest value any more
GoneNode(n) == strong[n] = STRONG_DROPPED \/ next[n].dropped \/ mem[n] = "freed"
Gone == \E n \in Nodes : stamp[n] = count /\ GoneNode(n)

Destroyed == {stamp[n] : n \in {m \in Nodes : Published(m) /\ drops[m] > 0}}

Shown(h) ==
  [kind |-> handle[h].kind, value |-> IF handle[h].kind = "strong" THEN stamp[handle[h].node] ELSE 0]

\* the call has linked its node
HasPublished(t) == op[t].val # Null /\ Published(op[t].val)

HasUpgraded(t) == op[t].f = "upgrade" /\ (pc[t] = "upg_done" \/ (pc[t] = "ret" /\ op[t].ok))

Fate(t) ==
  CASE HasPublished(t) -> "published"
    [] HasUpgraded(t) -> "upgraded"
    [] OTHER -> "open"

Progress(t) ==
  [f |-> op[t].f, hnd |-> op[t].hnd, out |-> op[t].out,
   since |-> IF HasPublished(t) THEN stamp[op[t].val] ELSE op[t].since, fate |-> Fate(t)]

\* what the handles show, and how far the calls are
View == [h \in Handles |-> Shown(h)]
Ledger == [t \in Threads |-> Progress(t)]

Register == INSTANCE ArcShiftRegister WITH
  latest <- count, gone <- Gone, destroyed <- Destroyed, view <- View, call <- Ledger

(* Every call takes effect as the register says, in one step between its   *)
(* start and its return: updates line up, what is handed out is no older   *)
(* than the newest value at the start and not destroyed, upgrade answers   *)
(* None only when the last ArcShift is gone, and then for good.            *)
ImplementsRegister == Register!Spec

-----------------------------------------------------------------------------

(* What the mapping rests on besides SafeInv: a call that has built a node *)
(* publishes it, or frees it and says so; once it is published the result  *)
(* is no older; and an upgrade answers None because the value is gone.     *)
Answers(t) ==
  LET o == op[t] IN
  /\ IF pc[t] = "idle" THEN o = IdleOp ELSE o.f \in Storing \cup {"sharedGet"}
  /\ o.val # Null => /\ o.f \in {"update", "rcu"}
                     /\ Linking(pc[t], av[t]) \/ Published(o.val) \/ (o.f = "rcu" /\ mem[o.val] = "freed")
  /\ o.f = "update" => o.val # Null
  /\ HasPublished(t) => Linked(pc[t], pd[t]) \/ ~Before(item[t], o.val)
  /\ o.f = "upgrade" /\ ~o.ok => Gone
  /\ pc[t] = "upg_next" /\ o.cs = STRONG_DROPPED => strong[item[t]] = STRONG_DROPPED

AnswersHold == \A t \in Threads : Answers(t)
=============================================================================
