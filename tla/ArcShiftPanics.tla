----------------------------- MODULE ArcShiftPanics -----------------------------
(***************************************************************************)
(* Payload destructors that panic. The drop handler catches the panic, so  *)
(* that the chain is worked on as if nothing had happened, and raises it   *)
(* again where the call is done with the chain; the caller catches it      *)
(* there and goes on using its handles. (A destructor that calls back into *)
(* the chain is another thread's call, as far as the chain is concerned,   *)
(* while this one stands still at pay_drop.)                               *)
(***************************************************************************)
EXTENDS ArcShiftProps

CONSTANT Boom     \* the values whose destructors panic

ASSUME BoomAssumption == Boom \subseteq Nodes

VARIABLES
  panicking,      \* panicking[t]: the call's drop handler has caught a panic
  self            \* self[t]: what the handle of the call points at until it is written

panicVars == <<vars, panicking, self>>

PanicInit ==
  /\ Init
  /\ panicking = [t \in Threads |-> FALSE]
  /\ self = [t \in Threads |-> IdleNode]

PanicCall(t) ==
  /\ Call(t)
  /\ self' = IF pc'[t] = "idle" THEN self ELSE [self EXCEPT ![t] = handle[op'[t].hnd].node]
  /\ UNCHANGED panicking

\* the destructors this step runs; try_into_inner moves the payload out instead
Destroys(t) == {n \in Nodes : drops'[n] # drops[n] /\ op'[t].stolen # n}

\* DropHandler::run, around the destructor
Catch(t) == panicking' = [panicking EXCEPT ![t] = @ \/ Destroys(t) \cap Boom # {}]

(* resume_any_panics, where the call goes on afterwards: get, reload and    *)
(* try_get_mut have written the handle, slow_shared_get has lowered         *)
(* advance_count and has no guard. At the end of every call it comes with   *)
(* the return.                                                              *)
Resumes(t) == pc[t] = "sg_clone" \/ (pc[t] = "get_done" /\ ~jn[t].rerun)

Resume(t) ==
  /\ panicking[t]
  /\ Resumes(t)
  /\ Goto(t, "ret")
  /\ ReadOnly /\ UNCHANGED <<locals, panicking, self>>

Work(t) ==
  /\ panicking[t] => ~Resumes(t)
  /\ pc[t] # "ret"
  /\ Step(t)
  /\ Catch(t)
  /\ UNCHANGED self

\* mutant: the panic leaves the call before the handle is written
LeaveUnwritten(t) ==
  /\ pc[t] = "ret"
  /\ IF panicking[t] /\ op[t].f \in {"get", "reload", "tryGetMut", "update"}
     THEN handle' = [handle EXCEPT ![op[t].hnd] = [kind |-> "strong", node |-> self[t]]]
     ELSE handle' = Result(t)
  /\ Goto(t, "idle")
  /\ item' = [item EXCEPT ![t] = IdleNode]
  /\ jn' = [jn EXCEPT ![t] = IdleJanitor]
  /\ op' = [op EXCEPT ![t] = IdleOp]
  /\ UNCHANGED <<heap, left, stamp, count, av, pd, dr>>
  /\ panicking' = [panicking EXCEPT ![t] = FALSE]
  /\ self' = [self EXCEPT ![t] = IdleNode]

\* the call returns, or the panic goes on to the caller: the handle is written first
Leave(t) ==
  /\ Return(t)
  /\ panicking' = [panicking EXCEPT ![t] = FALSE]
  /\ self' = [self EXCEPT ![t] = IdleNode]

PanicStep(t) == Work(t) \/ Resume(t) \/ Leave(t)

PanicNext ==
  \/ \E t \in Threads : PanicCall(t) \/ PanicStep(t)
  \/ Rest /\ UNCHANGED <<panicking, self>>

PanicSpec == PanicInit /\ [][PanicNext]_panicVars

-----------------------------------------------------------------------------
(* A panic that nobody catches below rcu_maybe: the closure's, or that of   *)
(* the destructor of a value that an earlier round built. It goes through   *)
(* do_update, so the handle still is where it was when the call began, the  *)
(* reference that moved on with the advances is lost, and so is the node    *)
(* that an earlier round made.                                              *)

ClosurePanics(t) ==
  /\ pc[t] = "upd_next"
  /\ op[t].f = "rcu"
  /\ ~HasNext(item[t])
  /\ handle' = [handle EXCEPT ![op[t].hnd] = [kind |-> "strong", node |-> self[t]]]
  /\ Goto(t, "idle")
  /\ item' = [item EXCEPT ![t] = IdleNode]
  /\ jn' = [jn EXCEPT ![t] = IdleJanitor]
  /\ op' = [op EXCEPT ![t] = IdleOp]
  /\ panicking' = [panicking EXCEPT ![t] = FALSE]
  /\ self' = [self EXCEPT ![t] = IdleNode]
  /\ UNCHANGED <<heap, left, stamp, count, av, pd, dr>>

UnwindSpec ==
  PanicInit /\ [][PanicNext \/ \E t \in Threads : ClosurePanics(t)]_panicVars

-----------------------------------------------------------------------------

(* clone raises a caught panic before the reference it took has an owner,  *)
(* which would leak it; it never comes to that, because the node it copies *)
(* from keeps a reference, so that no destructor runs. The same for the    *)
(* clone that shared_get falls back on, and for a successful upgrade.      *)
NoPanicWithoutOwner ==
  \A t \in Threads : panicking[t] =>
    /\ op[t].f # "clone"
    /\ op[t].f = "upgrade" /\ pc[t] = "ret" => ~op[t].ok
    /\ av[t].ret # "reading" /\ pc[t] # "reading"

(* "Update self.item before re-raising deferred destructor panics: [...]    *)
(* unwinding with self.item dangling makes ArcShift::drop a use-after-free" *)
(* (rcu_maybe): whichever way a call ends, the handle it leaves behind      *)
(* points at a node with a value.                                           *)
UnwindingKeepsHandles ==
  \A h \in Handles : handle[h].kind = "strong" => Live(handle[h].node) /\ drops[handle[h].node] = 0
=============================================================================
