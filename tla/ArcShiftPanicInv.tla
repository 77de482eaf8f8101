--------------------------- MODULE ArcShiftPanicInv ---------------------------
(***************************************************************************)
(* The inductive invariant of a caught panic, besides that of the chain.   *)
(***************************************************************************)
EXTENDS ArcShiftPanics, ArcShiftOrder

(* A clone, and the clone that shared_get falls back on, copy the           *)
(* reference of a handle that is still there when they leave its node.     *)
Copies(t) ==
  av[t].ret \in {"ret", "reading"} =>
    /\ pc[t] \notin Dropping
    /\ handle[op[t].hnd].kind = "strong"
    /\ av[t].start = Base(t)

(* Where a call can be that has caught a panic.                            *)
Caught(t) ==
  panicking[t] =>
    /\ pc[t] \notin {"idle", "get_load", "reading"}
    /\ pc[t] \in SharedGetting => pc[t] \in {"sg_dec", "sg_clone"} /\ stamp[item[t]] >= op[t].since
    /\ op[t].f # "clone"
    /\ op[t].f = "upgrade" => ~op[t].ok
    /\ av[t].ret # "reading"

PanicInv == panicking \in [Threads -> BOOLEAN] /\ \A t \in Threads : Copies(t) /\ Caught(t)
=============================================================================
