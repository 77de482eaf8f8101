---------------------------- MODULE MCArcShiftPanics ----------------------------
(***************************************************************************)
(* The programs of MCArcShift with destructors and closures that panic.    *)
(***************************************************************************)
EXTENDS MCArcShift, ArcShiftPanics

(* One ArcShift is a value behind; the closure of its rcu panics.          *)
UnwindCalls == {Do(t1, "rcu", h1), Do(t1, "drop", h1)}
=============================================================================
