---------------------------- MODULE ArcShiftRegister ----------------------------
(***************************************************************************)
(* What ArcShift promises, without nodes, counts or janitors: one line of  *)
(* values, handles that show one of them each, and a value that goes when  *)
(* nobody can ask for it any more. ArcShift implements it                  *)
(* (ArcShiftRefines).                                                      *)
(***************************************************************************)
EXTENDS Naturals

CONSTANTS Threads, Handles

VARIABLES
  latest,      \* number of values so far: the newest is value latest
  gone,        \* the newest value was given up: no ArcShift is left
  destroyed,   \* the values that were destroyed or handed out by try_into_inner
  view,        \* view[h]: what handle h is, and the value an ArcShift shows
  call         \* call[t]: the call of thread t, and how far it is

registerVars == <<latest, gone, destroyed, view, call>>

NoView == [kind |-> "none", value |-> 0]
BusyView == [kind |-> "busy", value |-> 0]
WeakView == [kind |-> "weak", value |-> 0]
StrongView(v) == [kind |-> "strong", value |-> v]

\* since: the result is at least this new; fate: what is decided about the call
NoCall == [f |-> "none", hnd |-> CHOOSE h \in Handles : TRUE, out |-> CHOOSE h \in Handles : TRUE,
           since |-> 0, fate |-> "open"]

Readers == {"get", "reload", "tryGetMut"}
Writers == {"update", "rcu"}
Droppers == {"drop", "intoInner"}
Makers == {"clone", "upgrade"}

TypeOK ==
  /\ latest \in Nat \ {0} /\ gone \in BOOLEAN /\ destroyed \subseteq 1..latest
  /\ view \in [Handles -> {NoView, BusyView, WeakView} \cup {StrongView(v) : v \in 1..latest}]
  /\ call \in [Threads -> [f : Readers \cup Writers \cup Droppers \cup Makers \cup {"none", "dropWeak", "sharedGet"},
                           hnd : Handles, out : Handles, since : 0..latest,
                           fate : {"open", "published", "upgraded"}]]

Init ==
  /\ latest \in Nat \ {0}
  /\ gone = FALSE
  /\ destroyed = {}
  /\ view \in [Handles -> {NoView, WeakView} \cup {StrongView(v) : v \in 1..latest}]
  /\ call = [t \in Threads |-> NoCall]

\* somebody has an ArcShift: in a handle, or in a call that will leave one behind
HasShift(t) == call[t].f \in Readers \cup Writers \/ call[t].fate = "upgraded"
ShiftExists == (\E h \in Handles : view[h].kind = "strong") \/ \E t \in Threads : HasShift(t)

Begin(t, f, h, o) ==
  /\ view[h].kind = IF f \in {"upgrade", "dropWeak"} THEN "weak" ELSE "strong"
  /\ call' = [call EXCEPT ![t] = [f |-> f, hnd |-> h, out |-> o, since |-> latest, fate |-> "open"]]
  /\ UNCHANGED <<latest, gone, destroyed>>

\* &mut self and self: the call has the handle for itself
BeginOwning(t) ==
  /\ call[t] = NoCall
  /\ \E h \in Handles :
       /\ view' = [view EXCEPT ![h] = BusyView]
       /\ \E f \in Readers \cup Writers \cup Droppers \cup {"dropWeak"} : Begin(t, f, h, h)

\* &self, and a place for the result
BeginMaking(t) ==
  /\ call[t] = NoCall
  /\ \E o \in Handles :
       /\ view[o] = NoView
       /\ view' = [view EXCEPT ![o] = BusyView]
       /\ \E f \in Makers, h \in Handles : Begin(t, f, h, o)

BeginSharedGet(t) ==
  /\ call[t] = NoCall
  /\ UNCHANGED view
  /\ \E h \in Handles : Begin(t, "sharedGet", h, h)

\* downgrade, and the clone of an ArcShiftWeak
MakeWeak(o) ==
  /\ view[o] = NoView
  /\ view' = [view EXCEPT ![o] = WeakView]
  /\ \E h \in Handles : view[h].kind \in {"strong", "weak"}
  /\ UNCHANGED <<latest, gone, destroyed, call>>

\* the one step at which an update, or an rcu that is not given up, takes effect
Publish(t) ==
  /\ call[t].f \in Writers /\ call[t].fate = "open"
  /\ ~gone
  /\ latest' = latest + 1
  /\ call' = [call EXCEPT ![t].fate = "published", ![t].since = latest + 1]
  /\ UNCHANGED <<gone, destroyed, view>>

\* the step at which an upgrade succeeds
Upgraded(t) ==
  /\ call[t].f = "upgrade" /\ call[t].fate = "open"
  /\ ~gone
  /\ call' = [call EXCEPT ![t].fate = "upgraded"]
  /\ UNCHANGED <<latest, gone, destroyed, view>>

\* the newest value is given up when no ArcShift is left, and for good
GiveUp ==
  /\ ~gone /\ ~ShiftExists
  /\ gone' = TRUE
  /\ destroyed' \in {destroyed, destroyed \cup {latest}}
  /\ UNCHANGED <<latest, view, call>>

\* a value is destroyed once, when no ArcShift shows it and nobody can still reach it
Destroy(v) ==
  /\ v \notin destroyed
  /\ v < latest \/ gone
  /\ \A h \in Handles : view[h] # StrongView(v)
  /\ destroyed' = destroyed \cup {v}
  /\ UNCHANGED <<latest, gone, view, call>>

\* what an ArcShift that a call leaves behind may show
Results(t) == {StrongView(v) : v \in call[t].since..latest \ destroyed}

End(t) ==
  /\ call[t] # NoCall
  /\ call' = [call EXCEPT ![t] = NoCall]
  /\ LET f == call[t].f
         h == call[t].hnd
         o == call[t].out
     IN \/ /\ f \in Readers \/ f = "rcu" \/ (f = "update" /\ call[t].fate = "published")
           /\ \E r \in Results(t) : view' = [view EXCEPT ![h] = r]
        \/ /\ f = "clone" \/ (f = "upgrade" /\ call[t].fate = "upgraded")
           /\ \E r \in Results(t) : view' = [view EXCEPT ![o] = r]
        \/ f = "upgrade" /\ call[t].fate = "open" /\ gone /\ view' = [view EXCEPT ![o] = NoView]
        \/ f \in Droppers \cup {"dropWeak"} /\ view' = [view EXCEPT ![h] = NoView]
        \/ f = "sharedGet" /\ UNCHANGED view
  /\ UNCHANGED <<latest, gone, destroyed>>

Next ==
  \/ \E t \in Threads : BeginOwning(t) \/ BeginMaking(t) \/ BeginSharedGet(t)
  \/ \E t \in Threads : Publish(t) \/ Upgraded(t) \/ End(t)
  \/ \E o \in Handles : MakeWeak(o)
  \/ GiveUp
  \/ \E v \in 1..latest : Destroy(v)

Spec == Init /\ [][Next]_registerVars
=============================================================================
