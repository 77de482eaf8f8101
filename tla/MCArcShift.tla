------------------------------- MODULE MCArcShift -------------------------------
(***************************************************************************)
(* Instances of ArcShift for TLC. Each program is a chain, the handles on  *)
(* it, and the calls the threads may make; its name says what is at stake. *)
(***************************************************************************)
EXTENDS ArcShiftRefines, ArcShiftRest, TLC

CONSTANTS t1, t2, t3, h1, h2, h3, h4

Holds(kind, n) == [kind |-> kind, node |-> n]
Nothing == NoHandle
Shift(n) == Holds("strong", n)
Weak(n) == Holds("weak", n)
Held4(a, b, c, d) == (h1 :> a) @@ (h2 :> b) @@ (h3 :> c) @@ (h4 :> d)
Do(t, f, h) == <<t, f, h, h>>
Each(k) == [t \in Threads |-> k]

(* A stale reader (h1, one value behind) against a writer; both let go.    *)
ReadInit == Held4(Shift(1), Shift(2), Nothing, Nothing)
ReadCalls ==
  {Do(t1, "get", h1), Do(t1, "sharedGet", h1), Do(t1, "drop", h1),
   Do(t2, "update", h2), Do(t2, "drop", h2)}
ReadBudget == Each(2)

(* An ArcShiftWeak is upgraded while the other handles of the chain are    *)
(* dropped and one is updated: the last ArcShift goes, or comes back.      *)
UpgradeInit == Held4(Weak(1), Shift(1), Shift(2), Nothing)
UpgradeCalls ==
  {<<t1, "upgrade", h1, h4>>, Do(t2, "drop", h2),
   Do(t3, "update", h3), Do(t3, "drop", h3)}
UpgradeBudget == Each(1)

(* try_get_mut against what could take the exclusiveness away.             *)
MutInit == Held4(Shift(1), Shift(1), Nothing, Nothing)
MutCalls ==
  {Do(t1, "tryGetMut", h1), Do(t2, "update", h2), Do(t2, "reload", h2),
   <<t2, "downgrade", h2, h3>>, <<t2, "cloneWeak", h3, h4>>, <<t2, "clone", h2, h4>>,
   Do(t2, "sharedGet", h4),
   Do(t2, "drop", h2), Do(t2, "drop", h4), Do(t2, "dropWeak", h3), Do(t2, "dropWeak", h4)}
MutBudget == (t1 :> 1) @@ (t2 :> 3)

(* Two writers with closures, both let go.                                 *)
RcuInit == MutInit
RcuCalls == {Do(t1, "rcu", h1), Do(t2, "rcu", h2), Do(t1, "drop", h1), Do(t2, "drop", h2)}
RcuBudget == Each(2)

(* Three drops at three places of a chain, one of them by try_into_inner:  *)
(* janitors meet janitors.                                                 *)
DropInit == Held4(Shift(1), Shift(2), Shift(3), Nothing)
DropCalls == {Do(t1, "drop", h1), Do(t2, "intoInner", h2), Do(t3, "drop", h3)}
DropBudget == Each(1)

(* try_into_inner from a stale handle, while the other handles go away.    *)
TakeInit == Held4(Shift(1), Shift(2), Weak(2), Nothing)
TakeCalls == {Do(t1, "intoInner", h1), Do(t2, "drop", h2), Do(t2, "dropWeak", h3)}
TakeBudget == Each(2)

(* An ArcShiftWeak keeps an old node while a reader and a writer move on.  *)
OldWeakInit == Held4(Shift(1), Shift(2), Weak(2), Nothing)
OldWeakCalls == {Do(t1, "drop", h1), Do(t2, "update", h2), Do(t2, "drop", h2)}
OldWeakBudget == Each(2)

(* try_get_mut, while the other ArcShift is downgraded and comes back.     *)
ReviveInit == MutInit
ReviveCalls ==
  {Do(t1, "tryGetMut", h1), <<t2, "downgrade", h2, h3>>, <<t2, "upgrade", h3, h4>>,
   Do(t2, "drop", h2), Do(t2, "dropWeak", h3)}
ReviveBudget == (t1 :> 1) @@ (t2 :> 4)
=============================================================================
